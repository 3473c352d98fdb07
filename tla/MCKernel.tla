------------------------------ MODULE MCKernel ------------------------------
(***************************************************************************)
(* Small instances of Kernel.  The slices are the kernel's own; the timer  *)
(* periods (100, 100, 500, 8 and 80 ticks) are scaled down, and the FIFOs  *)
(* hold a few entries.                                                     *)
(***************************************************************************)
EXTENDS Kernel

MCTask == {task3, task4, console, idle}
MCPeriod == [t \in Timer \ {"tss"} |->
               CASE t = "sec3" -> 4 [] t = "sec4" -> 3 [] t = "five" -> 3
                 [] t = "render" -> 2 [] OTHER -> 3]
MCLivePeriod == [t \in Timer \ {"tss"} |-> IF t = "blink" THEN 3 ELSE 2]
MCCapacity == [f \in Fifo |-> IF f = "fifoTSS4" THEN 3 ELSE 1]
=============================================================================
