---- MODULE MCDesktop ----
(***************************************************************************)
(* The desktop's compositor, on a screen of 3 x 4 pixels, the console's    *)
(* text box, of 3 x 2 characters, and the interrupts that bring the input. *)
(* The first two share nothing but the sheet's buffer, of which the        *)
(* compositor sees one cell, and the interrupts share only the queue, so a *)
(* behaviour is one of the three.                                          *)
(***************************************************************************)
EXTENDS Desktop, TextBox, Interrupts

VARIABLE part

MCWidth == [desktop |-> 3, window |-> 2, console |-> 1, mouse |-> 2]
MCHeight == [desktop |-> 4, window |-> 2, console |-> 4, mouse |-> 1]
MCInvisible == [desktop |-> {}, window |-> {}, console |-> {}, mouse |-> {<<1, 0>>}]
MCConsoleAt == <<1, 0>>
MCWindowAt == <<0, 1>>
MCCounterPixel == <<0, 1>>
MCTextPixel == <<0, 3>>
MCTextOrigin == <<0, 3>>

MCcls == <<"c">>
MCwhoami == <<"C", "c">>
MCOsName == <<"p", "h">>

vars == <<desktopVars, textVars, inputVars, part>>
InputAtRest == AtPowerOn /\ ip = Len(kernel_main) /\ at = "code" /\ disabled2 /\ int2
Init ==
  /\ DesktopInit /\ TextInit
  /\ \/ part \in {"screen", "text"} /\ InputAtRest
     \/ part = "input" /\ InputInit
OthersRest == UNCHANGED <<desktopVars, textVars, part>>
Next ==
  \/ part = "screen" /\ DesktopNext /\ UNCHANGED <<textVars, inputVars, part>>
  \/ part = "text" /\ TextNext /\ UNCHANGED <<desktopVars, inputVars, part>>
  \/ part = "input" /\ InputNext /\ OthersRest
Spec ==
  /\ Init /\ [][Next]_vars
  /\ WF_vars(part = "input" /\ Processor /\ OthersRest)
  /\ WF_vars(part = "input" /\ Controller0 /\ OthersRest)
====
