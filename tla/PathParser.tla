---- MODULE PathParser ----
(***************************************************************************)
(* path_parse of src/fs/pathparser.c: a path such as 0:/opt/bin is split   *)
(* into the drive's number and a list of parts, one call of                *)
(* path_create_part at a time.  A path is a sequence of characters.        *)
(***************************************************************************)
EXTENDS Integers, Sequences, FiniteSetsExt, SequencesExt

CONSTANTS PathMax, \* OS_PATH_MAX_LENGTH
          Paths    \* the paths to parse

VARIABLES parsepc, path_str, rest, drive_no, parts

pathVars == <<parsepc, path_str, rest, drive_no, parts>>

PathDigits == <<"0", "1", "2", "3", "4", "5", "6", "7", "8", "9">>

PathInit == parsepc = "start" /\ path_str = <<>> /\ rest = <<>> /\ drive_no = -1 /\ parts = <<>>

(* path_valid_format and path_get_drive_number_by_path: a digit and ":/". *)
path_valid_format(p) == Len(p) >= 3 /\ Contains(PathDigits, p[1]) /\ p[2] = ":" /\ p[3] = "/"
to_digit(c) == (CHOOSE i \in DOMAIN PathDigits : PathDigits[i] = c) - 1

path_parse(p) ==
  /\ parsepc = "start"
  /\ path_str' = p
  /\ IF Len(p) =< PathMax /\ path_valid_format(p)
       THEN parsepc' = "parts" /\ drive_no' = to_digit(p[1]) /\ rest' = SubSeq(p, 4, Len(p))
       ELSE parsepc' = "null" /\ UNCHANGED <<drive_no, rest>>
  /\ UNCHANGED parts

(* path_get_path_part: the first character is taken whatever it is; then
   characters up to the next slash, which is skipped, or PathMax of them. *)
PartEndAny(s) == Min({k \in 1 .. Len(s) : s[k] = "/"} \cup {Len(s) + 1, PathMax + 1})
PartEnd(s) == Min({k \in 2 .. Len(s) : s[k] = "/"} \cup {Len(s) + 1, PathMax + 1})
AfterPart(s) ==
  LET n == PartEnd(s)
  IN SubSeq(s, IF n =< Len(s) /\ n =< PathMax THEN n + 1 ELSE n, Len(s))

path_create_part ==
  /\ parsepc = "parts" /\ rest # <<>>
  /\ parts' = Append(parts, SubSeq(rest, 1, PartEnd(rest) - 1))
  /\ rest' = AfterPart(rest)
  /\ UNCHANGED <<parsepc, path_str, drive_no>>

(* There is no further part.  A path without any gives NULL. *)
PathEnds ==
  /\ parsepc = "parts" /\ rest = <<>>
  /\ parsepc' = IF parts = <<>> THEN "null" ELSE "root"
  /\ UNCHANGED <<path_str, rest, drive_no, parts>>

PathNext == (parsepc = "start" /\ \E p \in Paths : path_parse(p)) \/ path_create_part \/ PathEnds

----
Joined(s) == Tail(FlattenSeq([i \in DOMAIN s |-> <<"/">> \o s[i]]))
BehindDrive == SubSeq(path_str, 4, Len(path_str))
RepeatsSlash == \E k \in 3 .. Len(path_str) - 1 : path_str[k] = "/" /\ path_str[k + 1] = "/"

(* The parts are the path: unless it has several slashes in a row, no part has a
   slash, and joined by slashes the parts give back all that follows the drive,
   but perhaps for a slash at the end.  No part of any path is empty, and none
   fills its buffer so that it would not be terminated.  Every path of the right
   form and length with something behind the drive is accepted. *)
PathRoundTrip ==
  /\ parsepc = "root" =>
       /\ ~ RepeatsSlash =>
            /\ BehindDrive \in {Joined(parts), Append(Joined(parts), "/")}
            /\ \A i \in DOMAIN parts : ~ Contains(parts[i], "/")
       /\ path_str[1] = PathDigits[drive_no + 1]
       /\ \A i \in DOMAIN parts : Len(parts[i]) \in 1 .. PathMax - 1
  /\ parsepc = "null" => Len(path_str) > PathMax \/ ~ path_valid_format(path_str) \/ Len(path_str) = 3

(* What the comment on path_get_path_part says (pathparser.c:44): slashes in
   front of a name are not part of it. *)
SlashesSkipped == parsepc = "root" => \A i \in DOMAIN parts : ~ Contains(parts[i], "/")
====
