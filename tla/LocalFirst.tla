----------------------------- MODULE LocalFirst -----------------------------
(***************************************************************************)
(* What the dashboard promises about the vault it shows, and nothing about  *)
(* how: an edit is visible at once; edits reach the file one at a time in   *)
(* the order they were made; while any is on its way the newest one is what *)
(* is shown; and what replaces it afterwards is a content the file has had  *)
(* since the last of them was settled, never an older one.                  *)
(***************************************************************************)
EXTENDS Sequences

CONSTANTS Contents, Nothing

VARIABLES
  shown,    \* the content on the screen, or Nothing
  pending,  \* edits on their way to the file, oldest first
  stored,   \* the content of the file
  recent    \* the contents the file has had since the last edit was settled

absVars == <<shown, pending, stored, recent>>

AbsInit ==
  /\ stored \in Contents
  /\ shown = Nothing /\ pending = <<>> /\ recent = {stored}

MakesEdit ==
  /\ \E c \in Contents : shown' = c /\ pending' = Append(pending, c)
  /\ UNCHANGED <<stored, recent>>

\* The oldest edit is stored or refused; the screen does not move unless it
\* is blanked.
SettlesEdit ==
  /\ pending # <<>>
  /\ pending' = Tail(pending)
  /\ stored' \in {stored, Head(pending)}
  /\ recent' = {stored'}
  /\ UNCHANGED shown

SomeoneElseWrites ==
  /\ stored' \in Contents
  /\ recent' = recent \cup {stored'}
  /\ UNCHANGED <<shown, pending>>

ShowsTheFile ==
  /\ pending = <<>>
  /\ shown' \in recent
  /\ UNCHANGED <<pending, stored, recent>>

Blanks ==
  /\ shown' = Nothing
  /\ UNCHANGED <<pending, stored, recent>>

AbsNext == MakesEdit \/ SettlesEdit \/ SomeoneElseWrites \/ ShowsTheFile \/ Blanks

AbsSpec == AbsInit /\ [][AbsNext]_absVars
=============================================================================
