----------------------------- MODULE QuickStart -----------------------------
(***************************************************************************)
(* The questionnaire (pages/QuickStart.tsx) as operators on the state of    *)
(* the form, and what its answers become (lib/quickstart-converter.ts).     *)
(*                                                                         *)
(* A form is the list of its questions' types, the question it is at, the   *)
(* answers given, the options ticked at a multiple choice, whether the      *)
(* form has advanced since the last frame, and, which are not in the code,  *)
(* whether it is finished and the questions that have been painted.         *)
(***************************************************************************)
EXTENDS Naturals, Sequences, FiniteSets

CONSTANTS
  Options,      \* what can be chosen, ticked or typed
  NoneOption    \* the option that excludes the others

QuestionTypes == {"choice", "multi", "text"}
Answer  == SUBSET (Options \cup {NoneOption})
FormOf(types) == [types : {types}, at : DOMAIN types, answers : [DOMAIN types -> Answer],
                  selected : Answer, advancing : BOOLEAN, finished : BOOLEAN,
                  painted : SUBSET DOMAIN types]
NewForm(types) == [types |-> types, at |-> 1, answers |-> [i \in DOMAIN types |-> {}],
                   selected |-> {}, advancing |-> FALSE, finished |-> FALSE, painted |-> {1}]
IsLast(f) == f.at = Len(f.types)
TypeAt(f) == f.types[f.at]

\* saveAnswer
saveAnswer(f, value) == [f EXCEPT !.answers[f.at] = value]

\* What advance adds before it moves on: the value that is pending, or the
\* options that are ticked.
Latest(f, pending) ==
  IF pending # {} THEN saveAnswer(f, pending)
  ELSE IF TypeAt(f) = "multi" /\ f.selected # {}
       THEN [saveAnswer(f, f.selected) EXCEPT !.selected = {}]
       ELSE f

\* Mutant: no guard against a second click before the next frame.
AdvancesAtOnce(f, pending) ==
  LET g == Latest(f, pending)
  IN  [form |-> IF IsLast(f) THEN [g EXCEPT !.advancing = TRUE, !.finished = TRUE]
                ELSE [g EXCEPT !.at = @ + 1, !.advancing = TRUE],
       complete |-> IsLast(f)]

\* advance: the form, and whether onComplete is called with its answers.
advance(f, pending) ==
  LET g == Latest(f, pending)
  IN  IF f.advancing THEN [form |-> f, complete |-> FALSE]
      ELSE [form |-> IF IsLast(f) THEN [g EXCEPT !.advancing = TRUE, !.finished = TRUE]
                     ELSE [g EXCEPT !.at = @ + 1, !.advancing = TRUE],
            complete |-> IsLast(f)]

\* goBack: the ticks of the question before are what was stored for it.
goBack(f) ==
  LET i == f.at - 1
  IN  [f EXCEPT !.at = i, !.selected = IF f.types[i] = "multi" THEN f.answers[i] ELSE {}]

\* A tick: None excludes the others.
Toggled(f, option) ==
  LET rest == f.selected \ {NoneOption}
  IN  [f EXCEPT !.selected =
         IF option = NoneOption THEN {NoneOption}
         ELSE IF option \in rest THEN rest \ {option} ELSE rest \cup {option}]

canAdvance(f) == IF TypeAt(f) = "multi" THEN f.selected # {} ELSE f.answers[f.at] # {}

\* The frame after a step: the question is painted, the guard is released.
Painted(f) == [f EXCEPT !.advancing = FALSE, !.painted = @ \cup {f.at}]

------------------------------------------------------------------------------
(* What can be done with a form: the form after it, and whether it is       *)
(* complete.                                                                *)

Only(f) == [form |-> f, complete |-> FALSE]

Chooses(f)  == { IF IsLast(f) THEN Only(saveAnswer(f, {o})) ELSE advance(saveAnswer(f, {o}), {o}) :
                   o \in IF TypeAt(f) = "choice" THEN Options ELSE {} }
Types(f)    == { Only(saveAnswer(f, a)) :
                   a \in IF TypeAt(f) = "text" THEN {{}} \cup { {o} : o \in Options } ELSE {} }
Toggles(f)  == { Only(Toggled(f, o)) :
                   o \in IF TypeAt(f) = "multi" THEN Options \cup {NoneOption} ELSE {} }
Skips(f)    == IF IsLast(f) THEN {} ELSE { advance(f, {}) }
PressesNext(f) == IF canAdvance(f) /\ (TypeAt(f) # "choice" \/ IsLast(f)) THEN { advance(f, {}) } ELSE {}
GoesBack(f) == IF f.at = 1 THEN {} ELSE { Only(goBack(f)) }

FormSteps(f) == Chooses(f) \cup Types(f) \cup Toggles(f) \cup Skips(f) \cup PressesNext(f)
                  \cup GoesBack(f) \cup { Only(Painted(f)) }

\* convertQuickStartToPersonas: a fact for every question that is answered.
convertQuickStartToPersonas(f) ==
  { <<i, f.answers[i]>> : i \in { j \in DOMAIN f.types : f.answers[j] # {} } }

\* Every question before the one the form is at, and every question of a
\* finished form, has been on the screen: rapid clicks skip none
\* (QuickStart.tsx:147, the guard against double advances).
QuestionsSeen(f) == (IF f.finished THEN DOMAIN f.types ELSE 1 .. f.at - 1) \subseteq f.painted
=============================================================================
