-------------------------- MODULE PanelForm_proofs --------------------------
(* Proofs about PanelForm, for any fields, values and number of requests. *)
EXTENDS PanelForm, TLAPS

\* TypeOK alone does not say that what the answer to a PATCH puts into state.settings
\* are whole settings.
TypeInv == TypeOK /\ (phase = "committed" => body \in Server)

LEMMA InitTypes == Init => TypeInv
<1> SUFFICES ASSUME Init PROVE TypeInv
  OBVIOUS
<1>1. NoBody \in [{} -> Values]
  BY DEF NoBody
<1>2. body \in UNION {[S -> Values] : S \in SUBSET Fields}
  BY <1>1 DEF Init
<1>3. Unfilled \in [Fields -> Values \cup {Blank}]
  BY PanelAssumption DEF Unfilled
<1> QED
  BY <1>2, <1>3 DEF Init, TypeInv, TypeOK

\* What fills the form, and what an answer does to state.settings, is well typed.
LEMMA FillTypes ==
  ASSUME NEW s \in Server \cup {NoSettings}, FillForm(s)
  PROVE  /\ form' \in [Fields -> Values \cup {Blank}] /\ loose' = Busy
         /\ touched' = FALSE /\ edited' = {} /\ merged' = FALSE
BY PanelAssumption DEF FillForm, Unfilled, OnFormInput, Server

LEMMA AnswerTypes ==
  ASSUME TypeInv, NEW g \in Gets \cup {Own}, Answer(g)
  PROVE  /\ gets[g] \in Server /\ base' = gets[g] /\ behind' \in BOOLEAN
         /\ gets' \in [Gets \cup {Own} -> Server \cup {NoGet, Asked}]
         /\ gets'[Own] # NoGet => gets[Own] # NoGet
BY DEF TypeInv, TypeOK, Answer, Answered

LEMMA NextTypes == TypeInv /\ [Next]_vars => TypeInv'
<1> SUFFICES ASSUME TypeInv, [Next]_vars PROVE TypeInv'
  OBVIOUS
<1> USE DEF TypeInv, TypeOK, Busy
<1>1. CASE Others
  BY <1>1 DEF Others, Change, request
<1>2. CASE Refresh \/ RefreshAnyway
  <2>1. PICK g \in Gets : gets' = [gets EXCEPT ![g] = Asked]
    BY <1>2 DEF Refresh, RefreshAnyway
  <2>2. gets' \in [Gets \cup {Own} -> Server \cup {NoGet, Asked}] /\ gets'[Own] = gets[Own]
    BY <2>1, PanelAssumption
  <2>3. /\ UNCHANGED <<srv, base, form, touched, loose, conflict, phase, body, gate, edited, merged, behind>>
        /\ news' \in BOOLEAN
    BY <1>2 DEF Refresh, RefreshAnyway, request
  <2> QED
    BY <2>2, <2>3
<1>3. ASSUME NEW g \in Gets \cup {Own}, Read(g) \/ GetFails(g) PROVE TypeInv'
  <2>1. /\ UNCHANGED <<srv, news, base, form, touched, loose, conflict, phase, body, edited, merged>>
        /\ gate' \in BOOLEAN /\ behind' \in BOOLEAN
    BY <1>3 DEF Read, GetFails, AuthLost, request
  <2>2. /\ gets' \in [Gets \cup {Own} -> Server \cup {NoGet, Asked}]
        /\ gets'[Own] # NoGet => gets[Own] # NoGet
    BY <1>3, PanelAssumption DEF Read, GetFails
  <2> QED
    BY <2>1, <2>2
<1>4. ASSUME NEW g \in Gets \cup {Own}, Answer(g) PROVE TypeInv'
  <2>1. /\ gets[g] \in Server /\ base' = gets[g] /\ behind' \in BOOLEAN
        /\ gets' \in [Gets \cup {Own} -> Server \cup {NoGet, Asked}]
        /\ gets'[Own] # NoGet => gets[Own] # NoGet
    BY <1>4, AnswerTypes
  <2>2. UNCHANGED <<srv, news, phase, body, gate>>
    BY <1>4 DEF Answer, request
  <2>3. CASE Kept(gets[g])
    <3>1. /\ UNCHANGED <<form, touched, loose, edited>> /\ merged' \in {FALSE, merged}
          /\ conflict' \in {"no", "shown", "late"} /\ (conflict' = "late" => Busy)
      BY <1>4, <2>3 DEF Answer
    <3> QED
      BY <2>1, <2>2, <3>1
  <2>4. CASE ~Kept(gets[g])
    <3>1. FillForm(gets[g]) /\ conflict' = "no"
      BY <1>4, <2>4 DEF Answer
    <3>2. /\ form' \in [Fields -> Values \cup {Blank}] /\ loose' = Busy
          /\ touched' = FALSE /\ edited' = {} /\ merged' = FALSE
      BY <2>1, <3>1, FillTypes
    <3> QED
      BY <2>1, <2>2, <3>1, <3>2
  <2> QED
    BY <2>3, <2>4
<1>5. CASE Type
  BY <1>5 DEF Type, Edit, request
<1>6. CASE Reset \/ TakeServer
  <2>1. /\ FillForm(base) /\ conflict' = "no"
        /\ UNCHANGED <<srv, news, gets, base, phase, body, gate, behind>>
    BY <1>6 DEF Reset, TakeServer, request
  <2>2. /\ form' \in [Fields -> Values \cup {Blank}] /\ loose' = Busy
        /\ touched' = FALSE /\ edited' = {} /\ merged' = FALSE
    BY <2>1, FillTypes
  <2> QED
    BY <2>1, <2>2
<1>7. CASE Logout \/ Refused
  <2>1. /\ UNCHANGED <<srv, news, gets, form, touched, loose, conflict, phase, body, edited, merged, behind>>
        /\ base' \in {base, NoSettings} /\ gate' \in BOOLEAN
    BY <1>7 DEF Logout, Refused, AuthLost, request
  <2> QED
    BY <2>1
<1>13. CASE Login
  BY <1>13 DEF Login, OnFormInput, request
<1>8. CASE Apply
  <2>1. body' \in [Diff(base) -> Values] /\ Diff(base) \subseteq Fields
    BY <1>8 DEF Apply, Diff
  <2> QED
    BY <1>8, <2>1 DEF Apply
<1>9. CASE Commit
  <2>1. Patched \in Server
    BY DEF Patched, Server
  <2> QED
    BY <1>9, <2>1 DEF Commit, Change, Server
<1>10. CASE PatchAnswered
  <2>1. NoBody \in [{} -> Values]
    BY DEF NoBody
  <2>2. body' \in UNION {[S -> Values] : S \in SUBSET Fields}
    BY <1>10, <2>1 DEF PatchAnswered
  <2> QED
    BY <1>10, <2>2 DEF PatchAnswered, Answered
<1>11. CASE PatchFails \/ BusyOff
  <2>1. NoBody \in [{} -> Values]
    BY DEF NoBody
  <2>2. body' \in UNION {[S -> Values] : S \in SUBSET Fields}
    BY <1>11, <2>1 DEF PatchFails, BusyOff
  <2>3. /\ UNCHANGED <<srv, news, gets, base, form, touched, edited, merged, behind>>
        /\ phase' = "none" /\ loose' = FALSE /\ gate' \in BOOLEAN
        /\ conflict' \in {"no", "shown"} /\ gets[Own] = NoGet
    BY <1>11 DEF PatchFails, BusyOff, AuthLost, Enabled
  <2> QED
    BY <2>2, <2>3
<1>12. CASE UNCHANGED vars
  BY <1>12 DEF vars, request
<1> QED
  BY <1>1, <1>2, <1>3, <1>4, <1>5, <1>6, <1>7, <1>8, <1>9, <1>10, <1>11, <1>12, <1>13
     DEF Next, Disturb, User, Get

LEMMA TypeInvariant == Spec => []TypeInv
BY InitTypes, NextTypes, PTL DEF Spec

\* The panel's state is well typed; a notice is only late, and the GET that follows a
\* PATCH is only under way, while the PATCH holds state.busy.
THEOREM PanelTypeCorrect == Spec => []TypeOK
<1>1. TypeInv => TypeOK
  BY DEF TypeInv
<1> QED
  BY <1>1, TypeInvariant, PTL

-----------------------------------------------------------------------------
(* What the panel offers to apply *)

\* NoSilentRevert, while a PATCH is under way as well.
Offered == base # NoSettings /\ ~merged /\ conflict = "no" => Diff(base) \subseteq edited

\* A form that has just been filled differs in nothing.
LEMMA FilledIsEqual ==
  ASSUME NEW s, FillForm(s), s # NoSettings
  PROVE  {f \in Fields : form'[f] # s[f]} = {}
BY DEF FillForm

LEMMA NextOffered == TypeInv /\ Offered /\ [Next]_vars => Offered'
<1> SUFFICES ASSUME TypeInv, Offered, [Next]_vars PROVE Offered'
  OBVIOUS
<1>1. ASSUME UNCHANGED <<base, form, edited, merged>>, conflict' = "no" => conflict = "no"
      PROVE  Offered'
  BY <1>1 DEF Offered, Diff
<1>2. ASSUME FillForm(base) /\ UNCHANGED base PROVE Offered'
  BY <1>2, FilledIsEqual DEF Offered, Diff
<1>3. CASE Others \/ Refresh \/ RefreshAnyway \/ Login \/ Refused \/ Apply \/ Commit \/ PatchFails \/ BusyOff
  BY <1>3, <1>1 DEF Others, Refresh, RefreshAnyway, Login, Refused, Apply, Commit, PatchFails, BusyOff, Enabled
<1>4. ASSUME NEW g \in Gets \cup {Own}, Read(g) \/ GetFails(g) PROVE Offered'
  BY <1>4, <1>1 DEF Read, GetFails
<1>5. ASSUME NEW g \in Gets \cup {Own}, Answer(g) PROVE Offered'
  <2>1. base' = gets[g]
    BY <1>5 DEF Answer, Answered
  <2>2. CASE ~Kept(gets[g])
    BY <1>5, <2>1, <2>2, FilledIsEqual DEF Answer, Offered, Diff
  <2>3. CASE Kept(gets[g]) /\ Conflict(gets[g])
    BY <1>5, <2>3 DEF Answer, Offered
  <2>4. CASE Kept(gets[g]) /\ ~Conflict(gets[g])
    <3>1. base' = base
      BY <2>1, <2>4 DEF Conflict
    <3> QED
      BY <1>1, <1>5, <2>4, <3>1 DEF Answer
  <2> QED
    BY <2>2, <2>3, <2>4
<1>6. CASE Type
  <2>1. PICK f \in Fields : \E v \in Values : Edit(f, v) /\ edited' = edited \cup {f}
    BY <1>6 DEF Type
  <2>2. \A h \in Fields : h # f => form'[h] = form[h]
    BY <2>1 DEF Edit, TypeInv, TypeOK
  <2>3. UNCHANGED <<base, merged, conflict>>
    BY <1>6 DEF Type
  <2> QED
    BY <2>1, <2>2, <2>3 DEF Offered, Diff
<1>7. CASE Reset \/ TakeServer
  BY <1>7, <1>2 DEF Reset, TakeServer
<1>8. CASE Logout
  BY <1>8 DEF Logout, Offered
<1>9. CASE PatchAnswered
  BY <1>9 DEF PatchAnswered, Answered, Offered, Diff
<1>10. CASE UNCHANGED vars
  BY <1>10, <1>1 DEF vars
<1> QED
  BY <1>3, <1>4, <1>5, <1>6, <1>7, <1>8, <1>9, <1>10 DEF Next, Disturb, User, Get

\* app.js: whatever answers arrive in whatever order, what the panel offers to apply is
\* what its user has edited, or the notice is shown, except after the answer to a PATCH.
THEOREM NothingReverted == Spec => []NoSilentRevert
<1>1. Init => Offered
  BY DEF Init, Offered
<1>2. Spec => []Offered
  BY <1>1, TypeInvariant, NextOffered, PTL DEF Spec
<1>3. Offered => NoSilentRevert
  BY DEF Offered, NoSilentRevert
<1> QED
  BY <1>2, <1>3, PTL

-----------------------------------------------------------------------------
(* What the user has typed *)

LEMMA AnswersKeepForm ==
  ASSUME TypeInv, [Next]_vars, touched, gets' # gets PROVE form' = form
<1>1. ASSUME NEW g \in Gets \cup {Own}, Answer(g) PROVE form' = form
  <2>1. CASE Kept(gets[g])
    BY <1>1, <2>1 DEF Answer
  <2>2. CASE ~Kept(gets[g])
    <3>1. gets[g] \in Server
      BY <1>1, AnswerTypes
    <3>2. \A f \in Fields : form[f] = gets[g][f]
      BY <2>2 DEF Kept, Diff
    <3>3. form = gets[g]
      BY <3>1, <3>2 DEF TypeInv, TypeOK, Server
    <3>4. form' = gets[g]
      BY <1>1, <2>2, <3>1, PanelAssumption DEF Answer, FillForm, Server
    <3> QED
      BY <3>3, <3>4
  <2> QED
    BY <2>1, <2>2
<1>2. CASE Disturb \/ Refresh \/ Commit \/ PatchAnswered \/ BusyOff
  BY <1>2 DEF Disturb, User, Others, Type, Reset, TakeServer, Apply, Logout, Login, Refused, RefreshAnyway,
              PatchFails, GetFails, Refresh, Commit, PatchAnswered, BusyOff
<1>3. ASSUME NEW g \in Gets \cup {Own}, Read(g) PROVE form' = form
  BY <1>3 DEF Read
<1>4. CASE UNCHANGED vars
  BY <1>4 DEF vars
<1> QED
  BY <1>1, <1>2, <1>3, <1>4 DEF Next, Get

\* app.js, fillForm(): no answer, in whatever order it arrives, takes away an edit.
THEOREM EditsAreKept == Spec => EditsKept
<1>1. TypeInv /\ [Next]_vars => [touched /\ gets' # gets => form' = form]_vars
  BY AnswersKeepForm
<1> QED
  BY <1>1, TypeInvariant, PTL DEF Spec, EditsKept
=============================================================================
