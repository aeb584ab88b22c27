------------------------------ MODULE PanelForm ------------------------------
(***************************************************************************)
(* The settings form of the web panel (static/app.js) against a server     *)
(* that other administrators change too.  The panel keeps the settings it  *)
(* was last answered (state.settings), shows how the form differs from     *)
(* them, and PATCHes these differences alone.  GET /api/settings may be    *)
(* under way several times over; answers arrive in any order or not at     *)
(* all, and the answer to a PATCH replaces state.settings as well.         *)
(*                                                                         *)
(* Abstracted: a field is one of Fields with valid values; of refreshAll() *)
(* the settings are what matters here; what lets a frame of /api/events    *)
(* arrive is module Events.                                                *)
(***************************************************************************)
CONSTANTS
    Fields, Values, \* spokes, external_host, mtu, and what they may be
    Spokes, One,    \* the first of them, and the least it may be
    Blank,          \* a field of the form nobody has filled in
    Gets,           \* GET requests that may be under way at once
    Own,            \* the one that follows a PATCH
    NoGet, Asked, NoSettings

ASSUME PanelAssumption ==
    /\ Own \notin Gets /\ NoGet # Asked /\ NoSettings \notin [Fields -> Values]
    /\ Spokes \in Fields /\ One \in Values

VARIABLES
    srv,        \* the settings of the server
    news,       \* whether a refresh is due: a frame of the stream, or a log-in
    gets,       \* each GET: not under way, asked, or its answer on the way
    base,       \* state.settings
    form,       \* the values in the form
    touched,    \* state.formTouched
    conflict,   \* the notice #form-conflict: "no", "shown", "late" when it came
                \* while a PATCH had the buttons of the form disabled
    phase, body,    \* the PATCH under way; state.busy holds throughout
    loose,          \* the buttons that step the spokes are enabled although it is busy
    gate,       \* whether the log-in screen is shown
    edited,     \* the fields the user has edited since the form was last filled
    merged,     \* whether the answer to a PATCH has brought changes of others
                \* into state.settings that the form does not have
    behind      \* whether an answer was lost or overtaken by an older one, and none
                \* has come since with the settings of the server

request == <<phase, body>>
vars == <<srv, news, gets, base, form, touched, loose, conflict, request, gate, edited, merged, behind>>

Busy == phase # "none"
Server == [Fields -> Values]
NoBody == [f \in {} |-> Blank]

\* Without settings the form shows one spoke, and otherwise nothing.
Unfilled == [[f \in Fields |-> Blank] EXCEPT ![Spokes] = One]

\* diffFields(): what the form would change.
Diff(s) == {f \in Fields : form[f] # s[f]}

TypeOK ==
    /\ srv \in Server /\ base \in Server \cup {NoSettings}
    /\ form \in [Fields -> Values \cup {Blank}]
    /\ gets \in [Gets \cup {Own} -> Server \cup {NoGet, Asked}]
    /\ conflict \in {"no", "shown", "late"} /\ (conflict = "late" => Busy)
    /\ phase \in {"none", "sent", "committed", "refresh"}
    /\ body \in UNION {[S -> Values] : S \in SUBSET Fields}
    /\ {news, touched, gate, merged, behind} \subseteq BOOLEAN
    /\ edited \subseteq Fields /\ (~touched => edited = {})
    /\ loose \in BOOLEAN /\ (loose => Busy)
    /\ gets[Own] # NoGet => phase = "refresh"

Init ==
    /\ srv \in Server /\ base = NoSettings
    /\ form = Unfilled /\ touched = FALSE /\ loose = FALSE /\ conflict = "no"
    /\ gets = [g \in Gets \cup {Own} |-> NoGet] /\ news = TRUE
    /\ phase = "none" /\ body = NoBody
    /\ gate = FALSE /\ edited = {} /\ merged = FALSE /\ behind = FALSE

-----------------------------------------------------------------------------
(* The server, and what the stream says of it *)

\* Mutant: a frame that comes while a refresh is under way asks for no other.
ChangeToldOnce(s) ==
    /\ srv' = s
    /\ news' = (news \/ \A g \in Gets : gets[g] = NoGet)

\* A new version is told to every panel.
Change(s) == srv' = s /\ news' = (news \/ s # srv)

Others ==
    /\ \E s \in Server \ {srv} : Change(s)
    /\ UNCHANGED <<gets, base, form, touched, loose, conflict, request, gate, edited, merged, behind>>

-----------------------------------------------------------------------------
(* refreshSettings() *)

\* A frame, 250 milliseconds later.
Refresh ==
    /\ news /\ ~gate /\ news' = FALSE
    /\ \E g \in Gets : gets[g] = NoGet /\ gets' = [gets EXCEPT ![g] = Asked]
    /\ UNCHANGED <<srv, base, form, touched, loose, conflict, request, gate, edited, merged, behind>>

\* The button, or the browser that is online again.
RefreshAnyway ==
    /\ ~gate
    /\ \E g \in Gets : gets[g] = NoGet /\ gets' = [gets EXCEPT ![g] = Asked]
    /\ UNCHANGED <<srv, news, base, form, touched, loose, conflict, request, gate, edited, merged, behind>>

Read(g) ==
    /\ gets[g] = Asked /\ gets' = [gets EXCEPT ![g] = srv]
    /\ UNCHANGED <<srv, news, base, form, touched, loose, conflict, request, gate, edited, merged, behind>>

\* state.settings = s
Answered(s) ==
    /\ base' = s
    /\ behind' = (s # srv /\ (behind \/ base = srv))

\* onFormInput() sets the buttons that step the spokes by their value, busy or not.
OnFormInput == loose' = Busy

FillForm(s) ==
    /\ form' = IF s = NoSettings THEN Unfilled ELSE s
    /\ OnFormInput
    /\ touched' = FALSE /\ edited' = {} /\ merged' = FALSE

\* Mutant: the conflict is only looked for where there were settings before.
ConflictAfter(s) == base # NoSettings /\ s # base

\* Only when the server has moved, not because the form has edits.
Conflict(s) == base = NoSettings \/ s # base

\* Mutant: the edits are compared with the settings before the answer.
KeptBefore(s) == touched /\ (base # NoSettings => Diff(base) # {})

\* Edits that the answer does not make superfluous stay.
Kept(s) == touched /\ Diff(s) # {}

Answer(g) ==
    /\ gets[g] \notin {NoGet, Asked}
    /\ gets' = [gets EXCEPT ![g] = NoGet]
    /\ Answered(gets[g])
    /\ \/ /\ ~Kept(gets[g])
          /\ FillForm(gets[g]) /\ conflict' = "no"
       \/ /\ Kept(gets[g])
          /\ IF Conflict(gets[g])
             THEN /\ conflict' = IF conflict = "no" /\ Busy THEN "late"
                                 ELSE IF conflict = "no" THEN "shown" ELSE conflict
                  /\ merged' = FALSE
             ELSE UNCHANGED <<conflict, merged>>
          /\ UNCHANGED <<form, touched, loose, edited>>
    /\ UNCHANGED <<srv, news, request, gate>>

\* onAuthLost(): the log-in screen, and state.settings stays.
AuthLost == ~gate /\ gate' = TRUE

\* Nobody asks again: the poll is for the status alone.  It may be refused with a 401.
GetFails(g) ==
    /\ gets[g] # NoGet /\ gets' = [gets EXCEPT ![g] = NoGet]
    /\ behind' = (behind \/ base # srv)
    /\ UNCHANGED gate \/ (gets[g] = Asked /\ AuthLost)
    /\ UNCHANGED <<srv, news, base, form, touched, loose, conflict, request, edited, merged>>

\* The 401 of another request.
Refused ==
    /\ AuthLost
    /\ UNCHANGED <<srv, news, gets, base, form, touched, loose, conflict, request, edited, merged, behind>>

-----------------------------------------------------------------------------
(* The user *)

\* Mutant: the plus and minus buttons do not count as edits.
EditUntouched(f, v) == form' = [form EXCEPT ![f] = v] /\ touched' = touched

Edit(f, v) == form' = [form EXCEPT ![f] = v] /\ touched' = TRUE

\* The inputs are disabled while a PATCH is under way, except for the buttons that step
\* the spokes once onFormInput() has run.
Type ==
    /\ ~gate
    /\ \E f \in Fields : \E v \in Values \ {form[f]} :
          /\ ~Busy \/ (loose /\ f = Spokes)
          /\ Edit(f, v) /\ edited' = edited \cup {f}
    /\ UNCHANGED <<srv, news, gets, base, loose, conflict, request, gate, merged, behind>>

\* #settings-reset
Reset ==
    /\ ~gate /\ ~Busy /\ base # NoSettings /\ Diff(base) # {}
    /\ FillForm(base) /\ conflict' = "no"
    /\ UNCHANGED <<srv, news, gets, base, request, gate, behind>>

\* The button of the notice; disabled with the form if it was there before.
TakeServer ==
    /\ ~gate
    /\ conflict = "late" \/ (conflict = "shown" /\ ~Busy)
    /\ FillForm(base) /\ conflict' = "no"
    /\ UNCHANGED <<srv, news, gets, base, request, gate, behind>>

Logout ==
    /\ ~gate /\ gate' = TRUE
    /\ base' = NoSettings
    /\ UNCHANGED <<srv, news, gets, form, touched, loose, conflict, request, edited, merged, behind>>

Login ==
    /\ gate /\ gate' = FALSE /\ news' = TRUE
    /\ OnFormInput
    /\ UNCHANGED <<srv, gets, base, form, touched, conflict, request, edited, merged, behind>>

-----------------------------------------------------------------------------
(* applySettings() *)

Apply ==
    /\ ~gate /\ ~Busy /\ base # NoSettings /\ Diff(base) # {}
    /\ \A f \in Diff(base) : form[f] # Blank
    /\ phase' = "sent" /\ body' = [f \in Diff(base) |-> form[f]]
    /\ UNCHANGED <<srv, news, gets, base, form, touched, loose, conflict, gate, edited, merged, behind>>

Patched == [f \in Fields |-> IF f \in DOMAIN body THEN body[f] ELSE srv[f]]

Commit ==
    /\ phase = "sent" /\ phase' = "committed"
    /\ Change(Patched) /\ body' = Patched
    /\ UNCHANGED <<gets, base, form, touched, loose, conflict, gate, edited, merged, behind>>

\* state.settings is replaced, and refreshAll() follows; behind the log-in
\* screen it is refused at once.
PatchAnswered ==
    /\ phase = "committed" /\ phase' = "refresh" /\ body' = NoBody
    /\ Answered(body)
    /\ merged' = (conflict = "no" /\ ~(Diff(body) \subseteq edited))
    /\ gets' = IF gate THEN gets ELSE [gets EXCEPT ![Own] = Asked]
    /\ UNCHANGED <<srv, news, form, touched, loose, conflict, gate, edited>>

Enabled(c) == IF c = "late" THEN "shown" ELSE c

\* Refused, or the connection is lost before or after the commit.
PatchFails ==
    /\ phase \in {"sent", "committed"} /\ phase' = "none" /\ loose' = FALSE /\ body' = NoBody
    /\ conflict' = Enabled(conflict)
    /\ UNCHANGED gate \/ (phase = "sent" /\ AuthLost)
    /\ UNCHANGED <<srv, news, gets, base, form, touched, edited, merged, behind>>

BusyOff ==
    /\ phase = "refresh" /\ gets[Own] = NoGet /\ phase' = "none" /\ loose' = FALSE
    /\ conflict' = Enabled(conflict)
    /\ UNCHANGED <<srv, news, gets, base, form, touched, body, gate, edited, merged, behind>>

-----------------------------------------------------------------------------

User == Type \/ Reset \/ TakeServer \/ Apply \/ Logout \/ Login \/ RefreshAnyway
Disturb == Others \/ User \/ Refused \/ PatchFails \/ \E g \in Gets \cup {Own} : GetFails(g)

Get(g) == Read(g) \/ Answer(g)

Next ==
    \/ Disturb \/ Refresh \/ Commit \/ PatchAnswered \/ BusyOff
    \/ \E g \in Gets \cup {Own} : Get(g)

Spec == Init /\ [][Next]_vars

\* The timer of a frame fires, and requests are answered.
Fairness ==
    /\ WF_vars(Refresh) /\ WF_vars(Commit) /\ WF_vars(PatchAnswered) /\ WF_vars(BusyOff)
    /\ \A g \in Gets \cup {Own} : WF_vars(Get(g))

FairSpec == Spec /\ Fairness

-----------------------------------------------------------------------------
(* Properties *)

\* What the panel offers to apply is what its user has edited.  Where it is more,
\* because somebody else has changed the server, the notice says so: otherwise
\* the next click would take back the change of the other.  The answer to a PATCH
\* is the exception: it replaces state.settings, the refresh after it finds that
\* nothing has moved, and no notice appears.
NoSilentRevert ==
    base # NoSettings /\ ~Busy /\ ~merged /\ conflict = "no" => Diff(base) \subseteq edited

\* No answer, in whatever order it arrives, takes away what the user has typed.
EditsKept == [][touched /\ gets' # gets => form' = form]_vars

\* Left alone, the panel ends with the settings of the server, unless an answer
\* was lost or an older one has overtaken it: every change is followed by a
\* request that is read after it.
Shown ==
    <>[][~Disturb]_vars /\ <>[](~gate /\ ~behind) => <>[](base = srv)
=============================================================================
