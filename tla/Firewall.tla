------------------------------ MODULE Firewall ------------------------------
(***************************************************************************)
(* _reconcile_nat() (orchestrator.py): the rules every pass puts back, and *)
(* the INPUT rules for the ports of the obfuscators, which move with the   *)
(* settings.  Which ports were opened earlier is known from the journal    *)
(* /run/obfmesh/input-ports.tab alone, written at the end of the step.     *)
(*                                                                         *)
(* Abstracted: the settings are the set of ports they want open; the rest  *)
(* of the pass is module Mesh; OBFMESH_MANAGE_INPUT is set, as in the unit; *)
(* nobody but the program puts rules for these ports.                      *)
(***************************************************************************)
EXTENDS Numbering, FiniteSetsExt

CONSTANTS
    SpokeMax, Bases,    \* how many spokes, and the values of port_base
    BaseRules,  \* ip_forward and _BASE_RULES
    FailAt      \* what may go wrong: see the actions

ASSUME FirewallAssumption ==
    SpokeMax \in Indexes /\ Bases \subseteq Nat /\ \A b \in Bases : ValidPortBase(b)

\* {settings.obf_port(index) for index in settings.spoke_indexes}
Wants == {{server_obf_port(i, b) : i \in 1 .. n} : b \in Bases, n \in 1 .. SpokeMax}
Ports == UNION Wants

VARIABLES
    wanted,     \* what the settings in the store want
    base,       \* the base rules that are there
    rules,      \* how many ACCEPT rules there are for a port
    journal,    \* the journal
    pc, snap, recorded, todo,   \* the pass: what it has read, and what is left
    failed,     \* whether it has raised an error
    flushed,    \* whether somebody has removed rules since it began
    torn        \* whether something has gone wrong in the middle of a pass, and
                \* no pass has since put the rules and the journal right

pass == <<pc, snap, recorded, todo, failed>>
vars == <<wanted, base, rules, journal, pass, flushed, torn>>

Opened == {p \in Ports : rules[p] > 0}

\* The bound: a rule is doubled at most once.
TypeOK ==
    /\ wanted \in Wants
    /\ base \subseteq BaseRules
    /\ rules \in [Ports -> 0 .. 2]
    /\ journal \in Wants \cup {{}}
    /\ pc \in {"down", "idle", "base", "drop", "open", "journal", "end"}
    /\ snap \in Wants \cup {{}} /\ recorded \in Wants \cup {{}} /\ todo \subseteq Ports
    /\ failed \in BOOLEAN /\ flushed \in BOOLEAN /\ torn \in BOOLEAN

Init ==
    /\ wanted \in Wants
    /\ base = {} /\ rules = [p \in Ports |-> 0] /\ journal = {}
    /\ pc = "down" /\ snap = {} /\ recorded = {} /\ todo = {}
    /\ failed = FALSE /\ flushed = FALSE /\ torn = FALSE

-----------------------------------------------------------------------------

Patch ==
    /\ pc # "down"
    /\ \E w \in Wants \ {wanted} : wanted' = w
    /\ UNCHANGED <<base, rules, journal, pass, flushed, torn>>

BeginPass ==
    /\ pc \in {"down", "idle"}
    /\ pc' = "base" /\ snap' = wanted /\ failed' = FALSE /\ flushed' = FALSE
    /\ UNCHANGED <<wanted, base, rules, journal, recorded, todo, torn>>

AddBaseRule ==
    /\ pc = "base"
    /\ \E r \in BaseRules \ base : base' = base \cup {r}
    /\ UNCHANGED <<wanted, rules, journal, pass, flushed, torn>>

\* Mutant: every port of the journal is closed, to be opened again.
StaleAll(old, new) == IF new = old THEN {} ELSE old

\* The ports of the journal that are no longer wanted.
Stale(old, new) == old \ new

ReadJournal ==
    /\ pc = "base" /\ BaseRules \subseteq base
    /\ recorded' = journal /\ todo' = Stale(journal, snap)
    /\ pc' = "drop"
    /\ UNCHANGED <<wanted, base, rules, journal, snap, failed, flushed, torn>>

\* An OSError of the read: the pass goes on as if nothing had ever been opened.
JournalUnread ==
    /\ pc = "base" /\ BaseRules \subseteq base /\ "read" \in FailAt /\ journal # {}
    /\ recorded' = {} /\ todo' = Stale({}, snap)
    /\ pc' = "drop"
    /\ torn' = TRUE
    /\ UNCHANGED <<wanted, base, rules, journal, snap, failed, flushed>>

\* One rule is deleted, where there is one.
Drop ==
    /\ pc = "drop" /\ todo # {}
    /\ LET p == Min(todo)
       IN  /\ rules' = IF rules[p] > 0 THEN [rules EXCEPT ![p] = @ - 1] ELSE rules
           /\ todo' = todo \ {p}
    /\ UNCHANGED <<wanted, base, journal, pc, snap, recorded, failed, flushed, torn>>

\* Mutant: a port of the journal is taken for open.
ToOpenNew(old, new) == new \ old

\* Every wanted port is looked at.
ToOpen(old, new) == new

BeginOpen ==
    /\ pc = "drop" /\ todo = {}
    /\ pc' = "open" /\ todo' = ToOpen(recorded, snap)
    /\ UNCHANGED <<wanted, base, rules, journal, snap, recorded, failed, flushed, torn>>

Insert ==
    /\ pc = "open" /\ todo # {}
    /\ LET p == Min(todo)
       IN  /\ rules' = IF rules[p] = 0 THEN [rules EXCEPT ![p] = 1] ELSE rules
           /\ todo' = todo \ {p}
    /\ UNCHANGED <<wanted, base, journal, pc, snap, recorded, failed, flushed, torn>>

\* iptables -C fails for another reason than the rule's absence (it waits five
\* seconds for the lock): a rule that is there is not deleted, or is doubled.
CheckFails ==
    /\ pc \in {"drop", "open"} /\ "check" \in FailAt
    /\ todo # {} /\ rules[Min(todo)] = 1
    /\ todo' = todo \ {Min(todo)}
    /\ rules' = IF pc = "drop" THEN rules ELSE [rules EXCEPT ![Min(todo)] = 2]
    /\ torn' = TRUE
    /\ UNCHANGED <<wanted, base, journal, pc, snap, recorded, failed, flushed>>

\* The command itself fails: the step is given up, the journal stays as it is.
CommandFails ==
    /\ pc \in {"base", "drop", "open"} \cap FailAt
    /\ IF pc = "base" THEN ~(BaseRules \subseteq base) ELSE todo # {}
    /\ pc = "drop" => rules[Min(todo)] > 0
    /\ pc = "open" => rules[Min(todo)] = 0
    /\ pc' = "end" /\ failed' = TRUE /\ todo' = {}
    /\ torn' = TRUE
    /\ UNCHANGED <<wanted, base, rules, journal, snap, recorded, flushed>>

\* Mutant: the journal is written once only.
JournalOnce(old, new) == IF old = {} THEN new ELSE old

\* Mutant: closed ports stay in the journal.
JournalUnion(old, new) == old \cup new

JournalAfter(old, new) == new

WriteJournal ==
    /\ pc = "open" /\ todo = {}
    /\ journal' = JournalAfter(journal, snap)
    /\ torn' = (torn /\ \E p \in Ports : rules[p] > IF p \in snap THEN 1 ELSE 0)
    /\ pc' = "end"
    /\ UNCHANGED <<wanted, base, rules, snap, recorded, todo, failed, flushed>>

\* An OSError is logged and forgotten.
JournalFails ==
    /\ pc = "open" /\ todo = {} /\ "journal" \in FailAt /\ journal # snap
    /\ pc' = "end"
    /\ torn' = TRUE
    /\ UNCHANGED <<wanted, base, rules, journal, snap, recorded, todo, failed, flushed>>

EndPass ==
    /\ pc = "end"
    /\ pc' = "idle" /\ snap' = {} /\ recorded' = {} /\ failed' = FALSE
    /\ UNCHANGED <<wanted, base, rules, journal, todo, flushed, torn>>

-----------------------------------------------------------------------------
(* Around it *)

\* A reload of the firewall.
Flush ==
    /\ base' = {} /\ rules' = [p \in Ports |-> 0] /\ flushed' = TRUE /\ torn' = FALSE
    /\ UNCHANGED <<wanted, journal, pass>>

Stopped == pc' = "down" /\ snap' = {} /\ recorded' = {} /\ todo' = {} /\ failed' = FALSE

Crash ==
    /\ pc # "down" /\ (pc # "idle" => "crash" \in FailAt)
    /\ Stopped
    /\ torn' = (torn \/ pc \in {"drop", "open"})
    /\ UNCHANGED <<wanted, base, rules, journal, flushed>>

\* /run is empty after it, and so are the tables.
Reboot ==
    /\ Stopped
    /\ base' = {} /\ rules' = [p \in Ports |-> 0] /\ journal' = {}
    /\ flushed' = FALSE /\ torn' = FALSE
    /\ UNCHANGED wanted

Disturb == Patch \/ JournalUnread \/ CheckFails \/ CommandFails \/ JournalFails \/ Flush \/ Crash \/ Reboot
Step == AddBaseRule \/ ReadJournal \/ Drop \/ BeginOpen \/ Insert \/ WriteJournal \/ EndPass

Next == Disturb \/ BeginPass \/ Step

Spec == Init /\ [][Next]_vars

\* systemd (within its start limit) and the supervisor's period (unless it is set to zero)
\* begin passes, and a pass goes on.
FairSpec == Spec /\ WF_vars(BeginPass) /\ WF_vars(Step)

-----------------------------------------------------------------------------
(* Properties *)

\* A pass that reports no error leaves every wanted port open and the tunnels
\* routed, unless somebody removes rules under it: the journal says what to
\* close, never what is open.
WantedOpen ==
    pc = "end" /\ ~failed /\ ~flushed => snap \subseteq Opened /\ base = BaseRules

\* A port that is wanted before and after a change, where the bases overlap, is
\* not closed for a moment.
WantedStaysOpen ==
    [][\A p \in snap \cap Opened : pc \in {"drop", "open"} /\ ~flushed' /\ pc' # "down"
           => p \in Opened']_vars

\* After a pass nothing is open that its settings do not want (the docstring of
\* test_input_rules_of_the_previous_port_base_are_removed).
NothingStaysOpen ==
    pc = "end" /\ ~failed => Opened \subseteq snap

\* So it is across changes of the base and of the number of spokes, firewall
\* reloads, restarts and reboots, unless something went wrong in the middle of a
\* pass, the read of the journal included, and was not made good; a complete pass for
\* the same ports makes it good.
NothingForgotten == ~torn => NothingStaysOpen

\* Once nothing disturbs it, the wanted ports end up open for good.
PortsOpen == <>[][~Disturb]_vars => <>[](wanted \subseteq Opened /\ base = BaseRules)
=============================================================================
