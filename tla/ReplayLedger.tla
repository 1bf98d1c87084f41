---------------------------- MODULE ReplayLedger ----------------------------
(***************************************************************************)
(* What ReplayEngine promises its callers, with no lock, channel, cache or *)
(* queue: the decisions in the order they were recorded and the answer of  *)
(* every call.                                                             *)
(*                                                                         *)
(* An idle call either shares the answer that is retained for the same key *)
(* and payload, or starts evaluating, alone on its key.  An evaluation     *)
(* ends with one more recorded decision, which is its answer, or with a    *)
(* failure that leaves no trace.  Retained are the newest MaxEntries       *)
(* decisions that carry a key.                                             *)
(***************************************************************************)
EXTENDS Naturals, Sequences, Decisions

CONSTANTS Calls, NoKey, NoCall, MaxEntries

VARIABLES
  req,       \* what each call asks
  journal,   \* every recorded decision, oldest first
  ledger,    \* those that carry a key
  phase,     \* "idle", "evaluating" or "answered"
  clash,     \* whether the key had another retained decision at the start
  answer     \* what each call was told

vars == <<req, journal, ledger, phase, clash, answer>>

KeyOf(c) == req[c].key
SameRequest(c, d) == KeyOf(c) = KeyOf(d) /\ req[c].fp = req[d].fp

Retained == {i \in 1 .. Len(ledger) : i + MaxEntries > Len(ledger)}

EmptyAnswer ==
  [outcome |-> "none",
   check   |-> [id |-> NoCall, decision |-> DecisionReview, flagged |-> FALSE]]

Init ==
  /\ journal = <<>> /\ ledger = <<>>
  /\ phase = [c \in Calls |-> "idle"]
  /\ clash = [c \in Calls |-> FALSE]
  /\ answer = [c \in Calls |-> EmptyAnswer]

Finish(c, outcome, check) ==
  /\ phase' = [phase EXCEPT ![c] = "answered"]
  /\ answer' = [answer EXCEPT ![c] = [outcome |-> outcome, check |-> check]]
  /\ UNCHANGED <<req, clash>>

(* Share a retained answer.                                                *)
Share(c) ==
  /\ phase[c] = "idle" /\ KeyOf(c) # NoKey
  /\ \E i \in Retained :
       /\ SameRequest(c, ledger[i].id)
       /\ Finish(c, "ok", ledger[i])
  /\ UNCHANGED <<journal, ledger>>

(* Evaluate: nobody else is on the key and no answer is retained.          *)
Begin(c) ==
  /\ phase[c] = "idle"
  /\ IF KeyOf(c) = NoKey
     THEN UNCHANGED clash
     ELSE /\ \A d \in Calls : phase[d] = "evaluating" => KeyOf(d) # KeyOf(c)
          /\ \A i \in Retained : ~SameRequest(c, ledger[i].id)
          /\ clash' = [clash EXCEPT ![c] = \E i \in Retained : KeyOf(ledger[i].id) = KeyOf(c)]
  /\ phase' = [phase EXCEPT ![c] = "evaluating"]
  /\ UNCHANGED <<req, journal, ledger, answer>>

(* Record one decision; a clashing payload is flagged and never allowed.   *)
Decide(c, decision) ==
  /\ phase[c] = "evaluating"
  /\ clash[c] => decision # DecisionAllow
  /\ LET check == [id |-> c, decision |-> decision, flagged |-> clash[c]]
     IN  /\ journal' = Append(journal, check)
         /\ ledger' = IF KeyOf(c) = NoKey THEN ledger ELSE Append(ledger, check)
         /\ Finish(c, "ok", check)

(* Fail, with nothing recorded and never with an allow.                    *)
Fail(c) ==
  /\ phase[c] \in {"idle", "evaluating"}
  /\ \E outcome \in {"error", "panic"}, id \in {c, NoCall},
        decision \in Decision \ {DecisionAllow}, flagged \in BOOLEAN :
       Finish(c, outcome, [id |-> id, decision |-> decision, flagged |-> flagged])
  /\ UNCHANGED <<journal, ledger>>

Next ==
  \E c \in Calls :
    \/ Share(c) \/ Begin(c) \/ Fail(c)
    \/ \E decision \in Decision : Decide(c, decision)

Spec == Init /\ [][Next]_vars

=============================================================================
