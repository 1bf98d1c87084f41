---------------------------- MODULE CheckService ----------------------------
(***************************************************************************)
(* One transfer check from the message to the decision: api.New, its two   *)
(* ways to read a request, and Engine.CheckWithContext on a key without    *)
(* results, where modules Pacs008, TransferRequest, RulesEvaluation and    *)
(* LegacyEvaluate meet.  What the engine keeps between checks is module    *)
(* Engine's: here the recorded transfers and whether the key conflicts are *)
(* inputs.                                                                 *)
(*                                                                         *)
(* A check comes over HTTP, phase "received", or is a call of the library, *)
(* which is at once "accepted".                                            *)
(***************************************************************************)
EXTENDS Pacs008, RulesEvaluation, LegacyEvaluate

CONSTANT ApiKeys   \* the items of API_KEYS

VARIABLES
  phase,      \* "received", "accepted" or "answered"
  message,    \* the HTTP request
  request,    \* the transfer that is checked
  context,    \* what the caller supplies beside it
  recorded,   \* the engine's own history
  installed,  \* its rules, in order of priority
  status,     \* the HTTP status, 0 before there is one
  check       \* the decision

vars == <<phase, message, request, context, recorded, installed, status, check>>

(* main.split: the keys, without space and empty items.                    *)
Keys == {Trim(key) : key \in ApiKeys} \ {""}

(* Without configured keys everybody may ask.                              *)
Authorized(msg) == Keys = {} \/ Trim(msg.apiKey) \in Keys

(* The request in the body, if there is one.  A key in a JSON body goes    *)
(* before the one in the header.                                           *)
Read(msg) ==
  IF msg.kind = "iso20022" THEN ParsePacs008(msg.body, msg.keyHeader, "last")
  ELSE {[r EXCEPT !.key = IF @ = "" THEN Trim(msg.keyHeader) ELSE @] : r \in msg.body}

Respond(code) == status' = code /\ phase' = "answered"

Unauthorized ==
  /\ phase = "received" /\ ~Authorized(message)
  /\ Respond(401)
  /\ UNCHANGED <<message, request, context, recorded, installed, check>>

BadRequest ==
  /\ phase = "received" /\ Authorized(message) /\ Read(message) = {}
  /\ Respond(400)
  /\ UNCHANGED <<message, request, context, recorded, installed, check>>

Accept ==
  /\ phase = "received" /\ Authorized(message)
  /\ \E r \in Read(message) : request' = r
  /\ phase' = "accepted"
  /\ UNCHANGED <<message, context, recorded, installed, status, check>>

(* The engine's history is used where the caller supplies neither history  *)
(* nor metrics.                                                            *)
DataOf ==
  IF /\ context.data.history = <<>> /\ ~context.data.metrics.loaded
     /\ DOMAIN context.data.metricsByWindow = {}
  THEN [context.data EXCEPT !.history = recorded] ELSE context.data

(* What evaluate derives from the request and the context.                 *)
Situation ==
  [blocked   |-> request.debtor \in context.blocked \/ request.creditor \in context.blocked,
   valid     |-> ValidateTransfer(request) = {},
   onInvalid |-> context.onInvalid,
   disabled  |-> context.disabled,
   reviewAt  |-> context.reviewAt, blockAt |-> context.blockAt]

Verdicts == [i \in DOMAIN installed |-> EvaluateWithContext(installed[i], request, DataOf)]

CheckWithContext ==
  /\ phase = "accepted"
  /\ check' = Evaluate(context.conflict, Situation, installed, Verdicts)
  /\ Respond(201)
  /\ UNCHANGED <<message, request, context, recorded, installed>>

Next == Unauthorized \/ BadRequest \/ Accept \/ CheckWithContext

=============================================================================
