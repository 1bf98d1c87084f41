--------------------------- MODULE TransferRequest ---------------------------
(***************************************************************************)
(* domain.TransferCheckRequest and ValidateTransfer.                       *)
(*                                                                         *)
(* A request is a record of its key, its message type and the fields of    *)
(* its payload that something depends on: words, and the text of the       *)
(* amount (module ExactMoney).  `created` is the creation time, "" when it *)
(* is not set.                                                             *)
(***************************************************************************)
EXTENDS Words, ExactMoney

(* The fields that must have something in them.                            *)
Required ==
  {"messageId", "endToEndId", "currency", "debtor", "creditor", "debtorBic", "creditorBic"}

(* What ValidateTransfer complains of, "accounts" when the two are one.    *)
ValidateTransfer(req) ==
  {field \in Required : IsBlank(req[field])}
    \cup {complaint \in {"messageType", "created", "amount", "accounts", "executionDate"} :
            CASE complaint = "messageType"   -> req.messageType # "pacs.008"
              [] complaint = "created"       -> req.created = ""
              [] complaint = "amount"        -> ~TransferAmountOk(req.amount, req.currency)
              [] complaint = "accounts"      -> req.debtor # "" /\ req.debtor = req.creditor
              [] complaint = "executionDate" ->
                   ~IsBlank(req.executionDate) /\ Day(Trim(req.executionDate)) = NoDay}

=============================================================================
