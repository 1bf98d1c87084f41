------------------------------ MODULE Pacs008 -------------------------------
(***************************************************************************)
(* iso20022/pacs008.go: from one pacs.008.001.08 document to a request.    *)
(*                                                                         *)
(* A document is the sequence of its start elements with, for each, its    *)
(* path from the root (a tuple of local names), whether it is in the       *)
(* pacs.008 namespace (`ours`), and its text: a word, or an amount whose   *)
(* Ccy attribute is the word.  `readable` says that it is XML within the   *)
(* limits of size, depth and names, with one root and no directives.       *)
(*                                                                         *)
(* Left out: the message definition and namespace of the request, which    *)
(* are the same for all accepted documents.                                *)
(***************************************************************************)
EXTENDS TransferRequest, SequencesExt

Root == <<"Document">>
Header == Root \o <<"AppHdr">>
Message == Root \o <<"FIToFICstmrCdtTrf">>
Group == Message \o <<"GrpHdr">>
Transaction == Message \o <<"CdtTrfTxInf">>

AgentPaths == {<<>>, <<"FinInstnId">>, <<"FinInstnId", "BICFI">>, <<"FinInstnId", "Nm">>}
AccountPaths == {<<>>, <<"Id">>, <<"Id", "IBAN">>, <<"Id", "Othr">>, <<"Id", "Othr", "Id">>}

(* The elements that may occur once only: what is mapped, and what is      *)
(* around it.                                                              *)
GroupPaths ==
  {Message, Group} \cup {Group \o <<name>> : name \in {"MsgId", "CreDtTm", "NbOfTxs", "IntrBkSttlmDt"}}
TransferPaths ==
  {Transaction} \cup {Transaction \o path : path \in
     {<<"PmtId">>, <<"PmtId", "InstrId">>, <<"PmtId", "EndToEndId">>, <<"PmtId", "TxId">>,
      <<"PmtId", "ClrSysRef">>, <<"IntrBkSttlmAmt">>, <<"InstdAmt">>, <<"RmtInf">>}}
PartyPaths ==
  {Transaction \o <<party>> \o path : party \in {"Dbtr", "Cdtr"}, path \in {<<>>, <<"Nm">>}}
    \cup {Transaction \o <<account>> \o path :
            account \in {"DbtrAcct", "CdtrAcct"}, path \in AccountPaths}
    \cup {Transaction \o <<agent>> \o path :
            agent \in {"DbtrAgt", "CdtrAgt", "InstgAgt", "InstdAgt"}, path \in AgentPaths}
HeaderPaths ==
  {Header} \cup {Header \o <<name>> : name \in {"BizMsgIdr", "MsgDefIdr", "CreDt"}}
    \cup {Header \o <<party>> : party \in {"Fr", "To"}}
    \cup {Header \o <<party, "FIId">> \o path : party \in {"Fr", "To"}, path \in AgentPaths}

FaultySingleValuePaths == {Root} \cup GroupPaths \cup TransferPaths \cup HeaderPaths

SingleValuePaths == {Root} \cup GroupPaths \cup TransferPaths \cup PartyPaths \cup HeaderPaths

Occurrences(doc, path) == {i \in DOMAIN doc.elements : doc.elements[i].path = path}

(* decode: which documents are read at all.                                *)
Decodes(doc) ==
  /\ doc.readable
  /\ \A i \in DOMAIN doc.elements :
       LET element == doc.elements[i]
       IN  element.path = Root \/ IsPrefix(Message, element.path) => element.ours
  /\ \A path \in SingleValuePaths : Cardinality(Occurrences(doc, path)) <= 1
  /\ Occurrences(doc, Group) # {}

-----------------------------------------------------------------------------
(* What is read at a path.  Where a path occurs several times it depends   *)
(* on which of the occurrences the reader takes: encoding/xml takes the    *)
(* "last", another reader may take the "first".                            *)
Taken(doc, path, which) ==
  LET at == Occurrences(doc, path)
  IN  doc.elements[IF which = "first" THEN Min(at) ELSE Max(at)]
WordAt(doc, path, which) ==
  IF Occurrences(doc, path) = {} THEN "" ELSE Taken(doc, path, which).word
AmountAt(doc, path, which) ==
  IF Occurrences(doc, path) = {} THEN Blank ELSE Taken(doc, path, which).amount

(* The first of several places that has something in it.                   *)
First(words) ==
  LET filled == {i \in DOMAIN words : ~IsBlank(words[i])}
  IN  IF filled = {} THEN "" ELSE Trim(words[Min(filled)])

AgentAt(doc, path, which) ==
  [bicfi |-> WordAt(doc, path \o <<"FinInstnId", "BICFI">>, which),
   name  |-> WordAt(doc, path \o <<"FinInstnId", "Nm">>, which)]

(* An agent with a name only is taken before one with a BIC.               *)
FirstAgent(agents) ==
  LET filled == {i \in DOMAIN agents : ~IsBlank(agents[i].bicfi) \/ ~IsBlank(agents[i].name)}
      first  == agents[Min(filled)]
  IN  IF filled = {} THEN [bicfi |-> "", name |-> ""]
      ELSE [bicfi |-> Trim(first.bicfi), name |-> Trim(first.name)]

AccountAt(doc, path, which) ==
  LET iban  == Trim(WordAt(doc, path \o <<"Id", "IBAN">>, which))
      other == Trim(WordAt(doc, path \o <<"Id", "Othr", "Id">>, which))
  IN  IF iban # "" THEN [id |-> iban, iban |-> iban, bban |-> ""]
      ELSE [id |-> other, iban |-> "", bban |-> other]

(* The settled amount, or the instructed one where there is none.          *)
TransferAmount(doc, which) ==
  LET path == IF Trimmed(AmountAt(doc, Transaction \o <<"IntrBkSttlmAmt">>, which)) # Blank
              THEN Transaction \o <<"IntrBkSttlmAmt">> ELSE Transaction \o <<"InstdAmt">>
  IN  [amount   |-> Trimmed(AmountAt(doc, path, which)),
       currency |-> Upper(Trim(WordAt(doc, path, which)))]

CreatedAt(doc, which) ==
  First(<<WordAt(doc, Group \o <<"CreDtTm">>, which), WordAt(doc, Header \o <<"CreDt">>, which)>>)

(* The remittance lines, which may repeat, in their order.                 *)
Remittance(doc) ==
  LET lines == Occurrences(doc, Transaction \o <<"RmtInf", "Ustrd">>)
      joined[n \in 0 .. Len(doc.elements)] ==
        IF n = 0 THEN ""
        ELSE IF n \notin lines THEN joined[n - 1]
        ELSE IF n = Min(lines) THEN doc.elements[n].word
        ELSE joined[n - 1] \o " " \o doc.elements[n].word
  IN  Trim(joined[Len(doc.elements)])

(* The request an accepted document stands for.                            *)
RequestOf(doc, key, which) ==
  LET payment(name) == Trim(WordAt(doc, Transaction \o <<"PmtId", name>>, which))
      party(name)   == Trim(WordAt(doc, Transaction \o <<name, "Nm">>, which))
      agent(name)   == AgentAt(doc, Transaction \o <<name>>, which)
      money    == TransferAmount(doc, which)
      debtor   == AccountAt(doc, Transaction \o <<"DbtrAcct">>, which)
      creditor == AccountAt(doc, Transaction \o <<"CdtrAcct">>, which)
      from == FirstAgent(<<agent("DbtrAgt"), agent("InstgAgt"),
                           AgentAt(doc, Header \o <<"Fr", "FIId">>, which)>>)
      to   == FirstAgent(<<agent("CdtrAgt"), agent("InstdAgt"),
                           AgentAt(doc, Header \o <<"To", "FIId">>, which)>>)
  IN  [key |-> Trim(key), messageType |-> "pacs.008",
       messageId |-> First(<<WordAt(doc, Group \o <<"MsgId">>, which),
                             WordAt(doc, Header \o <<"BizMsgIdr">>, which)>>),
       created |-> CreatedAt(doc, which),
       instructionId |-> payment("InstrId"), endToEndId |-> payment("EndToEndId"),
       transactionId |-> payment("TxId"), clearingReference |-> payment("ClrSysRef"),
       amount |-> CanonicalAmount(money.amount), currency |-> money.currency,
       debtorName |-> party("Dbtr"), creditorName |-> party("Cdtr"),
       debtor |-> debtor.id, debtorAccount |-> debtor,
       creditor |-> creditor.id, creditorAccount |-> creditor,
       debtorBic |-> from.bicfi, debtorAgentName |-> from.name,
       creditorBic |-> to.bicfi, creditorAgentName |-> to.name,
       remittance |-> Remittance(doc),
       settlementDate |-> Trim(WordAt(doc, Group \o <<"IntrBkSttlmDt">>, which)),
       executionDate |-> ""]

(* The request, if there is one.                                           *)
ParsePacs008(doc, key, which) ==
  LET count      == WordAt(doc, Group \o <<"NbOfTxs">>, which)
      definition == WordAt(doc, Header \o <<"MsgDefIdr">>, which)
      money      == TransferAmount(doc, which)
  IN  IF /\ Decodes(doc)
         /\ Cardinality(Occurrences(doc, Transaction)) = 1
         /\ count \in {"", "1"}
         /\ definition \in {"", "pacs.008.001.08"}
         /\ TransferAmountOk(money.amount, money.currency)
         /\ IsTime(CreatedAt(doc, which))
         /\ ValidateTransfer(RequestOf(doc, key, which)) = {}
      THEN {RequestOf(doc, key, which)} ELSE {}

=============================================================================
