----------------------------- MODULE ExactMoney -----------------------------
(***************************************************************************)
(* domain/money.go: exact decimal amounts.                                 *)
(*                                                                         *)
(* The text of an amount is a record: `plain` when it is digits with at    *)
(* most one point between digits, and then the number units / 10^places    *)
(* with places digits after the point.  Leading zeros are not kept.        *)
(* `padded` says that there is white space around it.                      *)
(***************************************************************************)
EXTENDS Integers, Sequences, FiniteSetsExt

CONSTANTS
  Scale,           \* the approved currencies and their digits after the point
  TransferDigits,  \* integer digits of a transfer amount, 18 in the code
  AggregateDigits  \* integer digits of a total, 36 in the code

ASSUME DigitsAssumption ==
  TransferDigits \in Nat \ {0} /\ AggregateDigits \in Nat /\ TransferDigits <= AggregateDigits
ASSUME ScaleAssumption == \A currency \in DOMAIN Scale : Scale[currency] \in Nat

AmountText == [plain : BOOLEAN, padded : BOOLEAN, units : Nat, places : Nat]

Decimal(units, places) == [plain |-> TRUE, padded |-> FALSE, units |-> units, places |-> places]

(* The empty text, and one that is no plain decimal ("1e3", "-1", "x").    *)
Blank == [plain |-> FALSE, padded |-> FALSE, units |-> 0, places |-> 0]
Garbled == [Blank EXCEPT !.units = 1]

Trimmed(text) == [text EXCEPT !.padded = FALSE]

PowerOfTen[n \in Nat] == IF n = 0 THEN 1 ELSE 10 * PowerOfTen[n - 1]

(* canonicalAmount accepts nothing that would have to be rounded, not even *)
(* superfluous zeros.                                                      *)
CanonicalAmountOk(text, currency, allowZero, maxDigits) ==
  /\ currency \in DOMAIN Scale
  /\ text.plain /\ ~text.padded
  /\ text.places <= Scale[currency]
  /\ text.units < PowerOfTen[maxDigits + text.places]
  /\ allowZero \/ text.units > 0

TransferAmountOk(text, currency) == CanonicalAmountOk(text, currency, FALSE, TransferDigits)
AggregateAmountOk(text, currency) == CanonicalAmountOk(text, currency, TRUE, AggregateDigits)

RawAmount(text) == text

(* What it makes of an accepted text: no zeros at the end of the fraction. *)
CanonicalAmount(text) ==
  LET places == Min({p \in 0 .. text.places : text.units % PowerOfTen[text.places - p] = 0})
  IN  Decimal(text.units \div PowerOfTen[text.places - places], places)

(* An accepted text in the smallest unit of its currency.                  *)
MinorUnits(text, currency) == text.units * PowerOfTen[Scale[currency] - text.places]

(* A sum, or the error that an amount is unreadable in the currency or the *)
(* total too long.                                                         *)
TotalText(text) == [failed |-> FALSE, amount |-> text]
NoTotal == [failed |-> TRUE, amount |-> Blank]

AmountFromMinorUnits(units, currency) ==
  LET text == Decimal(units, Scale[currency])
  IN  IF AggregateAmountOk(text, currency) THEN TotalText(CanonicalAmount(text)) ELSE NoTotal

(* The amounts at some positions of a list, added up.                      *)
TotalUnits(currency, amounts, adding) ==
  LET total[n \in 0 .. Len(amounts)] ==
        IF n = 0 THEN 0
        ELSE total[n - 1] + (IF n \in adding THEN MinorUnits(amounts[n], currency) ELSE 0)
  IN  total[Len(amounts)]

AddAmounts(currency, amounts, adding) ==
  IF currency \in DOMAIN Scale /\ \A i \in adding : AggregateAmountOk(amounts[i], currency)
  THEN AmountFromMinorUnits(TotalUnits(currency, amounts, adding), currency) ELSE NoTotal

(* CompareAmounts compares the minor units of two texts, if it can.        *)
Comparable(a, b, currency) == AggregateAmountOk(a, currency) /\ AggregateAmountOk(b, currency)

=============================================================================
