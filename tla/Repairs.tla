------------------------------- MODULE Repairs -------------------------------
(***************************************************************************)
(* What the networks validated by lr.validator repair of the records they  *)
(* harvest: Batches, with the rules and transformers of that               *)
(* configuration.  The vocabularies and translations are files, some of    *)
(* them for one country, here the constants; of the fields it checks       *)
(* besides dc:type and dc:date, no transformer touches a mandatory one.    *)
(***************************************************************************)
EXTENDS Batches

CONSTANTS
  Driver, Status,      \* the two vocabularies of dc:type
  WellFormed,          \* the dates that match the pattern
  ToDriver, ToStatus,  \* translations of types, to the one and to the other
  PublishedVersion,    \* the status of a record that names none
  Others               \* the transformers of the fields that may be invalid

DriverTypeRule == [accepts |-> Driver, quantifier |-> "1..1"]
StatusTypeRule == [accepts |-> Status, quantifier |-> "1..1"]
DateRule == [accepts |-> WellFormed, quantifier |-> "1..*"]

Translation(field, accepts, map, default, applyIfValid, deleteDuplicates) ==
  [kind |-> "TranslateContent", field |-> field, accepts |-> accepts,
   map |-> map, default |-> default, applyIfValid |-> applyIfValid,
   deleteDuplicates |-> deleteDuplicates, deleteInvalid |-> FALSE]

TypeDriver == Translation("type", Driver, ToDriver, NoDefault, FALSE, TRUE)
TypeStatus(once) ==
  Translation("type", Status, ToStatus, PublishedVersion, FALSE, once)
DateInvalid ==
  [kind |-> "RemoveInvalidOccurrence", field |-> "date",
   accepts |-> WellFormed, applyIfValid |-> TRUE]

\* The networks' lists differ in their translations and, as to types, in this:
\* BRTransformer drops a status that is named twice, the others leave it.
LRTransformer(once) == <<TypeDriver, TypeStatus(once), DateInvalid>> \o Others

\* The fields that must be valid and that nothing repairs.
Untouched ==
  {f \in Checked \ {"type", "date"} : Validators[f].mandatory}

ASSUME RepairsAssumption ==
  /\ {"type", "date"} \subseteq Checked /\ Checked \subseteq Fields
  /\ Validators["type"] =
       [mandatory |-> TRUE, rules |-> {DriverTypeRule, StatusTypeRule}]
  /\ Validators["date"] = [mandatory |-> TRUE, rules |-> {DateRule}]
  /\ Driver \intersect (Status \union DOMAIN ToStatus) = {}
  /\ \A v \in DOMAIN ToStatus : ToStatus[v] \in Status
  /\ PublishedVersion \in Status /\ PublishedVersion # NoDefault
  /\ Others \in Seq(ToSet(Others))
  /\ \A t \in ToSet(Others) :
       /\ t.kind = "TranslateContent"
       /\ t.field \in Checked /\ ~Validators[t.field].mandatory
  /\ \A s \in Snapshots : \A m \in Harvestable[s] :
       DOMAIN m = Fields /\ \A f \in Fields : m[f] \in Seq(ToSet(m[f]))

-----------------------------------------------------------------------------
\* One occurrence, and no other, is among some values.
NamesOnce(occurrences, values) ==
  \E i \in DOMAIN occurrences :
    {j \in DOMAIN occurrences : occurrences[j] \in values} = {i}

\* What is repaired, said without the transformers: a record is judged VALID
\* when the fields nothing repairs are valid, one of its dates is well formed,
\* and its types either name one driver type and one status as they came or,
\* the translatable driver types replaced and the repetitions dropped, name one
\* driver type and at most one spelling of a status, or of one status where
\* repeated statuses are dropped too (TransformerImpl 51-68, TranslateContent
\* 100-159, lr.validator's transformers-context.xml 36-57 and 93-114).
Repairable(record, once) ==
  LET types == record["type"]
      named == {Replaced(ToDriver, types[i]) : i \in DOMAIN types}
      spelt == named \intersect (Status \union DOMAIN ToStatus)
  IN /\ Untouched \subseteq ValidFields(record)
     /\ \E i \in DOMAIN record["date"] : record["date"][i] \in WellFormed
     /\ \/ NamesOnce(types, Driver) /\ NamesOnce(types, Status)
        \/ /\ Cardinality(named \intersect Driver) = 1
           /\ Cardinality(IF once THEN {Replaced(ToStatus, v) : v \in spelt}
                          ELSE spelt) <= 1

LRRepairs ==
  hand.step = "save" =>
    \A once \in BOOLEAN : conf.transformers = LRTransformer(once) =>
      (hand.status = "VALID" <=> Repairable(hand.origin, once))

=============================================================================
