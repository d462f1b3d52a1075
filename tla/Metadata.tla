------------------------------ MODULE Metadata ------------------------------
(***************************************************************************)
(* What ValidatorImpl and TransformerImpl do to one record's metadata.     *)
(*                                                                         *)
(* Metadata is a function from field names to the sequence of their        *)
(* non-empty occurrences.  A content rule (controlled values, expression   *)
(* or length) is the set of values it accepts and a quantifier.  Values    *)
(* that differ in case only are one value; a prefix of a value, as the     *)
(* cross transformer looks for, is the value.                              *)
(***************************************************************************)
EXTENDS Naturals, Sequences, FiniteSets, SequencesExt

CONSTANTS
  Fields,      \* the fields of a record
  Validators,  \* per validated field: [mandatory, rules]
  NoDefault    \* a transformer without a default value

Checked == DOMAIN Validators

\* Whether the occurrences of a field satisfy one rule.
RuleHolds(rule, occurrences) ==
  LET valid == {i \in DOMAIN occurrences : occurrences[i] \in rule.accepts}
  IN \/ rule.quantifier = "1..1" /\ Cardinality(valid) = 1
     \/ rule.quantifier = "1..*" /\ valid # {}
     \/ rule.quantifier = "0..*"

\* The checked fields of the metadata that satisfy all their rules.
ValidFields(metadata) ==
  {f \in Checked : \A r \in Validators[f].rules : RuleHolds(r, metadata[f])}

\* The fields that make a record invalid, given its valid ones.
Faults(validFields) ==
  {f \in Checked \ validFields : Validators[f].mandatory}

-----------------------------------------------------------------------------
(* The transformers: the metadata after, and whether any change was         *)
(* reported.                                                                *)

\* The occurrences that are among some values, in their order.
Only(occurrences, values) ==
  LET kept[n \in 0..Len(occurrences)] ==
        IF n = 0 THEN <<>>
        ELSE IF occurrences[n] \in values THEN Append(kept[n - 1], occurrences[n])
        ELSE kept[n - 1]
  IN kept[Len(occurrences)]

\* Every value at its first occurrence only.
WithoutDuplicates(occurrences) ==
  FoldLeft(LAMBDA kept, v : IF Contains(kept, v) THEN kept ELSE Append(kept, v),
           <<>>, occurrences)

Replaced(map, v) == IF v \in DOMAIN map THEN map[v] ELSE v

\* Mutant: duplicates are dropped before the values are replaced.
TranslateContentLast(t, metadata) ==
  LET old == IF t.deleteDuplicates THEN WithoutDuplicates(metadata[t.field])
             ELSE metadata[t.field]
      new == [i \in DOMAIN old |-> Replaced(t.map, old[i])]
      defaulted == t.default # NoDefault
                   /\ ~\E i \in DOMAIN new : new[i] \in t.accepts
  IN [metadata |-> [metadata EXCEPT ![t.field] =
                      IF defaulted THEN Append(new, t.default) ELSE new],
      transformed |-> new # old \/ defaulted]

TranslateContent(t, metadata) ==
  LET old == metadata[t.field]
      new == [i \in DOMAIN old |-> Replaced(t.map, old[i])]
      kept == IF t.deleteInvalid THEN Only(new, t.accepts) ELSE new
      defaulted == t.default # NoDefault
                   /\ ~\E i \in DOMAIN new : new[i] \in t.accepts
      full == IF defaulted THEN Append(kept, t.default) ELSE kept
      single == IF t.deleteDuplicates THEN WithoutDuplicates(full) ELSE full
  IN [metadata |-> [metadata EXCEPT ![t.field] = single],
      transformed |-> new # old \/ defaulted]

RemoveInvalidOccurrence(t, metadata) ==
  LET kept == Only(metadata[t.field], t.accepts)
  IN [metadata |-> [metadata EXCEPT ![t.field] = kept],
      transformed |-> kept # metadata[t.field]]

FieldNameTranslate(t, metadata) ==
  [metadata |-> [metadata EXCEPT ![t.target] = @ \o metadata[t.source],
                                 ![t.source] = <<>>],
   transformed |-> metadata[t.source] # <<>>]

\* The default is added without a change being reported.
CrossTranslate(t, metadata) ==
  LET found == Only(metadata[t.test], DOMAIN t.map)
      added == IF found # <<>> THEN <<t.map[Head(found)]>>
               ELSE IF t.default # NoDefault THEN <<t.default>> ELSE <<>>
  IN [metadata |-> [metadata EXCEPT ![t.field] = @ \o added],
      transformed |-> found # <<>>]

Apply(t, metadata) ==
  CASE t.kind = "TranslateContent" -> TranslateContent(t, metadata)
    [] t.kind = "RemoveInvalidOccurrence" -> RemoveInvalidOccurrence(t, metadata)
    [] t.kind = "FieldNameTranslate" -> FieldNameTranslate(t, metadata)
    [] t.kind = "CrossTranslate" -> CrossTranslate(t, metadata)

\* TransformerImpl.transform.  Which transformers apply is decided by the
\* validation before the first of them; one of a field nobody validates
\* fails, unless it applies to valid fields too.
Transform(transformers, metadata, validFields) ==
  LET Step(sofar, t) ==
        LET next == Apply(t, sofar.metadata)
        IN IF sofar.failed \/ (~t.applyIfValid /\ t.field \in validFields)
           THEN sofar
           ELSE IF ~t.applyIfValid /\ t.field \notin Checked
           THEN [sofar EXCEPT !.failed = TRUE]
           ELSE [metadata |-> next.metadata,
                 transformed |-> sofar.transformed \/ next.transformed,
                 failed |-> FALSE]
  IN FoldLeft(Step,
              [metadata |-> metadata, transformed |-> FALSE, failed |-> FALSE],
              transformers)

=============================================================================
