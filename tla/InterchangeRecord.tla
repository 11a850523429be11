--------------------------- MODULE InterchangeRecord ---------------------------
(***************************************************************************)
(* The adapter that validates a record of an external experiment           *)
(* (experiments/kiko/k9_interchange.cpp), fed with records a writer        *)
(* encoded and something on the way changed.                               *)
(*                                                                         *)
(* A record is a sequence of words and control characters: the words the   *)
(* code compares with, "a" for one more correlation character, "long" for  *)
(* 127 of them and "bad" for a character a correlation may not have.  A    *)
(* field is the text of its words, and Size says how long that is.         *)
(***************************************************************************)
EXTENDS Naturals, SequencesExt

CONSTANTS
    MaxEdit,     \* bound: changes to one record
    Correlation  \* correlations a writer uses

VARIABLES record, expectedKind, edits

interchangeVars == <<record, expectedKind, edits>>

-----------------------------------------------------------------------------
ExternalExperimentKind == {"production_gate", "k3_authorization_disabled"}

ExternalExperimentalOutcome == {"blocked", "passed"}

Word == {"KIKO-EXPERIMENT", "1", "a", "long", "bad"}
            \cup ExternalExperimentKind \cup ExternalExperimentalOutcome

Size(word) ==
    CASE word \in {"1", "a", "bad"}           -> 1
      [] word = "passed"                      -> 6
      [] word = "blocked"                     -> 7
      [] word \in {"KIKO-EXPERIMENT", "production_gate"} -> 15
      [] word = "k3_authorization_disabled"   -> 25
      [] word = "long"                        -> 127

Control == {"TAB", "LF", "CR"}

ASSUME RecordAssumption ==
    /\ MaxEdit \in Nat
    /\ Correlation \subseteq Seq(Word)

Text(kind, outcome, correlation) ==
    <<"KIKO-EXPERIMENT", "TAB", "1", "TAB", kind, "TAB", outcome, "TAB">>
        \o correlation \o <<"LF">>

Length(field) == FoldLeft(LAMBDA sum, word : sum + Size(word), 0, field)

(* validCorrelation, its limit in characters *)
ValidCorrelation(correlation) ==
    /\ \A i \in DOMAIN correlation : correlation[i] \in Word \ {"bad"}
    /\ Length(correlation) \in 1 .. 128

(* splitFields: a record with more or fewer than four TABs has no fields.   *)
SplitFields(body) ==
    FoldLeft(LAMBDA fields, word :
                 IF word = "TAB" THEN Append(fields, <<>>)
                 ELSE [fields EXCEPT ![Len(fields)] = Append(@, word)],
             << <<>> >>, body)

Framed_LastOnly(text) == text # <<>> /\ Last(text) = "LF"

(* One LF, at the end, and no CR before it. *)
Framed(text) ==
    /\ text # <<>>
    /\ Last(text) = "LF"
    /\ \A i \in 1 .. Len(text) - 1 : text[i] \notin {"LF", "CR"}

Is(field, words) == \E word \in words : field = <<word>>

Refused(error) ==
    [error |-> error, kind |-> "none", outcome |-> "none", correlation |-> <<>>]

Observation(kind, outcome, correlation) ==
    [error |-> "none", kind |-> kind, outcome |-> outcome, correlation |-> correlation]

Validate(text, expected) ==
    LET fields == SplitFields(Front(text))
    IN IF ~Framed(text) THEN Refused("malformed_record")
       ELSE IF Len(fields) # 5 THEN Refused("malformed_record")
       ELSE IF ~Is(fields[1], {"KIKO-EXPERIMENT"}) THEN Refused("malformed_record")
       ELSE IF ~Is(fields[2], {"1"}) THEN Refused("unsupported_schema")
       ELSE IF ~Is(fields[3], ExternalExperimentKind) THEN Refused("unsupported_experiment")
       ELSE IF ~Is(fields[4], ExternalExperimentalOutcome) THEN Refused("invalid_outcome")
       ELSE IF ~ValidCorrelation(fields[5]) THEN Refused("invalid_correlation")
       ELSE IF expected \notin ExternalExperimentKind \/ fields[3] # <<expected>>
            THEN Refused("context_mismatch")
       ELSE Observation(fields[3][1], fields[4][1], fields[5])

-----------------------------------------------------------------------------
(* A caller that expects some kind, or casts something else to one, and no  *)
(* record yet: the empty one.                                               *)
RecordInit ==
    /\ record = <<>>
    /\ expectedKind \in ExternalExperimentKind \cup {"other"}
    /\ edits = 0

Write ==
    /\ record = <<>> /\ edits = 0
    /\ \E kind \in ExternalExperimentKind, outcome \in ExternalExperimentalOutcome,
          correlation \in Correlation :
           record' = Text(kind, outcome, correlation)
    /\ UNCHANGED <<expectedKind, edits>>

Insert(i, word) ==
    /\ edits < MaxEdit
    /\ record' = InsertAt(record, i, word)
    /\ edits' = edits + 1
    /\ UNCHANGED expectedKind

Delete(i) ==
    /\ edits < MaxEdit
    /\ record' = RemoveAt(record, i)
    /\ edits' = edits + 1
    /\ UNCHANGED expectedKind

RecordNext ==
    \/ Write
    \/ \E i \in 1 .. Len(record) + 1, word \in Word \cup Control : Insert(i, word)
    \/ \E i \in DOMAIN record : Delete(i)

RecordSpec == RecordInit /\ [][RecordNext]_interchangeVars

-----------------------------------------------------------------------------
(* The grammar, without splitting anything: four TABs, the parts a record   *)
(* must begin with, and what is left.                                       *)
FrozenOrder ==
    <<"malformed_record", "unsupported_schema", "unsupported_experiment", "invalid_outcome",
      "invalid_correlation", "context_mismatch", "none">>

Part == <<{"KIKO-EXPERIMENT"}, {"1"}, ExternalExperimentKind, ExternalExperimentalOutcome>>

Occurrences(word) == Cardinality({i \in DOMAIN record : record[i] = word})

Begins(n) ==
    \A i \in 1 .. n : /\ 2 * i <= Len(record)
                      /\ record[2 * i - 1] \in Part[i]
                      /\ record[2 * i] = "TAB"

InOrder(n) ==
    CASE n = 1 -> /\ Begins(1) /\ Occurrences("TAB") = 4 /\ Occurrences("CR") = 0
                  /\ Occurrences("LF") = 1 /\ record[Len(record)] = "LF"
      [] n \in 2 .. 4 -> Begins(n)
      [] n = 5 -> ValidCorrelation(SubSeq(record, 9, Len(record) - 1))
      [] n = 6 -> record[5] = expectedKind
      [] n = 7 -> FALSE

(* The adapter accepts exactly the records a writer could have meant for    *)
(* this caller, and what it then says encodes to the same bytes, so no two  *)
(* records pass for one observation; a record it refuses is refused for the *)
(* first thing wrong with it in the order the code calls frozen, also when  *)
(* several are wrong and when the wrong one is a separator.                 *)
ValidationIsExact ==
    LET result == Validate(record, expectedKind)
        first  == CHOOSE n \in 1 .. 7 : ~InOrder(n) /\ \A k \in 1 .. n - 1 : InOrder(k)
    IN /\ result.error = FrozenOrder[first]
       /\ result.error = "none" =>
              /\ record = Text(result.kind, result.outcome, result.correlation)
              /\ result.kind = expectedKind
=============================================================================
