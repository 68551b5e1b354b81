------------------------ MODULE StructuralValidation ------------------------
(***************************************************************************)
(* structural_validation_error of flink/jobs/validation_dedup_job.py, and  *)
(* the records the generator gives it, as functions from the fields that   *)
(* are present to the Python type of their value.                          *)
(***************************************************************************)
EXTENDS Naturals, Sequences

\* REQUIRED_FIELDS, in the order they are looked at.
RequiredFields ==
    << <<"event_id", "str">>, <<"user_id", "str">>, <<"merchant_id", "str">>,
       <<"amount", "int">>, <<"currency", "str">>, <<"transaction_type", "str">>,
       <<"event_time", "str">>, <<"ingest_time", "str">>, <<"schema_version", "int">> >>

\* Python's isinstance: bool is a subclass of int.
IsInstance(type, expected) == type = expected \/ (type = "bool" /\ expected = "int")

BugCoercible(type, expected) == IsInstance(type, expected) \/ (type = "str" /\ expected = "int")

Fits(type, expected) == IsInstance(type, expected) /\ ~(type = "bool" /\ expected = "int")

NoError == <<"ok", "">>

\* The reason_code: the first required field that is missing or of another type.
ValidationError(fields) ==
    LET Name(i) == RequiredFields[i][1]
        Missing(i) == Name(i) \notin DOMAIN fields
        Faults == {i \in DOMAIN RequiredFields :
                      Missing(i) \/ ~Fits(fields[Name(i)], RequiredFields[i][2])}
        first == CHOOSE i \in Faults : \A j \in Faults : i <= j
    IN IF Faults = {} THEN NoError
       ELSE <<IF Missing(first) THEN "missing_field" ELSE "invalid_type", Name(first)>>

Accepted(fields) == ValidationError(fields) = NoError

-----------------------------------------------------------------------------
(* The generator's records *)

\* The dictionary make_event builds: every field, of the type the schema names.
WellFormed ==
    [field \in {"event_id", "user_id", "merchant_id", "amount", "currency",
                "transaction_type", "event_time", "ingest_time", "schema_version"} |->
        IF field \in {"amount", "schema_version"} THEN "int" ELSE "str"]

\* _make_malformed, structural mode: a field dropped, or the amount as a string.
StructuralDamage ==
    {<<"drop", field>> : field \in {"merchant_id", "amount", "currency", "event_time"}}
      \cup {<<"stringify", "amount">>}

\* Semantic mode: a negative amount or an unknown currency or transaction type,
\* values of the right type.
SemanticDamage == {<<"revalue", field>> : field \in {"amount", "currency", "transaction_type"}}

Damages == StructuralDamage \cup SemanticDamage \cup {<<"none", "">>}

Generated(damage) ==
    CASE damage[1] = "drop"      -> [f \in DOMAIN WellFormed \ {damage[2]} |-> WellFormed[f]]
      [] damage[1] = "stringify" -> [WellFormed EXCEPT ![damage[2]] = "str"]
      [] OTHER                   -> WellFormed
=============================================================================
