---------------------------------- MODULE Wire ----------------------------------
(***************************************************************************)
(* What a command looks like on the wire between the Dart package and the  *)
(* native library: a JSON object with named fields.  The values are        *)
(* abstracted to the classes some check of either side tells apart:        *)
(*                                                                         *)
(*   "null" "false" "true"                                                 *)
(*   "negative" "zero" "natural" "wide" "real"                             *)
(*        "natural" is within every bound the code has for a number,       *)
(*        "wide" needs more than 32 bits and is beyond those bounds,       *)
(*        "real" is a double above 0 and at most 1                         *)
(*   "empty" "byte" "text" "uri" "long"                                    *)
(*        the empty string, one of one byte, a longer one, one with "://", *)
(*        one of more than 1,048,576 bytes                                 *)
(*   "dtype" "scalar" "column" "batch" "wideBatch"                         *)
(*        well-formed objects; a wide batch has over 100,000 columns       *)
(*   the name of a native kind           a handle of that kind             *)
(*   anything else                       that string itself                *)
(*                                                                         *)
(* A value is a class and a size: an array has that many values of the     *)
(* class, anything else has the size Single.  A request of more than 64    *)
(* MiB, which both sides refuse, is none here.                             *)
(***************************************************************************)
EXTENDS Integers, FiniteSets, TLC

Kinds == {"expr", "selector", "dtypeSelector", "lazyFrame", "frame", "series",
          "job", "sqlContext", "batchStream"}

Single == -1

One(classes) == {[class |-> c, size |-> Single] : c \in classes}

\* The lengths of an array: few, enough for lengths that differ, or one that stands
\* for every length above MAX_ITEMS.
Few     == 0..2
TooMany == 3

Many(classes, sizes) == {[class |-> c, size |-> n] : c \in classes, n \in sizes}

Flag     == One({"false", "true"})
Null     == One({"null"})
Numbers  == One({"negative", "zero", "natural", "wide"})
Integer  == Numbers
Unsigned == Numbers \ One({"negative"})
Positive == Unsigned \ One({"zero"})
Bounded  == Unsigned \ One({"wide"})
Text     == One({"byte", "text", "uri", "long"})
Path     == Text \ One({"long"})
AnyText  == Text \cup One({"empty"})
Byte     == One({"byte"})
Names    == Many({"text"}, Few)
Flags(n) == Many({"false", "true"}, {n})

Handle(kind)         == One({kind})
HandleArray(kind, sizes) == Many({kind}, sizes)

NoFields == [f \in {} |-> {}]

\* The fields a command must have, those it may have, and what it makes: a
\* kind, "frames" for two frames at once, or "value" for no handle at all.  A
\* rule across fields is a choice between schemas.
Schema(result, required, optional) ==
    [result |-> result, required |-> required, optional |-> optional]

accepted(schema, field) == (schema.required @@ schema.optional)[field]

\* validate_fields, and the presence every read of a field asks for.
NamesFit(schema, fields) ==
    /\ DOMAIN schema.required \subseteq DOMAIN fields
    /\ DOMAIN fields \subseteq DOMAIN schema.required \cup DOMAIN schema.optional

Fits(schema, fields) ==
    /\ NamesFit(schema, fields)
    /\ \A f \in DOMAIN fields : fields[f] \in accepted(schema, f)

\* The records of one field and values, for the fields of a set.
Each(names, values) == [f \in names |-> values]

================================================================================
