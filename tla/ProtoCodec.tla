------------------------------- MODULE ProtoCodec -------------------------------
(***************************************************************************)
(* How the generated TypeScript reads and writes messages.  Every message  *)
(* of protos/demo.ts has the same five functions, encode, decode,          *)
(* fromJSON, toJSON and fromPartial, which differ only in the fields they  *)
(* are written for.  A message is described here by the sequence of its    *)
(* fields, and the five functions are operators on such a description.     *)
(*                                                                         *)
(* A message is a function from field names to values: text, a number, a   *)
(* Boolean, the sequence of what a repeated field holds, and for a         *)
(* submessage <<>> where the code has undefined and <<m>> otherwise.       *)
(* The bytes of a message are the sequence of its entries, each a field    *)
(* number, a wire type and a value.                                        *)
(***************************************************************************)
EXTENDS Integers, SequencesExt

CONSTANT MaxSafe  \* Number.MAX_SAFE_INTEGER

Field(no, name, kind, many, of) ==
    [no |-> no, name |-> name, kind |-> kind, many |-> many, of |-> of]

Text(no, name)      == Field(no, name, "string", FALSE, <<>>)
Int32(no, name)     == Field(no, name, "int32", FALSE, <<>>)
Int64(no, name)     == Field(no, name, "int64", FALSE, <<>>)
Bool(no, name)      == Field(no, name, "bool", FALSE, <<>>)
One(no, name, of)   == Field(no, name, "message", FALSE, of)
Texts(no, name)     == Field(no, name, "string", TRUE, <<>>)
Many(no, name, of)  == Field(no, name, "message", TRUE, of)

Names(schema) == {schema[i].name : i \in DOMAIN schema}

FieldNamed(schema, name) ==
    schema[CHOOSE i \in DOMAIN schema : schema[i].name = name]

IsMessage(f) == f.kind = "message"

Default(f) ==
    CASE f.many \/ IsMessage(f) -> <<>>
      [] f.kind = "string"      -> ""
      [] f.kind = "bool"        -> FALSE
      [] OTHER                  -> 0

createBase(schema) ==
    [name \in Names(schema) |-> Default(FieldNamed(schema, name))]

\* Text and submessages carry their length; numbers and Booleans are varints.
WireType(f) == IF f.kind \in {"string", "message"} THEN 2 ELSE 0

(***************************************************************************)
(* encode: fields in the order of the schema; a scalar with its default    *)
(* and an undefined submessage leave no trace.  "for (const v of ...)"     *)
(* takes any iterable, so that a text given for a repeated field is        *)
(* written one character at a time.                                        *)
(***************************************************************************)
RECURSIVE encode(_, _)
encode(schema, m) ==
    LET Entry(f, v) ==
            [no |-> f.no, wt |-> WireType(f),
             val |-> IF IsMessage(f) THEN encode(f.of, v) ELSE v]
        Entries(f) ==
            LET v == m[f.name]
            IN IF f.many \/ IsMessage(f) THEN [i \in DOMAIN v |-> Entry(f, v[i])]
               ELSE IF v = Default(f) THEN <<>> ELSE <<Entry(f, v)>>
    IN FlattenSeq([i \in DOMAIN schema |-> Entries(schema[i])])

\* Fault for a mutant of longToNumber: a large number is read as it comes.
longToNumberUnchecked(long) == <<long>>

\* longToNumber: the number, or <<>> where the code throws.
longToNumber(long) ==
    IF long > MaxSafe \/ long < -MaxSafe THEN <<>> ELSE <<long>>

\* "(tag & 7) === 4 || tag === 0" ends the message.
Readable(wire) ==
    LET ends == {i \in DOMAIN wire : wire[i].wt = 4 \/ wire[i].no = 0}
    IN IF ends = {} THEN wire ELSE SubSeq(wire, 1, Min(ends) - 1)

\* What a decoded value does to the message: a repeated field grows, any
\* other field is replaced.
Put(m, f, v) ==
    [m EXCEPT ![f.name] = IF f.many THEN Append(@, v)
                          ELSE IF IsMessage(f) THEN <<v>> ELSE v]

\* "tag !== 10": number and wire type have to be those of the field.
Matches(schema, i, entry) ==
    schema[i].no = entry.no /\ WireType(schema[i]) = entry.wt

(***************************************************************************)
(* decode: <<the message>>, or <<>> where the code throws.  An entry that  *)
(* is no field of this schema is skipped.                                  *)
(***************************************************************************)
RECURSIVE decode(_, _)
decode(schema, wire) ==
    LET Value(f, e) ==
            CASE IsMessage(f)     -> decode(f.of, e.val)
              [] f.kind = "int64" -> longToNumber(e.val)
              [] OTHER            -> <<e.val>>
        Step(read, e) ==
            LET hits == {i \in DOMAIN schema : Matches(schema, i, e)}
            IN IF read = <<>> \/ hits = {} THEN read
               ELSE LET f == schema[Min(hits)]
                        v == Value(f, e)
                    IN IF v = <<>> THEN <<>> ELSE <<Put(read[1], f, v[1])>>
    IN FoldLeft(Step, <<createBase(schema)>>, Readable(wire))

\* toJSON: an object with the fields that are not at their default.
RECURSIVE toJSON(_, _)
toJSON(schema, m) ==
    LET kept == {n \in Names(schema) : m[n] # Default(FieldNamed(schema, n))}
        Json(f) == IF IsMessage(f)
                   THEN [i \in DOMAIN m[f.name] |-> toJSON(f.of, m[f.name][i])]
                   ELSE m[f.name]
    IN [n \in kept |-> Json(FieldNamed(schema, n))]

(***************************************************************************)
(* fromJSON and fromPartial: every field is looked up in the object under  *)
(* its own name, then under its other spelling where it has one, and has   *)
(* its default when neither is set.                                        *)
(***************************************************************************)
RECURSIVE FromObject(_, _, _)
FromObject(schema, object, spelling) ==
    LET Keys(n) == {n} \cup (IF n \in DOMAIN spelling THEN {spelling[n]} ELSE {})
        Value(f, v) == IF IsMessage(f)
                       THEN [i \in DOMAIN v |-> FromObject(f.of, v[i], spelling)]
                       ELSE v
        Found(f) == LET keys == Keys(f.name) \cap DOMAIN object
                    IN IF keys = {} THEN Default(f)
                       ELSE IF f.name \in keys THEN Value(f, object[f.name])
                       ELSE Value(f, object[spelling[f.name]])
    IN [n \in Names(schema) |-> Found(FieldNamed(schema, n))]

NoSpelling == [n \in {} |-> ""]

\* Fault for a mutant of fromPartial: repeated fields are left out.
fromPartialOfOne(schema, object) ==
    [n \in Names(schema) |-> IF FieldNamed(schema, n).many THEN <<>>
                             ELSE FromObject(schema, object, NoSpelling)[n]]

fromPartial(schema, object) == FromObject(schema, object, NoSpelling)
================================================================================
