------------------------------- MODULE Codec -------------------------------
(***************************************************************************)
(* The protobuf codec and what reads its result: encodeProtoFields(),      *)
(* decodeProtobuf() as the loop it is, one field a step, and the typed     *)
(* extraction of a state message.  A message is encoded, may be cut or     *)
(* damaged on its way, is decoded and interpreted.                         *)
(*                                                                         *)
(* Widths are parameters: the code's bytes carry 7 bits of a varint, its   *)
(* numbers are 32 bits wide, a varint has up to 10 bytes, FIXED32 has 4    *)
(* and FIXED64 has 8.  As in the code, neither number of bits is a         *)
(* multiple of a byte's.                                                   *)
(***************************************************************************)
EXTENDS Naturals, Sequences, TLC, FiniteSets, SequencesExt, FiniteSetsExt

CONSTANTS
  Group,            \* payload bits of a varint's byte
  Word, Wide,       \* bits of a number, of a bigint
  Fixed32, Fixed64, \* bytes
  MaxVarintBytes,
  Limits,           \* values of maxFieldsPerMessage
  MaxSent           \* bound: fields of a message

VARIABLES
  message,   \* the fields given to encodeProtoFields()
  buffer,    \* the bytes
  damage,    \* what happened to them: "none", "cut", "garbled"
  offset, decoded, verdict, \* the decoder: its cursor, `fields` in order, how it ended
  limit,     \* maxFieldsPerMessage
  state      \* what the schema makes of it

vars == <<message, buffer, damage, offset, decoded, verdict, limit, state>>

Byte == 0..2 ^ (Group + 1) - 1
More(byte) == byte >= 2 ^ Group
Low(byte) == byte % 2 ^ Group

\* A number as the set of its bits.
Bits(n) == {b \in 0..Wide - 1 : (n \div 2 ^ b) % 2 = 1}
Number(bits) == MapThenSumSet(LAMBDA b : 2 ^ b, bits)

-----------------------------------------------------------------------------
(* Varints. *)

Groups(n) == CHOOSE k \in 1..MaxVarintBytes : n < 2 ^ (Group * k) /\ (k = 1 \/ n >= 2 ^ (Group * (k - 1)))

EncodeVarintBigInt(n) ==
  [i \in 1..Groups(n) |-> ((n \div 2 ^ (Group * (i - 1))) % 2 ^ Group) + (IF i < Groups(n) THEN 2 ^ Group ELSE 0)]

\* `>>>` makes a word of the number.
EncodeVarint(n) == EncodeVarintBigInt(n % 2 ^ Word)

\* The bytes from `from` on up to the first without a continuation bit, or what is wrong: no
\* such byte within the cap, or within the buffer.
VarintAt(bytes, from) ==
  LET stops == {k \in 1..MaxVarintBytes : from + k <= Len(bytes) /\ ~More(bytes[from + k])}
  IN  IF stops # {} THEN [error |-> "none", length |-> Min(stops)]
      ELSE [error |-> IF Len(bytes) - from >= MaxVarintBytes THEN "MALFORMED_VARINT" ELSE "RANGE_ERROR",
            length |-> 0]

ReadVarintBigInt(bytes, from) ==
  Number(UNION {{b + Group * (i - 1) : b \in Bits(Low(bytes[from + i]))} : i \in 1..VarintAt(bytes, from).length})

\* A word's `<<` takes its count modulo the word's width: beyond it, groups land on the low
\* bits again.
ReadVarint(bytes, from) ==
  Number(UNION {{b + ((Group * (i - 1)) % Word) : b \in Bits(Low(bytes[from + i]))} \cap 0..Word - 1 :
                  i \in 1..VarintAt(bytes, from).length})

\* Zigzag, of the integers that a word can hold; a negative one is given by its magnitude.
Sint(negative, n) == [negative |-> negative, n |-> n]
ZigzagEncode(s) == IF s.negative THEN 2 * s.n - 1 ELSE 2 * s.n

\* Mutant: the shift keeps the sign.
ZigzagDecodeSigned(n) ==
  IF n < 2 ^ (Word - 1) THEN IF n % 2 = 1 THEN Sint(TRUE, (n + 1) \div 2) ELSE Sint(FALSE, n \div 2)
  ELSE IF n % 2 = 1 THEN Sint(FALSE, (2 ^ Word - 1 - n) \div 2) ELSE Sint(TRUE, (2 ^ Word - n) \div 2)

ZigzagDecode(n) == IF n % 2 = 1 THEN Sint(TRUE, (n + 1) \div 2) ELSE Sint(FALSE, n \div 2)

EncodePackedSint32(values) == FlattenSeq([i \in 1..Len(values) |-> EncodeVarint(ZigzagEncode(values[i]))])

\* A loop over a list that collects the items of some of its places.
Collected(s, kept) ==
  LET upTo[n \in 0..Len(s)] ==
        IF n = 0 THEN <<>> ELSE IF n \in kept THEN Append(upTo[n - 1], s[n]) ELSE upTo[n - 1]
  IN  upTo[Len(s)]

\* Position by position: the ends of the varints, in order.
DecodePackedSint32(bytes) ==
  LET ends == Collected([i \in 1..Len(bytes) |-> i], {i \in 1..Len(bytes) : ~More(bytes[i])})
  IN  [i \in 1..Len(ends) |-> ZigzagDecode(ReadVarint(bytes, IF i = 1 THEN 0 ELSE ends[i - 1]))]

-----------------------------------------------------------------------------
(* Fields.  A value is a number, a buffer, or a double that only its bytes stand for. *)

WireType == [VARINT |-> 0, FIXED64 |-> 1, LENGTH_DELIMITED |-> 2, START_GROUP |-> 3, FIXED32 |-> 5]

NumberValue(n) == [is |-> "number", n |-> n, bytes |-> <<>>]
BufferValue(bytes) == [is |-> "buffer", n |-> 0, bytes |-> bytes]
DoubleValue(bytes) == [is |-> "number", n |-> 0, bytes |-> bytes]
Field(num, wire, value) == [num |-> num, wire |-> wire, value |-> value]

Padded(bytes, length) == [i \in 1..length |-> IF i <= Len(bytes) THEN bytes[i] ELSE 0]

\* What one field of the outbound message becomes; a bigint is `big`.
EncodeField(f) ==
  EncodeVarint(8 * f.num + WireType[f.wire]) \o
    CASE f.wire = "VARINT" -> IF f.value.is = "big" THEN EncodeVarintBigInt(f.value.n) ELSE EncodeVarint(f.value.n)
      [] f.wire = "LENGTH_DELIMITED" -> EncodeVarint(Len(f.value.bytes)) \o f.value.bytes
      [] f.wire = "FIXED32" -> Padded(f.value.bytes, Fixed32)
      [] OTHER -> f.value.bytes

EncodingError(f) ==
  CASE f.wire = "FIXED32" /\ f.value.is = "big" -> "FIXED32_BIGINT"
    [] f.wire \notin {"VARINT", "LENGTH_DELIMITED", "FIXED32"} -> "UNSUPPORTED_WIRE_TYPE"
    [] OTHER -> "none"

Decoded(num, value) == [error |-> "none", num |-> num, value |-> value]
Refused(error) == [error |-> error, num |-> 0, value |-> NumberValue(0)]

\* One turn of decodeProtobuf()'s loop: the field at `from`, and where the next one starts.
FieldAt(bytes, from) ==
  LET tagError == VarintAt(bytes, from).error
      tag == ReadVarint(bytes, from)
      start == from + VarintAt(bytes, from).length
      num == tag \div 8
      body == VarintAt(bytes, start)
      length == ReadVarint(bytes, start)
      Slice(first, n) == SubSeq(bytes, first + 1, first + n)
      Took(value, next) == <<Decoded(num, value), next>>
  IN  IF tagError # "none" THEN <<Refused(tagError), from>>
      ELSE CASE tag % 8 = WireType.VARINT ->
                  IF body.error # "none" THEN <<Refused(body.error), from>>
                  ELSE Took(NumberValue(length), start + body.length)
             [] tag % 8 = WireType.FIXED64 ->
                  IF start + Fixed64 > Len(bytes) THEN <<Refused("TRUNCATED_MESSAGE"), from>>
                  ELSE Took(DoubleValue(Slice(start, Fixed64)), start + Fixed64)
             [] tag % 8 = WireType.LENGTH_DELIMITED ->
                  IF body.error # "none" THEN <<Refused(body.error), from>>
                  ELSE IF start + body.length + length > Len(bytes) THEN <<Refused("TRUNCATED_MESSAGE"), from>>
                  ELSE Took(BufferValue(Slice(start + body.length, length)), start + body.length + length)
             [] tag % 8 = WireType.FIXED32 ->
                  IF start + Fixed32 > Len(bytes) THEN <<Refused("TRUNCATED_MESSAGE"), from>>
                  ELSE Took(BufferValue(Slice(start, Fixed32)), start + Fixed32)
             [] OTHER -> <<Refused("UNSUPPORTED"), from>>

-----------------------------------------------------------------------------
(* Reading: fields[num] is a bucket, the values of some of the fields in their order, and a single *)
(* value is its first. *)

Nothing == [is |-> "nothing", n |-> 0, bytes |-> <<>>]

Bucket(fields, num) == {i \in 1..Len(fields) : fields[i].num = num}

First(fields, num) == IF Bucket(fields, num) = {} THEN Nothing ELSE fields[Min(Bucket(fields, num))].value

ExtractNumberField(fields, num) == LET v == First(fields, num) IN IF v.is = "number" THEN v ELSE Nothing
ExtractStringField(fields, num) == LET v == First(fields, num) IN IF v.is = "buffer" THEN v ELSE Nothing

ExtractFixed32Field(fields, num) ==
  LET v == First(fields, num) IN IF v.is = "buffer" /\ Len(v.bytes) = Fixed32 THEN v ELSE Nothing

\* A varint where FIXED32 is declared is taken as the number it is.
ExtractEntityKey(fields, num) ==
  IF First(fields, num).is = "number" THEN First(fields, num) ELSE ExtractFixed32Field(fields, num)

\* Four bytes are a float, other bytes a string, a number itself.
ExtractTelemetryValue(fields, num) ==
  LET v == First(fields, num)
  IN  IF v.is = "buffer" THEN [v EXCEPT !.is = IF Len(v.bytes) = Fixed32 THEN "float" ELSE "string"] ELSE v

ExtractRepeatedField(fields, num, is) ==
  LET taken == {i \in Bucket(fields, num) : fields[i].value.is = is}
  IN  [is |-> IF taken = {} THEN "nothing" ELSE "list", n |-> 0,
       bytes |-> Collected([i \in 1..Len(fields) |-> fields[i].value.n], taken)]

\* The fields of the modelled state message; of the wire types each is declared with.
Schema ==
  [key |-> [num |-> 1, wire |-> "FIXED32"], on |-> [num |-> 2, wire |-> "VARINT"],
   float |-> [num |-> 3, wire |-> "FIXED32"], text |-> [num |-> 4, wire |-> "LENGTH_DELIMITED"],
   sint |-> [num |-> 5, wire |-> "VARINT"], packed |-> [num |-> 6, wire |-> "LENGTH_DELIMITED"],
   flags |-> [num |-> 7, wire |-> "VARINT"], deviceId |-> [num |-> 8, wire |-> "VARINT"],
   modes |-> [num |-> 9, wire |-> "VARINT"]]

\* extractFieldBySpec(), per value type.
ExtractFieldBySpec(fields, name) ==
  LET num == Schema[name].num
      raw == ExtractNumberField(fields, num)
  IN  CASE name = "key" -> ExtractEntityKey(fields, num)
        [] name = "on" -> IF raw = Nothing THEN raw ELSE [raw EXCEPT !.is = "bool", !.n = IF @ = 0 THEN 0 ELSE 1]
        [] name = "float" -> ExtractTelemetryValue(fields, num)
        [] name = "text" -> ExtractStringField(fields, num)
        [] name = "sint" -> IF raw = Nothing THEN raw
                            ELSE LET s == ZigzagDecode(raw.n)
                                 IN  [raw EXCEPT !.is = IF s.negative THEN "negative" ELSE "number", !.n = s.n]
        [] name = "packed" ->
             LET v == ExtractStringField(fields, num)
             IN  IF v = Nothing THEN v ELSE [v EXCEPT !.is = "list", !.bytes = DecodePackedSint32(v.bytes)]
        [] name = "modes" -> ExtractRepeatedField(fields, num, "number")
        [] OTHER -> raw

Flags == [first |-> 0, second |-> 1]

\* decodeStateFromSchema(): absent fields are left out.  The packed bits come last: an absent
\* word leaves every flag alone, a word of zero clears them.
DecodeState(fields) ==
  [name \in DOMAIN Schema |-> ExtractFieldBySpec(fields, name)] @@
  [flag \in DOMAIN Flags |->
     LET packed == ExtractNumberField(fields, Schema.flags.num)
     IN  IF packed = Nothing THEN Nothing
         ELSE [packed EXCEPT !.is = "bool", !.n = IF Flags[flag] \in Bits(packed.n) THEN 1 ELSE 0]]

-----------------------------------------------------------------------------
(* What a device may say: a field, and what it means to its reader. *)

Says(name, wire, meant) == [name |-> name, meant |-> meant, field |-> Field(Schema[name].num, Schema[name].wire, wire)]
Same(name, value) == Says(name, value, value)
As(is, value) == [value EXCEPT !.is = is]
Signed(s) == As(IF s.negative THEN "negative" ELSE "number", NumberValue(s.n))

Greatest == 2 ^ (Word - 1) - 1
Four == [i \in 1..Fixed32 |-> i]

Sayings ==
  {Same("key", BufferValue(Four)), Says("float", BufferValue(Four), As("float", BufferValue(Four)))}
  \cup {Says("on", NumberValue(n), As("bool", NumberValue(IF n = 0 THEN 0 ELSE 1))) : n \in {0, 1}}
  \cup {Same("text", BufferValue(b)) : b \in {<<>>, Four, <<7>>}}
  \cup {Says("sint", NumberValue(ZigzagEncode(s)), Signed(s)) :
          s \in {Sint(TRUE, 1), Sint(TRUE, Greatest + 1), Sint(FALSE, Greatest)}}
  \cup {Says("packed", BufferValue(EncodePackedSint32(v)), [is |-> "list", n |-> 0, bytes |-> v]) :
          v \in {<<>>, <<Sint(TRUE, Greatest), Sint(FALSE, 1)>>}}
  \cup {Same("flags", NumberValue(n)) : n \in {0, 2}}
  \cup {Same("deviceId", NumberValue(2 * Greatest + 1))}
  \cup {Same("modes", NumberValue(n)) : n \in {0, 5}}

\* A field outside the schema: of another wire type, or one that cannot be sent.
Foreign ==
  {Field(10, "FIXED64", DoubleValue([i \in 1..Fixed64 |-> 0])), Field(10, "START_GROUP", NumberValue(0)),
   Field(10, "VARINT", As("big", NumberValue(2 ^ Word + 5))), Field(10, "FIXED32", As("big", NumberValue(1)))}

Strange == {[name |-> "foreign", meant |-> Nothing, field |-> f] : f \in Foreign}

Fields(sayings) == [i \in 1..Len(sayings) |-> sayings[i].field]
Encoded(sayings) == FlattenSeq([i \in 1..Len(sayings) |-> EncodeField(sayings[i].field)])

-----------------------------------------------------------------------------
Init ==
  /\ message = <<>> /\ buffer = <<>> /\ damage = "none" /\ limit \in Limits
  /\ offset = 0 /\ decoded = <<>> /\ verdict = "composing" /\ state = <<>>

Add(saying) ==
  /\ verdict = "composing" /\ Len(message) < MaxSent
  /\ message' = Append(message, saying)
  /\ UNCHANGED <<buffer, damage, offset, decoded, verdict, limit, state>>

\* The client's encodeProtoFields() throws at the first field it cannot send ...
EncodeProtoFields ==
  /\ verdict = "composing"
  /\ LET wrong == {i \in 1..Len(message) : EncodingError(message[i].field) # "none"}
     IN  IF wrong = {} THEN verdict' = "decoding" /\ buffer' = Encoded(message)
         ELSE verdict' = EncodingError(message[Min(wrong)].field) /\ UNCHANGED buffer
  /\ UNCHANGED <<message, damage, offset, decoded, limit, state>>

\* ... a device sends what it likes.
DeviceEncodes ==
  /\ verdict = "composing" /\ \A i \in 1..Len(message) : EncodingError(message[i].field) # "FIXED32_BIGINT"
  /\ verdict' = "decoding" /\ buffer' = Encoded(message)
  /\ UNCHANGED <<message, damage, offset, decoded, limit, state>>

Cut(n) ==
  /\ verdict = "decoding" /\ offset = 0 /\ damage = "none"
  /\ damage' = "cut" /\ buffer' = SubSeq(buffer, 1, n)
  /\ UNCHANGED <<message, offset, decoded, verdict, limit, state>>

Garble(i, byte) ==
  /\ verdict = "decoding" /\ offset = 0 /\ damage = "none" /\ byte # buffer[i]
  /\ damage' = "garbled" /\ buffer' = [buffer EXCEPT ![i] = byte]
  /\ UNCHANGED <<message, offset, decoded, verdict, limit, state>>

\* decodeProtobuf(): an unknown wire type is warned of and ends the loop without an error.
DecodeField ==
  /\ verdict = "decoding" /\ offset < Len(buffer)
  /\ LET field == FieldAt(buffer, offset)[1]
     IN  CASE field.error = "UNSUPPORTED" -> verdict' = "done" /\ UNCHANGED <<offset, decoded>>
           [] field.error \notin {"none", "UNSUPPORTED"} -> verdict' = field.error /\ UNCHANGED <<offset, decoded>>
           [] field.error = "none" /\ Len(decoded) = limit ->
                verdict' = "TOO_MANY_FIELDS" /\ UNCHANGED <<offset, decoded>>
           [] OTHER -> /\ decoded' = Append(decoded, field) /\ offset' = FieldAt(buffer, offset)[2]
                       /\ UNCHANGED verdict
  /\ UNCHANGED <<message, buffer, damage, limit, state>>

DecodeEnds ==
  /\ verdict = "decoding" /\ offset >= Len(buffer)
  /\ verdict' = "done"
  /\ UNCHANGED <<message, buffer, damage, offset, decoded, limit, state>>

Interpret ==
  /\ verdict = "done"
  /\ verdict' = "read" /\ state' = DecodeState(decoded)
  /\ UNCHANGED <<message, buffer, damage, offset, decoded, limit>>

Next ==
  \/ \E s \in Sayings \cup Strange : Add(s)
  \/ EncodeProtoFields \/ DeviceEncodes \/ DecodeField \/ DecodeEnds \/ Interpret
  \/ \E n \in 0..Len(buffer) - 1 : Cut(n)
  \/ \E i \in 1..Len(buffer), b \in Byte : Garble(i, b)

Spec == Init /\ [][Next]_vars

-----------------------------------------------------------------------------
\* What the reader of the first k fields should see: the first of each name, all of the modes,
\* and the flags of the first word.
Meaning(k) ==
  LET Mine(name) == {i \in 1..k : message[i].name = name}
      One(name) == IF Mine(name) = {} THEN Nothing ELSE message[Min(Mine(name))].meant
      Flag(b) == IF One("flags") = Nothing THEN Nothing
                 ELSE As("bool", NumberValue(IF b \in Bits(One("flags").n) THEN 1 ELSE 0))
      modes == Collected([i \in 1..k |-> message[i].meant.n], Mine("modes"))
  IN  [name \in DOMAIN Schema |->
         IF name = "modes" /\ modes # <<>> THEN [is |-> "list", n |-> 0, bytes |-> modes] ELSE One(name)] @@ [flag \in DOMAIN Flags |-> Flag(Flags[flag])]

\* The fields in front of the first one whose wire type the decoder does not know.
Known ==
  LET groups == {i \in 1..Len(message) : message[i].field.wire = "START_GROUP"}
  IN  IF groups = {} THEN Len(message) ELSE Min(groups) - 1

\* Bytes that were not damaged are read as what was meant, whatever mixture of fields, widths
\* and signs, up to a field of an unknown kind; the limit is the first number refused.
MessagesSurvive ==
  damage = "none" =>
    /\ verdict = "read" => Len(decoded) = Known /\ state = Meaning(Known)
    /\ verdict = "TOO_MANY_FIELDS" <=> verdict \notin {"composing", "decoding"} /\ buffer # <<>> /\ Len(decoded) = limit /\ Known > limit
    /\ verdict \in {"composing", "decoding", "done", "read", "TOO_MANY_FIELDS"} \/ buffer = <<>>

\* A message that lost its end is refused, or is the message of its first fields.
CutsAreSeen ==
  damage = "cut" /\ verdict = "read" =>
    \E k \in 0..Known : state = Meaning(k) /\ (k < Known => buffer = Encoded(SubSeq(message, 1, k)))

\* Whatever the bytes are, the decoder reads none beyond them and keeps no more than the limit.
DecoderIsBounded == offset <= Len(buffer) /\ Len(decoded) <= limit

\* A uint64 is read in full by the reader made for it.
WideNumbersSurvive ==
  \A i \in 1..Len(message) :
    message[i].field.value.is = "big" =>
      ReadVarintBigInt(EncodeVarintBigInt(message[i].field.value.n), 0) = message[i].field.value.n
=============================================================================
