--------------------------- MODULE BluetoothCodec ---------------------------
(***************************************************************************)
(* The Bluetooth API reads its messages with readers of its own: a loop    *)
(* over the items of a payload for each of them, since an address is 64    *)
(* bits wide.  They differ in their fields only, so a reader is a table    *)
(* here: for each name the number, the wire type and how the value is      *)
(* read.  An item is [n, w, v]; "cut" is a varint that does not end, and   *)
(* bytes are opaque, or the items of a nested message.  A length beyond    *)
(* the end of the payload is no error: what there is is taken.             *)
(***************************************************************************)
EXTENDS Naturals, Sequences, SequencesExt

CONSTANTS
  Null,   \* what a reader returns of a payload it cannot read
  Word    \* 2^32, made small: readVarint() keeps that much, readVarintBigInt() all

Field(n, w, as) == [n |-> n, w |-> w, as |-> as]
Address == Field(1, "varint", "wide")
Handle == Field(2, "varint", "narrow")

AddressHandleData == [address |-> Address, handle |-> Handle, data |-> Field(3, "bytes", "bytes")]
AddressAndHandle == [address |-> Address, handle |-> Handle]
AddressHandleAndError == [address |-> Address, handle |-> Handle, error |-> Field(3, "varint", "narrow")]
AddressFlagAndError == [address |-> Address, flag |-> Field(2, "varint", "flag"), error |-> Field(3, "varint", "narrow")]
AddressAndError == [address |-> Address, error |-> Field(2, "varint", "narrow")]

\* Mutant: the address is read as a word.
AddressWithFlagsNarrow ==
  [address |-> Field(1, "varint", "narrow"), connected |-> Field(2, "varint", "flag"), mtu |-> Field(3, "varint", "narrow"),
   error |-> Field(4, "varint", "narrow")]

AddressWithFlags == [address |-> Address, connected |-> Field(2, "varint", "flag"), mtu |-> Field(3, "varint", "narrow"),
                     error |-> Field(4, "varint", "narrow")]
ServicesResponse == [address |-> Address, services |-> Field(2, "bytes", "nested")]
Advertisement == [address |-> Address, rssi |-> Field(2, "varint", "zigzag"), addressType |-> Field(3, "varint", "narrow"),
                  data |-> Field(4, "bytes", "bytes")]
Service == [uuid |-> Field(1, "varint", "repeated"), handle |-> Handle, characteristics |-> Field(3, "bytes", "nested"),
            shortUuid |-> Field(4, "varint", "optional")]
Characteristic == [uuid |-> Field(1, "varint", "repeated"), handle |-> Handle, properties |-> Field(3, "varint", "narrow"),
                   descriptors |-> Field(4, "bytes", "nested"), shortUuid |-> Field(5, "varint", "optional")]
Descriptor == [uuid |-> Field(1, "varint", "repeated"), handle |-> Handle, shortUuid |-> Field(3, "varint", "optional")]

\* readVarint() throws on a varint that is cut, and a fixed-width item has no reader.
Unreadable(item) == item.w \in {"cut", "fixed"}
Readable(payload) == \A i \in DOMAIN payload : ~Unreadable(payload[i])

\* The items of a field: its number and its wire type, whatever else has the one or the other.
Items(payload, field) == SelectSeq(payload, LAMBDA item : item.n = field.n /\ item.w = field.w)

Zigzag(v) == IF v % 2 = 0 THEN v \div 2 ELSE 0 - (v + 1) \div 2

Interpreted(as, v) ==
  CASE as \in {"narrow", "optional"} -> v % Word
    [] as = "flag" -> (v % Word) = 1
    [] as = "zigzag" -> Zigzag(v % Word)
    [] OTHER -> v

\* The last item of a field counts, and without one it has its default.
Single(payload, field) ==
  LET items == Items(payload, field)
  IN  IF items # <<>> THEN Interpreted(field.as, Last(items).v)
      ELSE CASE field.as = "flag" -> FALSE
             [] field.as = "bytes" -> <<>>
             [] OTHER -> 0

Values(payload, field) == [i \in DOMAIN Items(payload, field) |-> Items(payload, field)[i].v]

\* The loop, for a table.  An optional field without an item stays absent; of the nested messages
\* those that cannot be read are left out.
Read(table, payload, Nested(_)) ==
  LET absent == {f \in DOMAIN table : table[f].as \in {"optional", "repeated"} /\ Items(payload, table[f]) = <<>>}
      value(f) ==
        CASE table[f].as = "repeated" -> Values(payload, table[f])
          [] table[f].as = "nested" ->
               LET read == [i \in DOMAIN Items(payload, table[f]) |-> Nested(Items(payload, table[f])[i].v)]
               IN  SelectSeq(read, LAMBDA r : r # Null)
          [] OTHER -> Single(payload, table[f])
  IN  IF Readable(payload) THEN [f \in DOMAIN table \ absent |-> value(f)] ELSE Null

NoNested(payload) == Null

DecodeDescriptor(payload) == Read(Descriptor, payload, NoNested)
DecodeCharacteristic(payload) == Read(Characteristic, payload, DecodeDescriptor)
DecodeService(payload) == Read(Service, payload, DecodeCharacteristic)
DecodeAdvertisement(payload) == Read(Advertisement, payload, NoNested)

\* A message about a peripheral must have its address.
Decode(table, payload) ==
  IF Items(payload, Address) = <<>> THEN Null ELSE Read(table, payload, DecodeService)

\* acceptAdvertisementsBatch(): what cannot be read is skipped.
AdvertisementsOf(entries) ==
  SelectSeq([i \in DOMAIN entries |-> DecodeAdvertisement(entries[i])], LAMBDA a : a # Null)

\* These two stop at what they cannot read and keep what they have.
BeforeDamage(payload) ==
  LET bad == {i \in DOMAIN payload : Unreadable(payload[i])}
  IN  SubSeq(payload, 1, IF bad = {} THEN Len(payload) ELSE (CHOOSE i \in bad : \A j \in bad : i <= j) - 1)

DecodeAddressOnly(payload) ==
  LET items == Items(BeforeDamage(payload), Address) IN IF items = <<>> THEN Null ELSE items[1].v

DecodeRepeatedUint64Field(payload, n) == Values(BeforeDamage(payload), Field(n, "varint", "repeated"))

-----------------------------------------------------------------------------
(* Payloads of a device that speaks a later version, and of one that is broken. *)

Mac == Word + 1

Varint(n, v) == [n |-> n, w |-> "varint", v |-> v]
Bytes(n, v) == [n |-> n, w |-> "bytes", v |-> v]

Unknown == <<Varint(9, 1), Bytes(9, <<>>), Bytes(1, <<>>)>>
Damage == {[n |-> 3, w |-> "cut", v |-> 0], [n |-> 3, w |-> "fixed", v |-> 0]}
Payloads == <<<<Varint(1, Mac), Varint(2, 1), Bytes(3, <<7>>)>>, <<Varint(1, Mac), Bytes(3, <<7>>), Varint(2, 3)>>>>
Descriptors == {<<Varint(1, Mac), Varint(1, 5), Varint(2, 1)>>, <<Varint(2, 1), Varint(3, 6)>>}
Insert(payload, i, item) == SubSeq(payload, 1, i) \o <<item>> \o SubSeq(payload, i + 1, Len(payload))

\* A later version's fields change nothing, anywhere, in any message, for any reader.
UnknownFieldsAreSkipped ==
  \A p \in Range(Payloads) \cup Descriptors, u \in DOMAIN Unknown : \A i \in 0..Len(p) :
    LET q == Insert(p, i, Unknown[u]) IN
      /\ \A t \in {AddressHandleData, AddressAndHandle, AddressWithFlags, AddressAndError, ServicesResponse} :
           Decode(t, q) = Decode(t, p)
      /\ DecodeDescriptor(q) = DecodeDescriptor(p) /\ DecodeAdvertisement(q) = DecodeAdvertisement(p)
      /\ DecodeAddressOnly(q) = DecodeAddressOnly(p)

\* An address keeps all of its bits, in every message that has one, in whichever order.
AddressesAreWhole ==
  \A p \in Range(Payloads) :
    /\ \A t \in {AddressHandleData, AddressAndHandle, AddressHandleAndError, AddressFlagAndError, AddressAndError,
                 AddressWithFlags} : Decode(t, p).address = Mac
    /\ DecodeAdvertisement(p).address = Mac /\ DecodeAddressOnly(p) = Mac
    /\ DecodeRepeatedUint64Field(p \o p, 1) = <<Mac, Mac>>

\* Damage costs the innermost message that has it: its neighbours, and what contains it, are read
\* as without it.
DamageStaysInside ==
  \A d, e \in Descriptors, x \in Damage : \A i \in 0..Len(d) :
    LET broken == Insert(d, i, x)
        characteristic(ds) == [k \in DOMAIN ds |-> Bytes(4, ds[k])]
    IN  /\ DecodeDescriptor(broken) = Null
        /\ DecodeCharacteristic(characteristic(<<d, broken, e>>)) = DecodeCharacteristic(characteristic(<<d, e>>))
        /\ DecodeService(<<Bytes(3, characteristic(<<broken>>)), Varint(2, 4)>>).handle = 4
        /\ AdvertisementsOf(<<d, broken, e>>) = AdvertisementsOf(<<d, e>>)
=============================================================================
