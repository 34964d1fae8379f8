------------------------------ MODULE ScProto ------------------------------
(***************************************************************************)
(* The messages of SmartConfig (lib/core/scproto.cpp): what a phone puts   *)
(* in the password field when it configures the kit, and what parse()      *)
(* makes of it.                                                            *)
(*                                                                         *)
(* After the base64 text is decoded: a byte that names the encoding, four  *)
(* bytes of checksum, and the elements, each a type, a length and a value. *)
(* Every message has at least the five bytes of the header here.           *)
(***************************************************************************)
EXTENDS Naturals, SequencesExt

CONSTANTS Radix,         \* the number of values of a byte: 2^8
          BitXor(_, _),  \* exclusive or of two bytes
          Key            \* the pre-shared key of the device, from loadPsk; <<>> for none

Byte == 0 .. Radix - 1

\* A power of two has no factor in common with 31, which the hash multiplies with.
ASSUME RadixAssumption == /\ Radix \in Nat \ {0, 1}
                          /\ \E u \in Byte : (31 * u) % Radix = 1

\* Exclusive or with the same byte twice gives what was there.
ASSUME KeyAssumption == /\ \A a, b \in Byte : /\ BitXor(a, b) \in Byte
                                             /\ BitXor(BitXor(a, b), b) = a
                        /\ Key \in Seq(Byte)

\* The values of a word of four bytes.
Word == Radix * Radix * Radix * Radix
HeaderLength == 5

TYPE_PASSWORD == 1
TYPE_OWNER    == 2
TYPE_MODE     == 3
TYPE_OTA      == 4

-----------------------------------------------------------------------------
(* Checksum and encoding *)

\* (hash << 5) - hash + byte, in a word of four bytes.
HashCode(data) ==
  FoldLeft(LAMBDA hash, byte : (31 * hash + byte) % Word, 0, data)

\* Byte i of four, the most significant first.
HashByte(hash, i) ==
  (hash \div <<Radix * Radix * Radix, Radix * Radix, Radix, 1>>[i]) % Radix

CompareChecksum(hash, bytes) == \A i \in 1 .. 4 : bytes[i] = HashByte(hash, i)

\* Encoding 0 is clear text; every other one is an exclusive or with the key.
Clear(encoding, data) ==
  IF encoding = 0 THEN data
  ELSE [i \in DOMAIN data |-> BitXor(data[i], Key[((i - 1) % Len(Key)) + 1])]

-----------------------------------------------------------------------------
(* The elements.  commands is a HashMap: in order of insertion, and a later *)
(* value of a type takes the place of the earlier one.                      *)

Has(commands, type) == \E i \in DOMAIN commands : commands[i].type = type

Value(commands, type) ==
  commands[CHOOSE i \in DOMAIN commands : commands[i].type = type].value

\* Mutant: every element is appended.
PutAppended(commands, element) == Append(commands, element)

Put(commands, element) ==
  IF Has(commands, element.type)
  THEN [i \in DOMAIN commands |->
          IF commands[i].type = element.type THEN element ELSE commands[i]]
  ELSE Append(commands, element)

\* The loop: an element whose value would go beyond the data ends it.  The length
\* of a type that is the last byte is read beyond the data; any value ends the loop.
Elements(clear) ==
  LET size == Len(clear)
      from[i \in 1 .. size + 1] ==
        IF i + 1 > size \/ i + 1 + clear[i + 1] > size THEN <<>>
        ELSE <<[type |-> clear[i], value |-> SubSeq(clear, i + 2, i + 1 + clear[i + 1])]>>
             \o from[i + 2 + clear[i + 1]]
  IN from[1]

Parse(out) ==
  LET data == SubSeq(out, HeaderLength + 1, Len(out))
      keyMissing == out[1] # 0 /\ Key = <<>>
  IN IF ~keyMissing /\ CompareChecksum(HashCode(data), SubSeq(out, 2, HeaderLength))
     THEN FoldLeft(Put, <<>>, Elements(Clear(out[1], data)))
     ELSE <<>>

-----------------------------------------------------------------------------
(* The phone's side, which is not in the repository: it applies the inverse. *)

\* A phone that knows no key of the device sends clear text.
Encodings == IF Key = <<>> THEN {0} ELSE {0, 1}

ElementBytes(element) == <<element.type, Len(element.value)>> \o element.value

Text(elements) == FlattenSeq([i \in DOMAIN elements |-> ElementBytes(elements[i])])

Encode(encoding, elements) ==
  LET data == Clear(encoding, Text(elements))
  IN <<encoding>> \o [i \in 1 .. 4 |-> HashByte(HashCode(data), i)] \o data
=============================================================================
