------------------------------ MODULE WebrtcTag ------------------------------
(***************************************************************************)
(* The serialized form of a WebrtcTag (model/webrtc-tag.cc): the sequence  *)
(* number and the time, each as a little-endian number of base 128 whose   *)
(* bytes have a flag that says whether another one follows.                *)
(***************************************************************************)
EXTENDS Sequences, Integers

CONSTANT Base  \* 128 in the code

ASSUME TagConstants == Base \in Nat \ {0, 1}

Byte == [digit : 0..(Base - 1), more : BOOLEAN]

\* 0 has no byte at all.
VarintEncode(value) ==
  LET code[v \in 0..value] ==
        IF v = 0 THEN <<>>
        ELSE <<[digit |-> v % Base, more |-> v \div Base > 0]>> \o code[v \div Base]
  IN  code[value]

\* The number that some bytes stand for, from the last digit, the greatest one.
Number(bytes) ==
  LET last[k \in 0..Len(bytes)] ==
        IF k = 0 THEN 0 ELSE bytes[Len(bytes) + 1 - k].digit + Base * last[k - 1]
  IN  last[Len(bytes)]

\* The bytes of the first number: up to the first without the flag.
FirstLength(bytes) ==
  CHOOSE n \in DOMAIN bytes : /\ ~bytes[n].more
                              /\ \A i \in 1..(n - 1) : bytes[i].more
VarintDecode(bytes) == Number(SubSeq(bytes, 1, FirstLength(bytes)))

\* Mutant: the flag is left out when exactly the base remains.
ShortEncode(value) ==
  LET code[v \in 0..value] ==
        IF v = 0 THEN <<>>
        ELSE <<[digit |-> v % Base, more |-> v > Base]>> \o code[v \div Base]
  IN  code[value]
SerializeShort(seq, time) == ShortEncode(seq) \o ShortEncode(time)

Serialize(seq, time) == VarintEncode(seq) \o VarintEncode(time)

\* Mutant: the time is read first.
DeserializeSwapped(bytes) ==
  [time |-> VarintDecode(bytes),
   seq |-> VarintDecode(SubSeq(bytes, FirstLength(bytes) + 1, Len(bytes)))]

Deserialize(bytes) ==
  [seq |-> VarintDecode(bytes),
   time |-> VarintDecode(SubSeq(bytes, FirstLength(bytes) + 1, Len(bytes)))]
==============================================================================
