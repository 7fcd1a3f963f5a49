------------------------------ MODULE TablePack ------------------------------
(***************************************************************************)
(* TableCfg::Pack and TableCfg::Unpack (dbTable.cpp) with the functions of  *)
(* dbStructPack.h: an object is packed into the room a message has left and *)
(* unpacked by the peer; and Field::Pack and Field::Unpack (dbTable.h): a   *)
(* struct field becomes the text of a column and comes back in a query.  A  *)
(* buffer is a sequence of bytes.                                           *)
(*                                                                         *)
(* The type of a field is a kind and the scalar types of an item.  A value  *)
(* is a sequence of items: one for a scalar ("value") and for a "struct",   *)
(* any number for a "vec" and for a "map", whose items are key and value in *)
(* the order the map is run through.  Structs within structs are packed one *)
(* after the other, so an item is as good as its members in a row.          *)
(***************************************************************************)
EXTENDS Integers, Sequences, FiniteSets, Functions

CONSTANTS
  Tables,       (* the registered classes: records of id and types          *)
  Numbers,      (* the values of a number that are explored                 *)
  Strings,      (* the values of a string                                   *)
  MaxItems,     (* bound: items in a vector or map                          *)
  NumWidth,     (* bytes of a number: 1, 2, 4 or 8 in the program           *)
  LenWidth,     (* bytes of a length: 4 in the program                      *)
  ColumnRoom,   (* bytes of a column's buffer: 2048 in the program          *)
  MaxRoom       (* bound: the room in a message                             *)

Byte == 0 .. 255

(* "enum" stands for the types dbStructPack.h has no Pack for: class Attr.  *)
Scalar == {"num", "str", "enum"}
Type   == [kind: {"value", "struct", "vec", "map"}, of: Seq(Scalar)]

(* A number with its lowest byte dropped, again and again.                  *)
Shifted(n, width) ==
  LET shift[i \in 0 .. width] == IF i = 0 THEN n ELSE shift[i - 1] \div 256
  IN  shift

(* n < 256 ^ width                                                          *)
HasWidth(n, width) == Shifted(n, width)[width] = 0

ASSUME PackAssumption ==
  /\ \A t \in Tables :
       /\ t.id \in Nat /\ HasWidth(t.id, 2)
       /\ t.types \in Seq(Type) /\ Len(t.types) < 255
       /\ \A i \in DOMAIN t.types :
            /\ t.types[i].of # <<>>
            /\ t.types[i].kind = "value" => t.types[i].of \in {<<"num">>, <<"str">>}
  /\ \A t, u \in Tables : t.id = u.id => t = u
  /\ NumWidth \in 1 .. 8 /\ LenWidth \in 1 .. 4
  /\ {MaxItems, ColumnRoom, MaxRoom} \subseteq Nat
  /\ 0 \in Numbers /\ Numbers \subseteq Nat
  /\ <<>> \in Strings /\ Strings \subseteq Seq(Byte)
  /\ \A n \in Numbers : HasWidth(n, NumWidth)
  /\ \A s \in Strings : HasWidth(Len(s), LenWidth)
  /\ \A n \in 0 .. MaxItems : HasWidth(n, LenWidth)

(* Every scalar is a sequence: a number is the sequence of itself.          *)
ScalarsOf(s) == IF s = "str" THEN Strings ELSE {<<n>> : n \in Numbers}
Zero(s)      == IF s = "str" THEN <<>> ELSE <<0>>
ZeroItem(of) == [j \in DOMAIN of |-> Zero(of[j])]

(* The sequences that have an element of each of the sets in turn.          *)
OneOfEach(sets) ==
  {x \in [DOMAIN sets -> UNION Range(sets)] : \A i \in DOMAIN sets : x[i] \in sets[i]}

ItemsOf(of) == OneOfEach([j \in DOMAIN of |-> ScalarsOf(of[j])])

IsMany(type) == type.kind \in {"vec", "map"}

ValuesOf(type) ==
  {v \in UNION {[1 .. n -> ItemsOf(type.of)] :
                  n \in IF IsMany(type) THEN 0 .. MaxItems ELSE {1}} :
     type.kind = "map" => \A i, j \in DOMAIN v : v[i][1] = v[j][1] => i = j}

Default(type) == IF IsMany(type) THEN <<>> ELSE <<ZeroItem(type.of)>>

Objects(t) ==
  {[id |-> t.id, fields |-> w] :
     w \in OneOfEach([i \in DOMAIN t.types |-> ValuesOf(t.types[i])])}

Null == [id |-> -1, fields |-> <<>>]

VARIABLES
  stage,      (* "new", "packed", "failed", "unpacked", "stored", "loaded"  *)
  table,      (* the class of obj                                           *)
  obj,        (* the object to send or to store                             *)
  room,       (* the bytes left for it in the message                       *)
  wire,       (* the bytes made of it, or of the one field column           *)
  column,     (* the field that is stored, 0 when the object is sent        *)
  back        (* what came back                                             *)

vars == <<stage, table, obj, room, wire, column, back>>

(* Little endian bytes of a number, and back.                               *)
ToBytes(n, width) == [i \in 1 .. width |-> Shifted(n, width)[i - 1] % 256]
LastBytes(b) ==   \* the numbers in the last k bytes
  LET from[k \in 0 .. Len(b)] ==
        IF k = 0 THEN 0 ELSE b[Len(b) + 1 - k] + 256 * from[k - 1]
  IN  from
FromBytes(b) == LastBytes(b)[Len(b)]

-----------------------------------------------------------------------------
(* Packing: cur and len are the bytes written and the room left.  L_COND:   *)
(* every function returns at the first piece that fails (ok becomes FALSE); *)
(* what was written before it stays.                                        *)

(* Mutant of Put: one byte more than there is room for.                     *)
PutOver(st, bytes) ==
  IF st.ok /\ Len(bytes) <= st.len + 1
  THEN [cur |-> st.cur \o bytes, len |-> st.len - Len(bytes), ok |-> TRUE]
  ELSE [st EXCEPT !.ok = FALSE]

(* What is written with one check of room.                                  *)
Put(st, bytes) ==
  IF st.ok /\ Len(bytes) <= st.len
  THEN [cur |-> st.cur \o bytes, len |-> st.len - Len(bytes), ok |-> TRUE]
  ELSE [st EXCEPT !.ok = FALSE]

(* Mutant of PutScalar: one check for the length and the body of a string.  *)
PutScalarWhole(st, s, x) ==
  CASE s = "num"  -> Put(st, ToBytes(x[1], NumWidth))
    [] s = "str"  -> Put(st, ToBytes(Len(x), LenWidth) \o x)
    [] s = "enum" -> [st EXCEPT !.ok = FALSE]

PutScalar(st, s, x) ==
  CASE s = "num"  -> Put(st, ToBytes(x[1], NumWidth))
    [] s = "str"  -> Put(Put(st, ToBytes(Len(x), LenWidth)), x)
    [] s = "enum" -> [st EXCEPT !.ok = FALSE]

(* After the first j members of an item, the first i items of a value.      *)
ItemPuts(st, of, x) ==
  LET put[j \in 0 .. Len(of)] ==
        IF j = 0 THEN st ELSE PutScalar(put[j - 1], of[j], x[j])
  IN  put
PutItem(st, of, x) == ItemPuts(st, of, x)[Len(of)]

ItemsPuts(st, of, v) ==
  LET put[i \in 0 .. Len(v)] ==
        IF i = 0 THEN st ELSE PutItem(put[i - 1], of, v[i])
  IN  put

(* A field, whatever became of the fields before it.                        *)
Counted(st, type, v) ==
  IF IsMany(type) THEN Put([st EXCEPT !.ok = TRUE], ToBytes(Len(v), LenWidth))
  ELSE [st EXCEPT !.ok = TRUE]
PutField(st, type, v) == ItemsPuts(Counted(st, type, v), type.of, v)[Len(v)]

(* Zero numbers and empty strings are left out, t_struct fields never are.  *)
IsSent(t, o, i) == t.types[i].kind # "value" \/ o.fields[i] # Default(t.types[i])

(* The fields to send among the first i.                                    *)
SentAmong(t, o) ==
  LET idx[i \in 0 .. Len(t.types)] ==
        IF i = 0 THEN <<>>
        ELSE IF IsSent(t, o, i) THEN Append(idx[i - 1], i) ELSE idx[i - 1]
  IN  idx

(* Mutant of FieldIdx: idx++ is reached for the packed fields only.          *)
FieldIdxPacked(t, o) ==
  [i \in 1 .. Cardinality({i \in DOMAIN t.types : IsSent(t, o, i)}) |-> i]

FieldIdx(t, o) == SentAmong(t, o)[Len(t.types)]

FieldsPuts(st, t, o, idx) ==
  LET put[m \in 0 .. Len(idx)] ==
        IF m = 0 THEN st
        ELSE PutField(put[m - 1], t.types[idx[m]], o.fields[idx[m]])
  IN  put

EndFlag(t, num) == (num + t.id) % 256

(* L_COND(len > field_num) is the one check of room whose result is used.   *)
HeaderFits(num) == room >= 3 /\ room - 3 > num

(* What Pack writes into r bytes, once there is room for the header.        *)
Header(t, idx) == ToBytes(t.id, 2) \o <<Len(idx)>> \o [m \in DOMAIN idx |-> idx[m] - 1]

Packed(t, o, r) ==
  LET idx  == FieldIdx(t, o)
      head == Header(t, idx)
      body == FieldsPuts([cur |-> head, len |-> r - Len(head), ok |-> TRUE],
                         t, o, idx)[Len(idx)]
  IN  Put([body EXCEPT !.ok = TRUE], <<EndFlag(t, Len(idx))>>).cur

Pack ==
  /\ stage = "new"
  /\ \/ /\ HeaderFits(Len(FieldIdx(table, obj)))
        /\ wire' = Packed(table, obj, room)
        /\ stage' = "packed"
     \/ /\ ~HeaderFits(Len(FieldIdx(table, obj)))
        /\ wire' = <<>>
        /\ stage' = "failed"
  /\ UNCHANGED <<table, obj, room, column, back>>

(* Mutant of ColumnText: resize(len) keeps as many bytes as were not used.  *)
ColumnTextRest(type, v) ==
  LET st == PutField([cur |-> <<>>, len |-> ColumnRoom, ok |-> TRUE], type, v)
  IN  SubSeq(st.cur \o [i \in 1 .. st.len |-> 0], 1, st.len)

(* Field::Pack: the result of packFun is ignored.                           *)
ColumnText(type, v) ==
  PutField([cur |-> <<>>, len |-> ColumnRoom, ok |-> TRUE], type, v).cur

StoreColumn(i) ==
  /\ stage = "new"
  /\ table.types[i].kind # "value"
  /\ column' = i
  /\ wire' = ColumnText(table.types[i], obj.fields[i])
  /\ stage' = "stored"
  /\ UNCHANGED <<table, obj, room, back>>

-----------------------------------------------------------------------------
(* Unpacking: cur is what is left to read; a result also has the value v    *)
(* and whether it could be read (ok).                                       *)

TakeBytes(cur, n) ==
  IF n <= Len(cur) THEN [cur |-> SubSeq(cur, n + 1, Len(cur)),
                         v |-> SubSeq(cur, 1, n), ok |-> TRUE]
  ELSE [cur |-> cur, v |-> <<>>, ok |-> FALSE]

TakeNum(cur, width) ==
  LET got == TakeBytes(cur, width)
  IN  [cur |-> got.cur, v |-> FromBytes(got.v), ok |-> got.ok]

TakeStr(cur) ==
  LET size == TakeNum(cur, LenWidth)
  IN  IF size.ok THEN TakeBytes(size.cur, size.v)
      ELSE [cur |-> cur, v |-> <<>>, ok |-> FALSE]

TakeScalar(s, cur) ==
  CASE s = "num"  -> LET got == TakeNum(cur, NumWidth)
                     IN  [cur |-> got.cur, v |-> <<got.v>>, ok |-> got.ok]
    [] s = "str"  -> TakeStr(cur)
    [] s = "enum" -> [cur |-> cur, v |-> <<>>, ok |-> FALSE]

(* The members one after the other, until one fails; it and the others stay *)
(* as the constructor left them.                                            *)
NextScalar(st, of, j) ==
  LET got == TakeScalar(of[j], st.cur)
  IN  IF ~st.ok THEN st
      ELSE [cur |-> got.cur, ok |-> got.ok,
            v |-> IF got.ok THEN [st.v EXCEPT ![j] = got.v] ELSE st.v]

ItemTakes(of, cur) ==
  LET read[j \in 0 .. Len(of)] ==
        IF j = 0 THEN [cur |-> cur, v |-> ZeroItem(of), ok |-> TRUE]
        ELSE NextScalar(read[j - 1], of, j)
  IN  read
TakeItem(of, cur) == ItemTakes(of, cur)[Len(of)]

(* A vector is resized first, so an item that fails leaves the rest zero; a *)
(* map gets complete items only.                                            *)
Resized(type, n) ==
  IF type.kind = "map" THEN <<>> ELSE [i \in 1 .. n |-> ZeroItem(type.of)]

NextItem(st, type, i) ==
  LET got == TakeItem(type.of, st.cur)
  IN  IF ~st.ok THEN st
      ELSE [cur |-> got.cur, ok |-> got.ok,
            v |-> IF type.kind # "map" THEN [st.v EXCEPT ![i] = got.v]
                  ELSE IF got.ok THEN Append(st.v, got.v) ELSE st.v]

ItemsTakes(type, cur, n) ==
  LET read[i \in 0 .. n] ==
        IF i = 0 THEN [cur |-> cur, v |-> Resized(type, n), ok |-> TRUE]
        ELSE NextItem(read[i - 1], type, i)
  IN  read

TakeField(type, cur) ==
  LET size == TakeNum(cur, LenWidth)
  IN  IF ~IsMany(type) THEN ItemsTakes(type, cur, 1)[1]
      ELSE IF size.ok THEN ItemsTakes(type, size.cur, size.v)[size.v]
      ELSE [cur |-> cur, v |-> <<>>, ok |-> FALSE]

NextField(st, t, i) ==
  LET got == TakeField(t.types[i], st.cur)
  IN  [cur |-> got.cur, fields |-> [st.fields EXCEPT ![i] = got.v]]

FieldsTakes(t, idx, cur) ==
  LET read[m \in 0 .. Len(idx)] ==
        IF m = 0 THEN [cur |-> cur, fields |-> [i \in DOMAIN t.types |-> Default(t.types[i])]]
        ELSE NextField(read[m - 1], t, idx[m])
  IN  read

(* The byte is compared with an int: uint8_t operands are promoted.         *)
Accepts(flag, num, id) == flag = num + (id % 256)

(* The last byte is read into endFlag, or endFlag keeps what was on the     *)
(* stack: any byte.                                                         *)
Unpack ==
  /\ stage = "packed"
  /\ LET id   == FromBytes(SubSeq(wire, 1, 2))
         num  == wire[3]
         t    == CHOOSE u \in Tables : u.id = id
         idx  == [i \in 1 .. num |-> wire[3 + i] + 1]
     IN  \E read \in {FieldsTakes(t, idx, SubSeq(wire, 4 + num, Len(wire)))[num]} :
         \E flag \in (IF read.cur = <<>> THEN Byte ELSE {read.cur[1]}) :
           back' = IF Accepts(flag, num, id) THEN [id |-> id, fields |-> read.fields]
                   ELSE Null
  /\ stage' = "unpacked"
  /\ UNCHANGED <<table, obj, room, wire, column>>

(* Field::Unpack, into an object from the factory.                          *)
LoadColumn ==
  /\ stage = "stored"
  /\ back' = [id |-> table.id,
              fields |-> [i \in DOMAIN table.types |->
                            IF i = column THEN TakeField(table.types[i], wire).v
                            ELSE Default(table.types[i])]]
  /\ stage' = "loaded"
  /\ UNCHANGED <<table, obj, room, wire, column>>

Init ==
  /\ stage = "new"
  /\ table \in Tables
  /\ obj \in Objects(table)
  /\ room \in 0 .. MaxRoom
  /\ wire = <<>>
  /\ column = 0
  /\ back = Null

Next ==
  \/ Pack
  \/ Unpack
  \/ \E i \in DOMAIN table.types : StoreColumn(i)
  \/ LoadColumn

Spec == Init /\ [][Next]_vars

-----------------------------------------------------------------------------
PackTypeOK ==
  /\ stage \in {"new", "packed", "failed", "unpacked", "stored", "loaded"}
  /\ table \in Tables
  /\ obj.id = table.id /\ DOMAIN obj.fields = DOMAIN table.types
  /\ room \in 0 .. MaxRoom
  /\ column \in 0 .. Len(table.types)
  /\ wire \in Seq(Byte)
  /\ Len(wire) <= IF column = 0 THEN room ELSE ColumnRoom
  /\ back = Null \/ (back.id = table.id /\ DOMAIN back.fields = DOMAIN table.types)

(* The sums of the first i sizes.                                           *)
Sums(sizes) ==
  LET sum[i \in 0 .. Len(sizes)] == IF i = 0 THEN 0 ELSE sum[i - 1] + sizes[i]
  IN  sum
Total(sizes) == Sums(sizes)[Len(sizes)]

(* The bytes of the format the comment of Pack gives.                       *)
ScalarSize(s, x)   == IF s = "str" THEN LenWidth + Len(x) ELSE NumWidth
ItemSize(of, x)    == Total([j \in DOMAIN of |-> ScalarSize(of[j], x[j])])
FieldSize(type, v) == (IF IsMany(type) THEN LenWidth ELSE 0)
                      + Total([i \in DOMAIN v |-> ItemSize(type.of, v[i])])
SentSizes(t, o) ==
  LET idx == FieldIdx(t, o)
  IN  [m \in DOMAIN idx |-> FieldSize(t.types[idx[m]], o.fields[idx[m]])]
ObjectSize(t, o) == 2 + 1 + Len(FieldIdx(t, o)) + Total(SentSizes(t, o)) + 1

Fits == ObjectSize(table, obj) <= room

FlagFits == (table.id % 256) + Len(FieldIdx(table, obj)) < 256

HasPack(type, v) == v = <<>> \/ "enum" \notin Range(type.of)

(* An object there is room for comes back as it was, the fields that were   *)
(* left out with their default (whenever the end flag needs no truncation   *)
(* and there is a Pack for every member).                                   *)
RoundTrip ==
  /\ stage = "unpacked" /\ Fits /\ FlagFits
  /\ \A i \in DOMAIN table.types : HasPack(table.types[i], obj.fields[i])
  => back = obj

(* What is left of a value of which the first a items come whole, and b     *)
(* members of the next: a vector keeps its length, a map has whole items.   *)
CutItem(of, x, b) == [j \in DOMAIN of |-> IF j <= b THEN x[j] ELSE Zero(of[j])]
CutAfter(type, v, a, b) ==
  IF type.kind = "map" THEN SubSeq(v, 1, a)
  ELSE [i \in DOMAIN v |-> IF i <= a THEN v[i]
                           ELSE CutItem(type.of, v[i], IF i = a + 1 THEN b ELSE 0)]

(* A vector or map of which not even the length came is empty.              *)
IsCut(type, sent, got) ==
  \/ got = Default(type)
  \/ \E a \in 0 .. Len(sent), b \in 0 .. Len(type.of) : got = CutAfter(type, sent, a, b)

(* When there is too little room the ends of fields are lost, but no field  *)
(* gets a value made of another field's bytes.  The packer skips what does  *)
(* not fit and the unpacker, with the same bytes left, fails at the same    *)
(* places.                                                                  *)
NoForeignBytes ==
  stage = "unpacked" /\ back # Null =>
    \A i \in DOMAIN table.types :
      IsCut(table.types[i], obj.fields[i], back.fields[i])

(* A struct column is read back as it was stored if its bytes fit the       *)
(* buffer of Field::Pack, and otherwise with its end lost.                  *)
ColumnKept ==
  stage = "loaded" =>
    LET type == table.types[column]
        sent == obj.fields[column]
    IN  /\ IsCut(type, sent, back.fields[column])
        /\ HasPack(type, sent) /\ FieldSize(type, sent) <= ColumnRoom =>
             back.fields[column] = sent

-----------------------------------------------------------------------------
(* What the source says and the code does not do.                           *)

(* dbTable.cpp, Pack: the end flag is tableid+field_num cut to one byte.    *)
(* Unpack compares the byte with the sum that was not cut, so an object it  *)
(* should accept is refused when the sum is over 255.                       *)
EndFlagIsCut == stage = "unpacked" /\ Fits => back # Null
=============================================================================
