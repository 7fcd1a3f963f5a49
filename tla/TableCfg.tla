------------------------------- MODULE TableCfg -------------------------------
(***************************************************************************)
(* The registry of the table classes (dbTable.cpp) as the macros of         *)
(* dbTableDef.h and dbStructDef.h fill it, and the checks its constructor   *)
(* makes.  A class is what the developer wrote twice: the members of the    *)
(* C++ struct, and the listing of them in the macro.  The layout of the     *)
(* members is that of a 64 bit Linux build with libstdc++.                  *)
(***************************************************************************)
EXTENDS Integers, SequencesExt

KeyType == {"MAIN", "INDEX", "NONE"}

(* The size and the alignment of a member.                                  *)
Scalar(bytes) == [size |-> bytes, align |-> bytes]
String == [size |-> 32, align |-> 8]
Vector == [size |-> 24, align |-> 8]

AlignUp(n, align) == ((n + align - 1) \div align) * align

Member == [size : Nat \ {0}, align : {1, 2, 4, 8}]

(* Where each of the members ends when the first may begin at from.         *)
MemberEnds(from, members) ==
  LET end[n \in 0 .. Len(members)] ==
        IF n = 0 THEN from
        ELSE AlignUp(end[n - 1], members[n].align) + members[n].size
  IN  end

EndOf(from, members) == MemberEnds(from, members)[Len(members)]

Offset(from, members, i) ==
  AlignUp(MemberEnds(from, members)[i - 1], members[i].align)

SizeOf(from, least, members) ==
  AlignUp(EndOf(from, members), Max({least} \cup {m.align : m \in Range(members)}))

(* BaseTable: a pointer to virtual functions and the uint16_t id.  Members  *)
(* of a derived class begin in the padding behind the id.                   *)
BaseEnd   == 10
BaseSize  == 16
BaseAlign == 8

StructOf(members) == [size  |-> SizeOf(0, 1, members),
                      align |-> Max({m.align : m \in Range(members)})]

-----------------------------------------------------------------------------
(* A listing has places of members, with the kind of key: some of the       *)
(* members, each once.                                                      *)

IsClass(c) ==
  /\ c.members \in Seq(Member)
  /\ c.list \in Seq([no : DOMAIN c.members, key : KeyType])
  /\ c.list # <<>>
  /\ \A i, j \in DOMAIN c.list : c.list[i].no = c.list[j].no => i = j

InSequence(members) == [i \in DOMAIN members |-> [no |-> i, key |-> "NONE"]]

Struct(members) == [members |-> members, list |-> InSequence(members)]

TableClass(id, members, keys) ==
  [id |-> id, members |-> members,
   list |-> [i \in DOMAIN members |->
               [no |-> i, key |-> IF i \in DOMAIN keys THEN keys[i] ELSE "NONE"]]]

u8  == Scalar(1)
u16 == Scalar(2)
u32 == Scalar(4)
u64 == Scalar(8)

ActorBrief   == <<u64, String>>
DbAttr       == <<u32, u32>>
DbItemBase   == <<u16, u16, u16, u16, u32>>
DbItem       == <<StructOf(DbItemBase), String>>
DbContainer  == <<u8, u8, Vector>>
DbEquipItem  == <<String, Vector>>
DbEquips     == <<Vector>>
DbActorAttr  == <<u32, u32, u32, u32, u32, u32>>
DbActorBase  == <<String, u16, u16, u16, u8, u32, u8, u8, u32, u32,
                  u16, u16, u16, u16, u16, u16>>
DbPlayerBase == <<u16, u16, u16, u16>>
DbSkill      == <<u32, u16, u16, u32>>
DbSkills     == <<Vector>>
DbActor      == <<StructOf(DbActorBase), StructOf(DbActorAttr),
                  StructOf(DbPlayerBase), StructOf(DbEquips), StructOf(DbItem),
                  StructOf(DbSkills)>>

AllStructInfo ==
  {Struct(s) : s \in {ActorBrief, DbAttr, DbEquipItem, DbEquips, DbActorAttr,
                      DbActorBase, DbPlayerBase, DbItemBase, DbItem, DbContainer,
                      DbSkill, DbSkills, DbActor}}

DbAccount == TableClass(1, <<String, String, Vector>>, <<"MAIN">>)
DbPlayer  == TableClass(2, <<u64, String, StructOf(DbActor), String>>,
                        <<"MAIN", "INDEX">>)

AllTableInfo == <<DbAccount, DbPlayer>>

-----------------------------------------------------------------------------
(* The checks: an L_ASSERT that fails ends the process.                     *)

Listed(c) == [i \in DOMAIN c.list |-> c.members[c.list[i].no]]

(* lastOffset <= pOffset for each field, starting with first.               *)
InOrder(c, from, first) ==
  LET place(i) == Offset(from, c.members, c.list[i].no)
  IN  \A i \in DOMAIN c.list :
        (IF i = 1 THEN first ELSE place(i - 1)) <= place(i)

InitTableCfg(tables) ==
  /\ \A i, j \in DOMAIN tables : tables[i].id = tables[j].id => i = j
  /\ \A i \in DOMAIN tables : /\ InOrder(tables[i], BaseEnd, BaseSize)
                              /\ Len(tables[i].list) < 255

(* Mutant of CheckMissField: the sizes of the members are added up and      *)
(* may be less than those of the class.                                     *)
CheckMissFieldSum(c) ==
  EndOf(BaseEnd, Listed(c)) <= EndOf(BaseEnd, c.members)

(* The class that has the listed fields only is as large as the class.      *)
CheckMissField(c) ==
  SizeOf(BaseEnd, BaseAlign, Listed(c)) = SizeOf(BaseEnd, BaseAlign, c.members)

CheckStructField(s) ==
  /\ SizeOf(0, 1, Listed(s)) = SizeOf(0, 1, s.members)
  /\ InOrder(s, 0, 0)

(* The constructor of TableCfg.                                             *)
Accepted(build) ==
  /\ InitTableCfg(build.tables)
  /\ \A i \in DOMAIN build.tables : CheckMissField(build.tables[i])
  /\ \A s \in build.structs : CheckStructField(s)

-----------------------------------------------------------------------------
(* What the registry is used for.                                           *)

MainKeys(c) == {i \in DOMAIN c.list : c.list[i].key = "MAIN"}

(* TryCreateTableSql: a table has a column for each listed field, and there *)
(* is no table without a main key.                                          *)
Creatable(c) == MainKeys(c) # {}
Columns(c)   == {c.list[i].no : i \in DOMAIN c.list}

(* What the checks are for: every member is listed, in order.  They compare *)
(* sizes, so they are sure of it only when no member can hide in padding.   *)
Complete(c) == [i \in DOMAIN c.list |-> c.list[i].no] = [i \in DOMAIN c.members |-> i]
Words(c)    == \A m \in Range(c.members) : m.align = 8
=============================================================================
