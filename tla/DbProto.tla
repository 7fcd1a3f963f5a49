------------------------------ MODULE DbProto ------------------------------
(***************************************************************************)
(* The wire between a business server (the process that links db_driver)   *)
(* and dbproxy_svr: the message structs of dbProto/proto.h and the two      *)
(* directions of their one TCP connection.  A packed row is abstracted to   *)
(* whether it fits the buffer it is packed into (see Size); what happens    *)
(* inside the buffer is the subject of module TablePack.                    *)
(***************************************************************************)
EXTENDS Integers, Sequences

CONSTANTS
  Table,      (* the tables of DB_ALL_TABLE_INFO                            *)
  SidMod,     (* number of values of a uint16_t sid: 65536 in the program   *)
  MaxRows     (* bound: rows one query may return                           *)

ASSUME SidModAssumption  == SidMod \in Nat \ {0}
ASSUME MaxRowsAssumption == MaxRows \in Nat

(* Requests that carry a sid and are answered with it ...                  *)
Tracked == {"insert", "query", "del"}
(* ... and those that do not: update_cs has no answer at all and            *)
(* excute_sql_cs is answered by sql_id.                                     *)
Plain == {"update", "sql"}

Kind == Tracked \cup Plain
Sid  == 0 .. SidMod - 1

(***************************************************************************)
(* How a request relates to the fixed buffer of a MsgPack:                  *)
(*   fits   it and whatever answers it can be packed whole;                 *)
(*   reply  the request fits, a row its answer carries may not (insert_sc   *)
(*          and del_sc have one byte less room than their _cs, and a row of *)
(*          the database may be longer than the object that selects it);    *)
(*   over   the request does not fit: TableCfg::Pack still reports success  *)
(*          and the damaged bytes are sent.                                 *)
(***************************************************************************)
Size == {"fits", "reply", "over"}

(* req is not on the wire: it numbers the requests so that properties can   *)
(* say which one a message belongs to.  Plain requests have no sid (0).     *)
Request == [kind: Kind, table: Table, size: Size, sid: Sid, req: Nat]

(* whole is FALSE for an answer whose row was cut while packing.            *)
Answer == [kind: Kind, table: Table, sid: Sid, req: Nat,
           ret: BOOLEAN, whole: BOOLEAN]

VARIABLES
  toSvr,      (* requests written by the driver, not yet handled            *)
  toDrv       (* answers written by the proxy, not yet handled              *)

wireVars == <<toSvr, toDrv>>

WireTypeOK ==
  /\ toSvr \in Seq(Request)
  /\ toDrv \in Seq(Answer)
=============================================================================
