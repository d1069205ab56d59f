----------------------------- MODULE TableCache ----------------------------
(***************************************************************************)
(* The inline cache of the instructions _OP_GET_LITERAL and                *)
(* _OP_SET_LITERAL (sqvm.cpp) for tables: one instruction, whose literal   *)
(* key is lit, runs on one table after another and remembers in its hint   *)
(* the type id of the table it last searched and the node it found.        *)
(***************************************************************************)
EXTENDS SQTable

VARIABLES
  lit,    \* the literal of the instruction
  hint    \* the hint word of the instruction: a type id and a node index

cvars == <<tab, ret, lit, hint>>

CTypeOK ==
  /\ TypeOK
  /\ lit \in StringKeys
  /\ hint \in [id : TypeIds, idx : Nat]

\* The literal is alive as long as the instruction: no other string of the
\* run has its address.
CInit ==
  /\ Init
  /\ lit \in {s \in StringKeys : \A k \in Keys : Addr[k] = Addr[s] => k = s}
  /\ hint = [id |-> <<>>, idx |-> 0]

\* The node that the instruction works on, NULL if it takes the slow path;
\* a hint is used without looking the key up.
Typed == tab.id # <<>>
Hit   == Typed /\ hint.id = tab.id
CachedNode ==
  IF Hit THEN hint.idx ELSE IF Typed THEN GetNode(tab, lit) ELSE NULL

Remember ==
  hint' = IF Typed /\ ~ Hit /\ CachedNode # NULL
          THEN [id |-> tab.id, idx |-> CachedNode]
          ELSE hint

GetLiteral ==
  /\ IF CachedNode # NULL
     THEN ret' = tab.val[CachedNode] /\ UNCHANGED tab
     ELSE Get(lit)
  /\ Remember
  /\ UNCHANGED lit

SetLiteral(v) ==
  /\ IF CachedNode # NULL
     THEN tab' = SetVal(tab, CachedNode, v) /\ ret' = TRUE
     ELSE Set(lit, v)
  /\ Remember
  /\ UNCHANGED lit

\* Other code changes the table.  Strings that are alive at the same time have
\* different addresses.
Elsewhere ==
  /\ Next
  /\ \A k, l \in KeysIn(tab') : Addr[k] = Addr[l] => k = l
  /\ UNCHANGED <<lit, hint>>

\* The instruction runs next on another table, made with any node count.
NewTable ==
  /\ \E n \in InitSizes : tab' = AllocNodes(n)
  /\ UNCHANGED <<ret, lit, hint>>

CNext ==
  \/ GetLiteral
  \/ \E v \in Vals : SetLiteral(v)
  \/ Elsewhere
  \/ NewTable

CSpec == CInit /\ [][CNext]_cvars

----------------------------------------------------------------------------

\* Whenever the type id of the table is the one of the hint, the hinted node
\* exists and holds the literal, whatever table the hint was made for: the
\* three asserts of GetNodeFromTypeHint, which release builds do not run.
HintIsRight ==
  Hit => hint.idx \in Nodes(tab) /\ tab.key[hint.idx] = lit
============================================================================
