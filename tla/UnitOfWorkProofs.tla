-------------------------- MODULE UnitOfWorkProofs --------------------------
(***************************************************************************)
(* Whose rows a transaction sees, for every number of users, pooled        *)
(* connections and database sessions.                                      *)
(***************************************************************************)
EXTENDS UnitOfWork, TLAPS

\* A database session serves one open transaction at a time.
OneEach ==
  \A c, d \in Connection :
    Open(c) /\ Open(d) /\ tx[c].backend = tx[d].backend => c = d

\* In session mode a transaction runs in the session of its connection.
AtHome == mode = "session" => \A c \in Connection : Open(c) => tx[c].backend = Home(c)

\* A latch is right unless a rollback took its setting back.
LatchRight ==
  mode = "session" =>
    \A c \in Connection \ undone : latch[c] # None => setting[Home(c)] = latch[c]

\* The inductive invariant behind OwnSettingOrUndone.
IInv == TypeOK /\ OneEach /\ AtHome /\ LatchRight /\ OwnSettingOrUndone

-----------------------------------------------------------------------------
\* What is known of an open transaction and of a closed one.
LEMMA OpenTx ==
  ASSUME PoolAssumption, TypeOK, NEW c \in Connection
  PROVE  /\ Open(c) => tx[c].user \in User /\ tx[c].backend \in Backend
                       /\ tx[c].before \in User \cup {None}
         /\ ~Open(c) => tx[c] = NoTx /\ tx[c].backend \notin Backend
BY DEF PoolAssumption, TypeOK, Open, NoTx

\* Closing the transaction of c leaves the others open as they are.
LEMMA CloseTx ==
  ASSUME TypeOK, NEW c \in Connection, tx' = [tx EXCEPT ![c] = NoTx]
  PROVE  /\ ~Open(c)'
         /\ \A d \in Connection \ {c} : tx'[d] = tx[d] /\ (Open(d)' <=> Open(d))
BY DEF TypeOK, Open

LEMMA BeginInv ==
  ASSUME PoolAssumption, IInv, NEW c \in Connection, NEW u \in User, Begin(c, u)
  PROVE  IInv'
<1>1. PICK b \in Backend :
        /\ ~Busy(b)
        /\ mode = "session" => b = Home(c)
        /\ setting' = IF Latched(c, u) THEN setting ELSE [setting EXCEPT ![b] = u]
        /\ latch' = IF Latched(c, u) THEN latch ELSE [latch EXCEPT ![c] = u]
        /\ tx' = [tx EXCEPT ![c] = [user |-> u, backend |-> b, before |-> setting[b]]]
  BY DEF Begin
<1>2. /\ ~Open(c) /\ mode' = mode
      /\ undone' = IF Latched(c, u) THEN undone ELSE undone \ {c}
  BY DEF Begin
<1> DEFINE new == [user |-> u, backend |-> b, before |-> setting[b]]
<1>3. /\ new \in [user : User, backend : Backend, before : User \cup {None}]
      /\ new.user = u /\ new.backend = b
  BY DEF IInv, TypeOK
<1>4. TypeOK'
  BY <1>1, <1>2, <1>3 DEF IInv, TypeOK
<1> HIDE DEF new
<1>5. /\ tx'[c] = new
      /\ \A d \in Connection \ {c} : tx'[d] = tx[d] /\ (Open(d)' <=> Open(d))
  BY <1>1 DEF IInv, TypeOK, Open, new
<1>6. \A d \in Connection : tx[d].backend # b
  BY <1>1 DEF Busy
<1>7. OneEach'
  BY <1>3, <1>5, <1>6 DEF IInv, OneEach
<1>8. AtHome'
  BY <1>1, <1>2, <1>3, <1>5 DEF IInv, AtHome
<1>9. LatchRight'
  <2> SUFFICES ASSUME mode = "session", NEW d \in Connection \ undone', latch'[d] # None
               PROVE  setting'[Home(d)] = latch'[d]
    BY <1>2 DEF LatchRight
  <2>1. CASE Latched(c, u)
    BY <1>1, <1>2, <2>1 DEF IInv, LatchRight
  <2>2. CASE ~Latched(c, u) /\ d = c
    BY <1>1, <1>2, <2>2 DEF IInv, TypeOK, PoolAssumption
  <2>3. CASE ~Latched(c, u) /\ d # c
    <3>1. Home(d) # b /\ Home(d) \in Backend /\ d \notin undone
      BY <1>1, <1>2, <2>3 DEF PoolAssumption
    <3> QED BY <1>1, <2>3, <3>1 DEF IInv, TypeOK, LatchRight
  <2> QED BY <2>1, <2>2, <2>3
<1>10. OwnSettingOrUndone'
  <2> SUFFICES ASSUME NEW d \in Connection, Open(d)', ~(mode = "session" /\ d \in undone')
               PROVE  setting'[tx'[d].backend] = tx'[d].user
    BY <1>2 DEF OwnSettingOrUndone
  <2>1. CASE d = c
    <3>1. CASE Latched(c, u)
      <4>1. /\ mode = "session" /\ latch[c] = u /\ u # None /\ c \notin undone
            /\ b = Home(c) /\ setting' = setting
        BY <1>1, <1>2, <2>1, <3>1 DEF Latched, PoolAssumption
      <4> QED BY <1>3, <1>5, <2>1, <4>1 DEF IInv, LatchRight
    <3>2. CASE ~Latched(c, u)
      BY <1>1, <1>3, <1>5, <2>1, <3>2 DEF IInv, TypeOK
    <3> QED BY <3>1, <3>2
  <2>2. CASE d # c
    <3>1. /\ Open(d) /\ tx'[d] = tx[d] /\ tx[d].backend # b
          /\ ~(mode = "session" /\ d \in undone)
      BY <1>2, <1>5, <1>6, <2>2
    <3>2. setting[tx[d].backend] = tx[d].user /\ tx[d].backend \in Backend
      BY <3>1, OpenTx DEF IInv, OwnSettingOrUndone
    <3> QED BY <1>1, <3>1, <3>2 DEF IInv, TypeOK
  <2> QED BY <2>1, <2>2
<1> QED BY <1>4, <1>7, <1>8, <1>9, <1>10 DEF IInv

LEMMA CommitInv ==
  ASSUME PoolAssumption, IInv, NEW c \in Connection, Commit(c)
  PROVE  IInv'
<1>1. tx' = [tx EXCEPT ![c] = NoTx] /\ UNCHANGED <<mode, setting, latch, undone>>
  BY DEF Commit
<1>2. TypeOK'
  BY <1>1 DEF IInv, TypeOK
<1>3. OneEach' /\ AtHome' /\ OwnSettingOrUndone'
  BY <1>1, CloseTx DEF IInv, OneEach, AtHome, OwnSettingOrUndone
<1> QED BY <1>1, <1>2, <1>3 DEF IInv, LatchRight

\* A transaction that ends taking back its setting disturbs no other one.
LEMMA TakeBack ==
  ASSUME PoolAssumption, IInv, NEW c \in Connection, Open(c),
         setting' = [setting EXCEPT ![tx[c].backend] = tx[c].before],
         tx' = [tx EXCEPT ![c] = NoTx], mode' = mode, undone \subseteq undone'
  PROVE  OneEach' /\ AtHome' /\ OwnSettingOrUndone'
<1>1. OneEach' /\ AtHome'
  BY CloseTx DEF IInv, OneEach, AtHome
<1>2. ASSUME NEW d \in Connection, Open(d)', ~(mode = "session" /\ d \in undone')
      PROVE  setting'[tx'[d].backend] = tx'[d].user
  <2>1. d # c /\ Open(d) /\ tx'[d] = tx[d] /\ ~(mode = "session" /\ d \in undone)
    BY <1>2, CloseTx DEF IInv
  <2>2. tx[d].backend # tx[c].backend /\ tx[d].backend \in Backend
    BY <2>1, OpenTx DEF IInv, OneEach
  <2> QED BY <2>1, <2>2 DEF IInv, TypeOK, OwnSettingOrUndone
<1> QED BY <1>1, <1>2 DEF OwnSettingOrUndone

LEMMA RollbackInv ==
  ASSUME PoolAssumption, IInv, NEW c \in Connection, Rollback(c)
  PROVE  IInv'
<1>1. /\ Open(c) /\ mode' = mode /\ latch' = latch
      /\ setting' = [setting EXCEPT ![tx[c].backend] = tx[c].before]
      /\ undone' = IF tx[c].before # setting[tx[c].backend] THEN undone \cup {c} ELSE undone
      /\ tx' = [tx EXCEPT ![c] = NoTx]
  BY DEF Rollback
<1>2. tx[c].backend \in Backend /\ tx[c].before \in User \cup {None}
  BY <1>1, OpenTx DEF IInv
<1>3. TypeOK'
  BY <1>1, <1>2 DEF IInv, TypeOK
<1>4. OneEach' /\ AtHome' /\ OwnSettingOrUndone'
  BY <1>1, TakeBack
<1>5. LatchRight'
  <2> SUFFICES ASSUME mode = "session", NEW d \in Connection \ undone', latch[d] # None
               PROVE  setting'[Home(d)] = latch[d]
    BY <1>1 DEF LatchRight
  <2>1. d \notin undone /\ setting[Home(d)] = latch[d]
    BY <1>1 DEF IInv, LatchRight
  <2>2. Home(d) = tx[c].backend => tx[c].before = setting[tx[c].backend]
    BY <1>1 DEF IInv, AtHome, PoolAssumption
  <2> QED BY <1>1, <1>2, <2>1, <2>2 DEF IInv, TypeOK, PoolAssumption
<1> QED BY <1>3, <1>4, <1>5 DEF IInv

LEMMA ReconnectInv ==
  ASSUME PoolAssumption, IInv, NEW c \in Connection, Reconnect(c)
  PROVE  IInv'
<1>1. /\ mode' = mode /\ undone' = undone /\ latch' = [latch EXCEPT ![c] = None]
      /\ tx' = [tx EXCEPT ![c] = NoTx]
  BY DEF Reconnect
<1>2. CASE mode = "session"
  <2>1. setting' = [setting EXCEPT ![Home(c)] = None] /\ Home(c) \in Backend
    BY <1>2 DEF Reconnect, PoolAssumption
  <2>2. TypeOK'
    BY <1>1, <2>1 DEF IInv, TypeOK
  <2>3. OneEach' /\ AtHome'
    BY <1>1, CloseTx DEF IInv, OneEach, AtHome
  <2>4. \A d \in Connection \ {c} : Home(d) \in Backend /\ Home(d) # Home(c)
                                      /\ setting'[Home(d)] = setting[Home(d)]
    BY <2>1 DEF IInv, TypeOK, PoolAssumption
  <2>5. LatchRight'
    <3>1. latch'[c] = None /\ \A d \in Connection \ {c} : latch'[d] = latch[d]
      BY <1>1 DEF IInv, TypeOK
    <3> QED BY <1>1, <1>2, <2>4, <3>1 DEF IInv, LatchRight
  <2>6. OwnSettingOrUndone'
    <3>1. ASSUME NEW d \in Connection, Open(d)', d \notin undone
          PROVE  setting'[tx'[d].backend] = tx'[d].user
      <4>1. d # c /\ Open(d) /\ tx'[d] = tx[d] /\ tx[d].backend = Home(d)
        BY <1>1, <1>2, <3>1, CloseTx DEF IInv, AtHome
      <4> QED BY <1>2, <2>4, <3>1, <4>1 DEF IInv, OwnSettingOrUndone
    <3> QED BY <1>1, <1>2, <3>1 DEF OwnSettingOrUndone
  <2> QED BY <2>2, <2>3, <2>5, <2>6 DEF IInv
<1>3. CASE mode # "session" /\ Open(c)
  <2>1. setting' = [setting EXCEPT ![tx[c].backend] = tx[c].before]
    BY <1>3 DEF Reconnect
  <2>2. tx[c].backend \in Backend /\ tx[c].before \in User \cup {None}
    BY <1>3, OpenTx DEF IInv
  <2>3. TypeOK'
    BY <1>1, <2>1, <2>2 DEF IInv, TypeOK
  <2>4. OneEach' /\ AtHome' /\ OwnSettingOrUndone'
    BY <1>1, <1>3, <2>1, TakeBack
  <2> QED BY <1>1, <1>3, <2>3, <2>4 DEF IInv, LatchRight
<1>4. CASE mode # "session" /\ ~Open(c)
  <2>1. setting' = setting
    BY <1>4 DEF Reconnect
  <2>2. TypeOK'
    BY <1>1, <2>1 DEF IInv, TypeOK
  <2>3. OneEach' /\ AtHome' /\ OwnSettingOrUndone'
    BY <1>1, <2>1, CloseTx DEF IInv, OneEach, AtHome, OwnSettingOrUndone
  <2> QED BY <1>1, <1>4, <2>2, <2>3 DEF IInv, LatchRight
<1> QED BY <1>2, <1>3, <1>4

LEMMA ReplaceInv ==
  ASSUME PoolAssumption, IInv, NEW b \in Backend, Replace(b)
  PROVE  IInv'
<1>1. /\ mode = "transaction" /\ setting' = [setting EXCEPT ![b] = None]
      /\ UNCHANGED <<mode, latch, tx, undone>>
      /\ \A c \in Connection : tx[c].backend # b
  BY DEF Replace, Busy
<1>2. TypeOK'
  BY <1>1 DEF IInv, TypeOK
<1>3. OneEach' /\ AtHome' /\ LatchRight'
  BY <1>1 DEF IInv, OneEach, AtHome, LatchRight, Open
<1>4. ASSUME NEW c \in Connection, Open(c) PROVE setting'[tx[c].backend] = tx[c].user
  BY <1>1, <1>4, OpenTx DEF IInv, TypeOK, OwnSettingOrUndone
<1>5. OwnSettingOrUndone'
  BY <1>1, <1>4 DEF OwnSettingOrUndone, Open
<1> QED BY <1>2, <1>3, <1>5 DEF IInv

\* The inductive invariant holds in every reachable state: types, one
\* transaction for each session, and latches that are right unless undone.
THEOREM InductiveInvariant == ASSUME PoolAssumption PROVE Spec => []IInv
<1>1. Init => IInv
  BY DEF Init, IInv, TypeOK, OneEach, AtHome, LatchRight, OwnSettingOrUndone, Open
<1>2. IInv /\ [Next]_vars => IInv'
  <2> SUFFICES ASSUME IInv, [Next]_vars PROVE IInv'
    OBVIOUS
  <2>1. CASE UNCHANGED vars
    BY <2>1 DEF vars, IInv, TypeOK, OneEach, AtHome, LatchRight, OwnSettingOrUndone, Open
  <2>2. CASE Next
    BY <2>2, BeginInv, CommitInv, RollbackInv, ReconnectInv, ReplaceInv DEF Next
  <2> QED BY <2>1, <2>2
<1> QED BY <1>1, <1>2, PTL DEF Spec

\* A transaction's policies compare with its own user: always with a pool in
\* transaction mode, and in session mode unless a rollback took back the last
\* setting made through the connection (the hook after_begin).
THEOREM SettingIsOwn == ASSUME PoolAssumption PROVE Spec => []OwnSettingOrUndone
<1>1. IInv => OwnSettingOrUndone
  BY DEF IInv
<1> QED BY <1>1, InductiveInvariant, PTL
=============================================================================
