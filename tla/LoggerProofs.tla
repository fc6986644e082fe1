------------------------------ MODULE LoggerProofs ------------------------------
(***************************************************************************)
(* What Logger promises for any number of threads, any list of categories  *)
(* and any number of versions: that zlog is not used after zlog_fini(),    *)
(* and that a lookup that no reload overlaps finds its category.           *)
(***************************************************************************)
EXTENDS Logger, SequenceTheorems, TLAPS

\* What the main thread has done decides what exists.
Order ==
    /\ main = "init" => ~initialized /\ zlog = "none" /\ task = "none"
    /\ main = "start" => initialized /\ zlog = "up" /\ task = "none"
    /\ main = "serve" => IF initialized THEN zlog = "up" /\ task # "none"
                                        ELSE zlog = "none" /\ task = "none"
    /\ main = "join" => initialized /\ zlog = "up" /\ task # "none"
    /\ main = "clear" => initialized /\ zlog = "down" /\ task = "done"
    /\ main = "gone" => ~initialized /\ task \in {"none", "done"}

\* A search goes on only between init() and fini().
SearchServed == \A t \in Threads : lookup[t] = "search" => main = "serve" /\ initialized

\* The table has every category that zlog gave, but for the rest of a reload.
TableComplete ==
    /\ initialized /\ task # "fill" => Categories \subseteq cats \cup denied
    /\ task = "fill" => \A n \in 1 .. filled : LogCategoryNames[n] \in cats \cup denied

IInv == TypeOK /\ Order /\ SearchServed /\ TableComplete /\ LookupsFindCategory

\* The categories, by their numbers.
LEMMA CategoryNumbers ==
  /\ Len(LogCategoryNames) \in Nat
  /\ \A n \in 1 .. Len(LogCategoryNames) : LogCategoryNames[n] \in Categories
  /\ \A c \in Categories : \E n \in 1 .. Len(LogCategoryNames) : c = LogCategoryNames[n]
<1>1. Len(LogCategoryNames) \in Nat /\ DOMAIN LogCategoryNames = 1 .. Len(LogCategoryNames)
  BY LoggerAssumption, LenProperties
<1> QED
  BY <1>1 DEF Categories

\* Before init() nothing exists.
LEMMA InitInv == Init => IInv
<1> SUFFICES ASSUME Init PROVE IInv
  OBVIOUS
<1>0. 0 \in 0 .. MaxVersion /\ 0 \in 0 .. Len(LogCategoryNames)
  BY CategoryNumbers, LoggerAssumption
<1>1. TypeOK
  BY <1>0, Zenon DEF Init, TypeOK
<1> QED
  BY <1>1 DEF Init, IInv, Order, SearchServed, TableComplete, LookupsFindCategory

\* The steps of the main thread: init() and fini().
LEMMA MainKeepsInv ==
  ASSUME IInv, MainStep \/ FiniAbsent \/ FiniBegin
  PROVE  IInv'
<1> USE DEF IInv, mainVars, fileVars, zlogVars, catVars, readers
<1>1. CASE InitFails
  BY <1>1 DEF InitFails, TypeOK, Order, SearchServed, TableComplete, LookupsFindCategory
<1>2. CASE InitSucceeds
  <2>1. TypeOK' /\ Order' /\ SearchServed' /\ LookupsFindCategory'
    BY <1>2 DEF InitSucceeds, TypeOK, Order, SearchServed, LookupsFindCategory
  <2>2. TableComplete'
    BY <1>2 DEF InitSucceeds, Order, TableComplete
  <2> QED
    BY <2>1, <2>2
<1>3. CASE StartThread
  BY <1>3 DEF StartThread, TypeOK, Order, SearchServed, TableComplete, LookupsFindCategory
<1>4. CASE FiniAbsent
  BY <1>4 DEF FiniAbsent, TypeOK, Order, SearchServed, TableComplete, LookupsFindCategory
<1>5. CASE FiniBegin
  BY <1>5 DEF FiniBegin, Searching, TypeOK, Order, SearchServed, TableComplete,
              LookupsFindCategory
<1>6. CASE FiniJoin
  BY <1>6 DEF FiniJoin, TypeOK, Order, SearchServed, TableComplete, LookupsFindCategory
<1>7. CASE FiniClear
  BY <1>7 DEF FiniClear, TypeOK, Order, SearchServed, TableComplete, LookupsFindCategory
<1> QED
  BY <1>1, <1>2, <1>3, <1>4, <1>5, <1>6, <1>7 DEF MainStep

\* The steps of the configuration thread.
LEMMA TaskKeepsInv ==
  ASSUME IInv, TaskStep
  PROVE  IInv'
<1> USE DEF IInv, mainVars, fileVars, zlogVars, catVars, readers
<1>1. CASE TaskLoop \/ TaskAccess \/ TaskRemove \/ TaskSleep
  BY <1>1 DEF TaskLoop, TaskAccess, TaskRemove, TaskSleep, TypeOK, Order, SearchServed,
              TableComplete, LookupsFindCategory
<1>2. CASE ReloadSucceeds \/ ReloadFails
  BY <1>2 DEF ReloadSucceeds, ReloadFails, TypeOK, Order, SearchServed, TableComplete,
              LookupsFindCategory
<1>3. CASE PreloadClear
  BY <1>3, CategoryNumbers DEF PreloadClear, Searching, TypeOK, Order, SearchServed,
              TableComplete, LookupsFindCategory
<1>4. CASE PreloadName
  <2> DEFINE name == LogCategoryNames[filled + 1]
  <2>1. /\ filled \in Nat /\ filled + 1 \in 1 .. Len(LogCategoryNames)
        /\ filled' = filled + 1 /\ name \in Categories
    BY <1>4, CategoryNumbers DEF PreloadName, TypeOK
  <2>2. /\ cats' \cup denied' = cats \cup denied \cup {name}
        /\ cats' \subseteq Categories /\ denied' \subseteq Categories
        /\ torn \subseteq torn' /\ torn' \subseteq Threads
    BY <1>4, <2>1 DEF PreloadName, Searching, TypeOK
  <2>3. TypeOK' /\ Order' /\ SearchServed' /\ LookupsFindCategory'
    BY <1>4, <2>1, <2>2 DEF PreloadName, TypeOK, Order, SearchServed, LookupsFindCategory
  <2>4. \A n \in 1 .. filled + 1 : n \in 1 .. filled \/ n = filled + 1
    BY <2>1
  <2>5. TableComplete'
    BY <1>4, <2>1, <2>2, <2>4 DEF PreloadName, TableComplete
  <2> QED
    BY <2>3, <2>5
<1>5. CASE PreloadEnd
  <2>1. TypeOK' /\ Order' /\ SearchServed' /\ LookupsFindCategory'
    BY <1>5 DEF PreloadEnd, TypeOK, Order, SearchServed, LookupsFindCategory
  <2>2. TableComplete'
    BY <1>5, CategoryNumbers DEF PreloadEnd, TableComplete
  <2> QED
    BY <2>1, <2>2
<1> QED
  BY <1>1, <1>2, <1>3, <1>4, <1>5 DEF TaskStep

\* The steps of the threads that log.
LEMMA LookupKeepsInv ==
  ASSUME IInv, NEW t \in Threads,
         LookupBegin(t) \/ \E name \in Categories : LookupEnd(t, name)
  PROVE  IInv'
<1> USE DEF IInv, mainVars, fileVars, zlogVars, catVars
<1>1. CASE LookupBegin(t)
  BY <1>1 DEF LookupBegin, TypeOK, Order, SearchServed, TableComplete, LookupsFindCategory
<1>2. ASSUME NEW name \in Categories, LookupEnd(t, name)
      PROVE  IInv'
  <2>1. PICK r \in Outcomes(t, name) : lookup' = [lookup EXCEPT ![t] = r]
    BY <1>2 DEF LookupEnd
  <2>2. r \in {"found", "denied", "missed", "crash"}
    BY <2>1 DEF Outcomes
  <2>3. torn \subseteq torn' /\ torn' \subseteq Threads
    BY <1>2 DEF LookupEnd, TypeOK
  <2>4. r \in {"missed", "crash"} => t \in torn'
    <3>1. CASE t \in torn
      BY <2>3, <3>1
    <3>2. CASE task = "fill"
      BY <1>2, <3>2 DEF LookupEnd
    <3>3. CASE t \notin torn /\ task # "fill"
      <4>1. initialized
        BY <1>2 DEF LookupEnd, SearchServed
      <4>2. name \in cats \cup denied
        BY <3>3, <4>1 DEF TableComplete
      <4> QED
        BY <2>1, <3>3, <4>2 DEF Outcomes
    <3> QED
      BY <3>1, <3>2, <3>3
  <2>5. TypeOK' /\ Order' /\ SearchServed' /\ TableComplete'
    BY <1>2, <2>1, <2>2, <2>3 DEF LookupEnd, TypeOK, Order, SearchServed, TableComplete
  <2>6. LookupsFindCategory'
    BY <2>1, <2>3, <2>4 DEF TypeOK, LookupsFindCategory
  <2> QED
    BY <2>5, <2>6
<1> QED
  BY <1>1, <1>2

\* Every step keeps the invariant.
LEMMA StepInv == IInv /\ [Next]_vars => IInv'
<1> SUFFICES ASSUME IInv, [Next]_vars PROVE IInv'
  OBVIOUS
<1>1. CASE UNCHANGED vars
  BY <1>1 DEF vars, mainVars, fileVars, zlogVars, catVars, readers, IInv, TypeOK, Order,
              SearchServed, TableComplete, LookupsFindCategory
<1>2. CASE Announce
  BY <1>2, LoggerAssumption
     DEF Announce, mainVars, zlogVars, catVars, readers, IInv, TypeOK, Order, SearchServed,
         TableComplete, LookupsFindCategory
<1> QED
  BY <1>1, <1>2, MainKeepsInv, TaskKeepsInv, LookupKeepsInv DEF Next

\* The invariant holds throughout.
THEOREM LoggerInvariant == Spec => []IInv
  BY InitInv, StepInv, PTL DEF Spec

\* Every variable of the logger keeps its type.
THEOREM LoggerTypes == Spec => []TypeOK
<1>1. IInv => TypeOK
  BY DEF IInv
<1> QED
  BY <1>1, LoggerInvariant, PTL

\* fini() joins the configuration thread before zlog_fini(), so that neither zlog nor
\* the table is used afterwards, wherever that thread was.
THEOREM ZlogOutlivesItsThread == Spec => []NoUseAfterFini
<1>1. IInv => NoUseAfterFini
  BY DEF IInv, TypeOK, Order, NoUseAfterFini
<1> QED
  BY <1>1, LoggerInvariant, PTL

\* get_category() loses no message but by a reload that overlaps it, for any number
\* of threads that log and any list of categories.
THEOREM LookupsAreServed == Spec => []LookupsFindCategory
<1>1. IInv => LookupsFindCategory
  BY DEF IInv
<1> QED
  BY <1>1, LoggerInvariant, PTL
=============================================================================
