------------------------ MODULE ConfigurationProofs -------------------------
(***************************************************************************)
(* For every set of codes and values: the settings in memory show what was *)
(* committed, and a query answers it.  ConfigInv is inductive: MemoryShows *)
(* alone is not, since a restart takes its settings from the file and sets *)
(* the history back to the last save.                                      *)
(***************************************************************************)
EXTENDS Configuration, TLAPS

USE ConfigurationAssumption

(* Where newer has no entry, Latched() shows what older shows. *)
LEMMA LatchedShows ==
    ASSUME NEW older \in Setting, NEW newer \in Setting
    PROVE  /\ Latched(older, newer) \in Setting
           /\ \A k \in Code : Shown(Latched(older, newer), k)
                                = IF newer[k] = Missing THEN Shown(older, k)
                                                        ELSE newer[k]
<1>1. Latched(older, newer) \in Setting
  BY DEF Latched, Get, Setting, Entry
<1>2. ASSUME NEW k \in Code
      PROVE  Latched(older, newer)[k] = IF newer[k] = Missing THEN older[k] ELSE newer[k]
  BY DEF Latched, Get
<1>3. QED
  BY <1>1, <1>2 DEF Shown, Get

(* A commit keeps what memory and history show the same. *)
LEMMA CommitShows ==
    ASSUME NEW old \in Setting, NEW past \in Setting, NEW new \in Setting,
           \A k \in Code : Shown(old, k) = Shown(past, k)
    PROVE  \A k \in Code : Shown(Latched(old, new), k) = Shown(Latched(past, new), k)
<1> SUFFICES ASSUME NEW k \in Code
             PROVE  Shown(Latched(old, new), k) = Shown(Latched(past, new), k)
  OBVIOUS
<1>1. Shown(Latched(old, new), k) = IF new[k] = Missing THEN Shown(old, k) ELSE new[k]
  BY LatchedShows
<1>2. Shown(Latched(past, new), k) = IF new[k] = Missing THEN Shown(past, k) ELSE new[k]
  BY LatchedShows
<1>3. QED
  BY <1>1, <1>2

LEMMA ConfigStep == ConfigInv /\ [Next]_vars => ConfigInv'
<1> SUFFICES ASSUME ConfigInv, [Next]_vars PROVE ConfigInv'
  OBVIOUS
<1> USE DEF ConfigInv, TypeOK, Phases, confVars, history
<1> Nothing \in Setting
  BY DEF Nothing, Setting, Entry
<1>1. CASE Boot
  BY <1>1 DEF Boot, MemoryShows, DiskShows, Restarted, Created, Shown, Get, Setting
<1>2. CASE CreateDefault
  <2>1. TypeOK' /\ MemoryShows' /\ Restarted' /\ Created'
    BY <1>2 DEF CreateDefault, MemoryShows, Restarted, Created
  <2>2. saved = Nothing /\ saved' = saved
    BY <1>2 DEF CreateDefault, Created
  <2>3. DiskShows'
    <3>1. CASE disk' = Nothing
      BY <2>2, <3>1 DEF DiskShows
    <3>2. CASE disk' = disk
      BY <2>2, <3>2 DEF DiskShows, Shown, Get
    <3>3. QED
      BY <1>2, <3>1, <3>2 DEF CreateDefault
  <2>4. QED
    BY <2>1, <2>3
<1>3. CASE Load
  BY <1>3 DEF Load, MemoryShows, DiskShows, Restarted, Created, Shown, Get, Setting, Parsed
<1>4. CASE LoadThrows
  BY <1>4 DEF LoadThrows, MemoryShows, DiskShows, Restarted, Created, Shown, Get
<1>5. CASE Crash
  BY <1>5 DEF Crash, MemoryShows, DiskShows, Restarted, Created, Shown, Get
<1>6. ASSUME NEW k \in Code, Query(k) PROVE ConfigInv'
  <2>1. /\ settings' \in Setting
        /\ answer' \in Entry
        /\ \A c \in Code : Shown(settings', c) = Shown(settings, c)
    BY <1>6 DEF Query, Setting, Entry, Shown, Get
  <2>2. QED
    BY <1>6, <2>1 DEF Query, MemoryShows, DiskShows, Restarted, Created, Shown, Get
<1>7. ASSUME NEW k \in Code, NEW v \in Arg, Set(k, v) PROVE ConfigInv'
  <2>1. scratch' \in Setting /\ staged' \in Setting
    BY <1>7 DEF Set, Setting, Entry
  <2>2. QED
    BY <1>7, <2>1 DEF Set, MemoryShows, DiskShows, Restarted, Created, Shown, Get
<1>8. CASE Commit
  <2>1. settings' \in Setting /\ committed' \in Setting
    BY <1>8, LatchedShows DEF Commit, Latch, MemoryShows
  <2>2. \A k \in Code : Shown(settings', k) = Shown(committed', k)
    BY <1>8, CommitShows DEF Commit, Latch, MemoryShows
  <2>3. QED
    BY <1>8, <2>1, <2>2 DEF Commit, MemoryShows, DiskShows, Restarted, Created
<1>9. CASE SaveOpen
  BY <1>9 DEF SaveOpen, MemoryShows, DiskShows, Restarted, Created, Shown, Get
<1>10. CASE SaveWrite
  <2>1. disk' = settings
    BY <1>10 DEF SaveWrite, Named, Setting
  <2>2. QED
    BY <1>10, <2>1 DEF SaveWrite, MemoryShows, DiskShows, Restarted, Created, Shown, Get
<1>11. CASE SaveOpenFails
  BY <1>11 DEF SaveOpenFails, MemoryShows, DiskShows, Restarted, Created, Shown, Get
<1>12. CASE SaveWriteFails
  BY <1>12 DEF SaveWriteFails, MemoryShows, DiskShows, Restarted, Created, Shown, Get
<1>13. CASE UNCHANGED vars
  BY <1>13 DEF vars, MemoryShows, DiskShows, Restarted, Created, Shown, Get
<1>14. QED
  BY <1>1, <1>2, <1>3, <1>4, <1>5, <1>6, <1>7, <1>8, <1>9, <1>10, <1>11, <1>12,
     <1>13 DEF Next

(* Whatever is staged, committed, saved or lost, memory shows what was     *)
(* committed and a whole file shows what was saved. *)
THEOREM ConfigurationCorrect == Spec => []ConfigInv
<1>1. Init => ConfigInv
  <2> SUFFICES ASSUME Init PROVE ConfigInv
    OBVIOUS
  <2>1. Nothing \in Setting
    BY DEF Nothing, Setting, Entry
  <2>2. disk = NoFile \/ disk \in Setting
    BY DEF Init, Setting, Entry
  <2>3. TypeOK
    BY <2>1, <2>2 DEF Init, TypeOK, Phases, Entry
  <2>4. QED
    BY <2>2, <2>3 DEF Init, ConfigInv, MemoryShows, DiskShows, Restarted, Created, Shown, Get
<1>2. QED
  BY <1>1, ConfigStep, PTL DEF Spec

(* A query answers what was last committed. *)
THEOREM QueriesAnswerCommitted == Spec => QueryIsCommitted
<1>1. ConfigInv /\ [Next]_vars
        => [\A k \in Code : Query(k) => answer' = Shown(committed, k)]_vars
  <2> SUFFICES ASSUME ConfigInv, NEW k \in Code, Query(k)
               PROVE  answer' = Shown(committed, k)
    OBVIOUS
  <2>1. answer' = Shown(settings, k)
    BY DEF Query, ConfigInv, TypeOK, Setting, Shown
  <2>2. QED
    BY <2>1 DEF Query, ConfigInv, MemoryShows
<1>2. QED
  BY <1>1, ConfigurationCorrect, PTL DEF Spec, QueryIsCommitted
=============================================================================
