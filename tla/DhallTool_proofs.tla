--------------------------- MODULE DhallTool_proofs ---------------------------
(***************************************************************************)
(* What holds of DhallTool for any number of processes, inodes and faults. *)
(***************************************************************************)
EXTENDS DhallTool, TLAPS

LEMMA TypeInit == Init => TypeOK
<1> SUFFICES ASSUME Init PROVE TypeOK
  OBVIOUS
<1>1. exec \in [Inode -> BOOLEAN] /\ overlapped \in BOOLEAN /\ spoiled \in BOOLEAN
  BY Zenon DEF Init
<1> QED BY <1>1 DEF Init, TypeOK, Entry

LEMMA TypeStep == TypeOK /\ [Next]_vars => TypeOK'
<1> SUFFICES ASSUME TypeOK, [Next]_vars PROVE TypeOK'
  OBVIOUS
<1> USE NoneAssumption DEF TypeOK, Entry, entries, files, history, Goto, Finish, Fault, Abandon
<1>1. ASSUME NEW p \in Process, RunFromPath(p) PROVE TypeOK'
  BY <1>1 DEF RunFromPath
<1>2. ASSUME NEW p \in Process, Begin(p) PROVE TypeOK'
  BY <1>2 DEF Begin
<1>3. ASSUME NEW p \in Process, CheckCache(p) PROVE TypeOK'
  BY <1>3 DEF CheckCache
<1>4. ASSUME NEW p \in Process, Download(p) PROVE TypeOK'
  BY <1>4 DEF Download
<1>5. ASSUME NEW p \in Process, DownloadFails(p) PROVE TypeOK'
  BY <1>5 DEF DownloadFails
<1>6. ASSUME NEW p \in Process, Verify(p) PROVE TypeOK'
  BY <1>6 DEF Verify
<1>7. ASSUME NEW p \in Process, Open(p) PROVE TypeOK'
  BY <1>7 DEF Open, Free
<1>8. ASSUME NEW p \in Process, Write(p) PROVE TypeOK'
  BY <1>8 DEF Write
<1>9. ASSUME NEW p \in Process, WriteFails(p) PROVE TypeOK'
  BY <1>9 DEF WriteFails
<1>10. ASSUME NEW p \in Process, Chmod(p) PROVE TypeOK'
  BY <1>10 DEF Chmod
<1>11. ASSUME NEW p \in Process, Replace(p) PROVE TypeOK'
  BY <1>11 DEF Replace
<1>12. ASSUME NEW p \in Process, Exec(p) PROVE TypeOK'
  BY <1>12 DEF Exec
<1>13. ASSUME NEW p \in Process, ExecFails(p) PROVE TypeOK'
  BY <1>13 DEF ExecFails
<1>14. ASSUME NEW p \in Process, Kill(p) PROVE TypeOK'
  BY <1>14 DEF Kill
<1>15. ASSUME NEW i \in Inode, WriteBack(i) PROVE TypeOK'
  BY <1>15 DEF WriteBack
<1>16. CASE PowerFailure
  BY <1>16 DEF PowerFailure
<1>17. CASE UNCHANGED vars
  BY <1>17 DEF vars
<1> QED BY <1>1, <1>2, <1>3, <1>4, <1>5, <1>6, <1>7, <1>8, <1>9, <1>10, <1>11, <1>12,
           <1>13, <1>14, <1>15, <1>16, <1>17 DEF Next, Step

\* Every reachable state is well typed; the cache entry and the partial file
\* are never the same inode.
THEOREM TypeCorrect == Spec => []TypeOK
BY TypeInit, TypeStep, PTL DEF Spec

-----------------------------------------------------------------------------
(* Only verified bytes are ever written.                                   *)

VerifiedInv ==
    /\ \A i \in Inode : data[i] # "other"
    /\ \A p \in Process : pc[p] \in {"open", "write"} => payload[p] = "pinned"

LEMMA VerifiedStep == TypeOK /\ VerifiedInv /\ [Next]_vars => VerifiedInv'
<1> SUFFICES ASSUME TypeOK, VerifiedInv, [Next]_vars PROVE VerifiedInv'
  OBVIOUS
<1> USE DEF TypeOK, Entry, VerifiedInv, entries, files, history, Goto, Finish, Fault, Abandon
<1>1. ASSUME NEW p \in Process, RunFromPath(p) PROVE VerifiedInv'
  BY <1>1 DEF RunFromPath
<1>2. ASSUME NEW p \in Process, Begin(p) PROVE VerifiedInv'
  BY <1>2 DEF Begin
<1>3. ASSUME NEW p \in Process, CheckCache(p) PROVE VerifiedInv'
  BY <1>3 DEF CheckCache
<1>4. ASSUME NEW p \in Process, Download(p) PROVE VerifiedInv'
  BY <1>4 DEF Download
<1>5. ASSUME NEW p \in Process, DownloadFails(p) PROVE VerifiedInv'
  BY <1>5 DEF DownloadFails
<1>6. ASSUME NEW p \in Process, Verify(p) PROVE VerifiedInv'
  BY <1>6 DEF Verify
<1>7. ASSUME NEW p \in Process, Open(p) PROVE VerifiedInv'
  BY <1>7 DEF Open
<1>8. ASSUME NEW p \in Process, Write(p) PROVE VerifiedInv'
  BY <1>8 DEF Write
<1>9. ASSUME NEW p \in Process, WriteFails(p) PROVE VerifiedInv'
  BY <1>9 DEF WriteFails
<1>10. ASSUME NEW p \in Process, Chmod(p) PROVE VerifiedInv'
  BY <1>10 DEF Chmod
<1>11. ASSUME NEW p \in Process, Replace(p) PROVE VerifiedInv'
  BY <1>11 DEF Replace
<1>12. ASSUME NEW p \in Process, Exec(p) PROVE VerifiedInv'
  BY <1>12 DEF Exec
<1>13. ASSUME NEW p \in Process, ExecFails(p) PROVE VerifiedInv'
  BY <1>13 DEF ExecFails
<1>14. ASSUME NEW p \in Process, Kill(p) PROVE VerifiedInv'
  BY <1>14 DEF Kill
<1>15. ASSUME NEW i \in Inode, WriteBack(i) PROVE VerifiedInv'
  BY <1>15 DEF WriteBack
<1>16. CASE PowerFailure
  BY <1>16 DEF PowerFailure
<1>17. CASE UNCHANGED vars
  BY <1>17 DEF vars
<1> QED BY <1>1, <1>2, <1>3, <1>4, <1>5, <1>6, <1>7, <1>8, <1>9, <1>10, <1>11, <1>12,
           <1>13, <1>14, <1>15, <1>16, <1>17 DEF Next, Step

LEMMA VerifiedInit == Init => VerifiedInv
BY DEF Init, VerifiedInv

\* Any number of processes, whatever fails: the cache never serves bytes that
\* were not checked against the pinned digest.
THEOREM CacheIsVerified == Spec => []CacheVerified
<1>1. TypeOK /\ VerifiedInv => CacheVerified
  BY DEF TypeOK, Entry, VerifiedInv, CacheVerified
<1> QED BY <1>1, TypeInit, TypeStep, VerifiedInit, VerifiedStep, PTL DEF Spec

-----------------------------------------------------------------------------
(* A short file that is or will be served has a writer.                    *)

Named == {target, partial} \ {None}

WriterInv == ~spoiled =>
    \A i \in Named : data[i] = "short" =>
        \/ \E p \in Process : fd[p] = i
        \/ i = partial /\ \A p \in Process : pc[p] \notin {"write", "chmod", "replace"}

LEMMA WriterStep ==
    TypeOK /\ VerifiedInv /\ WriterInv /\ [Next]_vars => WriterInv'
<1> SUFFICES ASSUME TypeOK, VerifiedInv, WriterInv, [Next]_vars PROVE WriterInv'
  OBVIOUS
<1> USE NoneAssumption DEF TypeOK, Entry, VerifiedInv, WriterInv, Named, entries, files, history, Goto, Finish, Fault, Abandon
<1>1. ASSUME NEW p \in Process, RunFromPath(p) PROVE WriterInv'
  BY <1>1 DEF RunFromPath
<1>2. ASSUME NEW p \in Process, Begin(p) PROVE WriterInv'
  BY <1>2 DEF Begin
<1>3. ASSUME NEW p \in Process, CheckCache(p) PROVE WriterInv'
  BY <1>3 DEF CheckCache
<1>4. ASSUME NEW p \in Process, Download(p) PROVE WriterInv'
  BY <1>4 DEF Download
<1>5. ASSUME NEW p \in Process, DownloadFails(p) PROVE WriterInv'
  BY <1>5 DEF DownloadFails
<1>6. ASSUME NEW p \in Process, Verify(p) PROVE WriterInv'
  BY <1>6 DEF Verify
<1>7. ASSUME NEW p \in Process, Open(p) PROVE WriterInv'
  BY <1>7 DEF Open
<1>8. ASSUME NEW p \in Process, Write(p) PROVE WriterInv'
  BY <1>8 DEF Write
<1>9. ASSUME NEW p \in Process, WriteFails(p) PROVE WriterInv'
  BY <1>9 DEF WriteFails
<1>10. ASSUME NEW p \in Process, Chmod(p) PROVE WriterInv'
  BY <1>10 DEF Chmod
<1>11. ASSUME NEW p \in Process, Replace(p) PROVE WriterInv'
  BY <1>11 DEF Replace
<1>12. ASSUME NEW p \in Process, Exec(p) PROVE WriterInv'
  BY <1>12 DEF Exec
<1>13. ASSUME NEW p \in Process, ExecFails(p) PROVE WriterInv'
  BY <1>13 DEF ExecFails
<1>14. ASSUME NEW p \in Process, Kill(p) PROVE WriterInv'
  BY <1>14 DEF Kill
<1>15. ASSUME NEW i \in Inode, WriteBack(i) PROVE WriterInv'
  BY <1>15 DEF WriteBack
<1>16. CASE PowerFailure
  BY <1>16 DEF PowerFailure
<1>17. CASE UNCHANGED vars
  BY <1>17 DEF vars
<1> QED BY <1>1, <1>2, <1>3, <1>4, <1>5, <1>6, <1>7, <1>8, <1>9, <1>10, <1>11, <1>12,
           <1>13, <1>14, <1>15, <1>16, <1>17 DEF Next, Step

\* Any number of processes: unless a failure came at the wrong moment, a cache
\* entry that is not whole is about to become so (write_bytes, chmod and replace
\* by name).
THEOREM BrokenIsBeingWritten == Spec => []BrokenHasWriter
<1>1. Init => WriterInv
  BY DEF Init, WriterInv, Named
<1>2. TypeOK /\ VerifiedInv /\ WriterInv => BrokenHasWriter
  BY DEF TypeOK, Entry, VerifiedInv, WriterInv, Named, BrokenHasWriter
<1> QED BY <1>1, <1>2, TypeInit, TypeStep, VerifiedInit, VerifiedStep, WriterStep, PTL
        DEF Spec

-----------------------------------------------------------------------------
(* Processes that do not overlap.                                          *)

\* The partial file is complete before it is made executable, and executable
\* before it takes the place of the cache entry.
Prepared(p) ==
    /\ pc[p] # "idle" => \A q \in Process \ {p} : pc[q] = "idle"
    /\ pc[p] = "write" => fd[p] = partial
    /\ pc[p] \in {"chmod", "replace"} => partial # None /\ data[partial] = "pinned"
    /\ pc[p] = "replace" => exec[partial]

Sound == ~spoiled /\ target # None => exec[target] /\ data[target] = "pinned"

SoundInv == ~overlapped =>
    /\ Sound
    /\ \A p \in Process : Prepared(p) /\ (faults = 0 => result[p] # "OSError")

LEMMA SoundStep == TypeOK /\ VerifiedInv /\ SoundInv /\ [Next]_vars => SoundInv'
<1> SUFFICES ASSUME TypeOK, VerifiedInv, SoundInv, [Next]_vars PROVE SoundInv'
  OBVIOUS
<1> USE NoneAssumption
    DEF TypeOK, Entry, VerifiedInv, SoundInv, Sound, Prepared,
        entries, files, history, Goto, Finish, Fault, Abandon
<1>1. ASSUME NEW p \in Process, RunFromPath(p) PROVE SoundInv'
  <2>1. PICK how \in {"ok", "DhallToolError"} : Finish(p, how)
    BY <1>1 DEF RunFromPath
  <2> QED BY <1>1, <2>1 DEF RunFromPath
<1>2. ASSUME NEW p \in Process, Begin(p) PROVE SoundInv'
  <2>1. ~overlapped' => ~overlapped /\ \A q \in Process \ {p} : pc[q] = "idle"
    BY <1>2, Zenon DEF Begin
  <2>2. /\ pc' = [pc EXCEPT ![p] = "check"] /\ result' = [result EXCEPT ![p] = "none"]
        /\ UNCHANGED <<target, partial, data, exec, fd, faults, spoiled>>
    BY <1>2 DEF Begin
  <2> QED BY <2>1, <2>2
<1>3. ASSUME NEW p \in Process, CheckCache(p) PROVE SoundInv'
  BY <1>3 DEF CheckCache
<1>4. ASSUME NEW p \in Process, Download(p) PROVE SoundInv'
  BY <1>4 DEF Download
<1>5. ASSUME NEW p \in Process, DownloadFails(p) PROVE SoundInv'
  BY <1>5 DEF DownloadFails
<1>6. ASSUME NEW p \in Process, Verify(p) PROVE SoundInv'
  BY <1>6 DEF Verify
<1>7. ASSUME NEW p \in Process, Open(p) PROVE SoundInv'
  BY <1>7 DEF Open, Free
<1>8. ASSUME NEW p \in Process, Write(p) PROVE SoundInv'
  BY <1>8 DEF Write
<1>9. ASSUME NEW p \in Process, WriteFails(p) PROVE SoundInv'
  BY <1>9 DEF WriteFails
<1>10. ASSUME NEW p \in Process, Chmod(p) PROVE SoundInv'
  BY <1>10 DEF Chmod
<1>11. ASSUME NEW p \in Process, Replace(p) PROVE SoundInv'
  BY <1>11 DEF Replace
<1>12. ASSUME NEW p \in Process, Exec(p) PROVE SoundInv'
  BY <1>12 DEF Exec
<1>13. ASSUME NEW p \in Process, ExecFails(p) PROVE SoundInv'
  BY <1>13 DEF ExecFails
<1>14. ASSUME NEW p \in Process, Kill(p) PROVE SoundInv'
  BY <1>14 DEF Kill
<1>15. ASSUME NEW i \in Inode, WriteBack(i) PROVE SoundInv'
  BY <1>15 DEF WriteBack
<1>16. CASE PowerFailure
  BY <1>16 DEF PowerFailure
<1>17. CASE UNCHANGED vars
  BY <1>17 DEF vars
<1> QED BY <1>1, <1>2, <1>3, <1>4, <1>5, <1>6, <1>7, <1>8, <1>9, <1>10, <1>11, <1>12,
           <1>13, <1>14, <1>15, <1>16, <1>17 DEF Next, Step

\* Wherever processes that do not overlap are killed or run out of disk: the
\* entry that ensure returns is whole and executable.
THEOREM CacheIsSound == Spec => []CacheSound
<1>1. Init => SoundInv
  BY DEF Init, SoundInv, Sound, Prepared
<1>2. SoundInv => CacheSound
  BY DEF SoundInv, Sound, CacheSound
<1> QED BY <1>1, <1>2, TypeInit, TypeStep, VerifiedInit, VerifiedStep, SoundStep, PTL DEF Spec

\* Processes that do not overlap find .partial where they left it.
THEOREM NeverTrips == Spec => []TripsOnlyWhenRaced
<1>1. Init => SoundInv
  BY DEF Init, SoundInv, Sound, Prepared
<1>2. SoundInv => TripsOnlyWhenRaced
  BY DEF SoundInv, TripsOnlyWhenRaced
<1> QED BY <1>1, <1>2, TypeInit, TypeStep, VerifiedInit, VerifiedStep, SoundStep, PTL DEF Spec
=============================================================================
