---------------------------- MODULE Doctor_proofs ----------------------------
(***************************************************************************)
(* What holds of Doctor on any hosts, for any specification and bound.     *)
(***************************************************************************)
EXTENDS Doctor, SequenceTheorems, TLAPS

\* What a sequence followed by another is made of.
LEMMA Appended ==
    ASSUME NEW S, NEW a \in Seq(S), NEW b \in Seq(S)
    PROVE  /\ a \o b \in Seq(S) /\ Len(a) \in Nat /\ Len(b) \in Nat
           /\ Len(a \o b) = Len(a) + Len(b)
           /\ \A i \in 1..Len(a) : (a \o b)[i] = a[i]
<1>1. a \o b \in Seq(S) /\ Len(a) \in Nat /\ Len(b) \in Nat
  OBVIOUS
<1>2. Len(a \o b) = Len(a) + Len(b)
  OBVIOUS
<1>3. \A i \in 1..Len(a) : (a \o b)[i] = a[i]
  OBVIOUS
<1> QED BY <1>1, <1>2, <1>3

\* The NVIDIA check comes after the one for docker.
LEMMA ChecksInOrder ==
    ASSUME NEW s \in SubstrateName
    PROVE  /\ Checks(s) \in Seq(Check) /\ Len(Checks(s)) \in Nat /\ Len(Checks(s)) >= 3
           /\ DOMAIN Checks(s) = 1..Len(Checks(s))
           /\ \A i \in DOMAIN Checks(s) :
                 Checks(s)[i] = "nvidia" => i > 3 /\ Checks(s)[3] = "docker"
<1> DEFINE apple == <<"macos", "xcode", "sudo", "brew", "colima", "docker">>
           tart == IF "tart" \in spec THEN <<"tart">> ELSE <<>>
           ghcup == IF "ghcup" \in spec THEN <<"ghcup">> ELSE <<>>
           linux == <<"ubuntu", "sudo", "docker">>
           nvidia == IF s = "linux-gpu" THEN <<"nvidia">> ELSE <<>>
           Other == Check \ {"nvidia"}
<1>1. CASE s = "apple-silicon"
  <2>1. {"macos", "xcode", "sudo", "brew", "colima", "docker", "tart", "ghcup"} \subseteq Other
    BY DEF Check, HostReqs
  <2>2. Checks(s) = apple \o tart \o ghcup
    BY <1>1 DEF Checks
  <2> HIDE DEF Other
  <2>3. apple \in Seq(Other) /\ Len(apple) = 6
    BY <2>1
  <2>4. tart \in Seq(Other) /\ ghcup \in Seq(Other)
    <3>1. <<"tart">> \in Seq(Other) /\ <<"ghcup">> \in Seq(Other) /\ <<>> \in Seq(Other)
      BY <2>1
    <3> QED BY <3>1
  <2> HIDE DEF apple, tart, ghcup
  <2>10. Len(tart) \in Nat /\ Len(ghcup) \in Nat
    BY <2>4
  <2>13. apple \o tart \in Seq(Other) /\ Len(apple \o tart) = Len(apple) + Len(tart)
    BY <2>3, <2>4, Appended
  <2>11. apple \o tart \in Seq(Other) /\ Len(apple \o tart) = 6 + Len(tart)
    BY <2>3, <2>13
  <2>12. Checks(s) \in Seq(Other) /\ Len(Checks(s)) = Len(apple \o tart) + Len(ghcup)
    BY <2>2, <2>4, <2>11, Appended
  <2>6. Checks(s) \in Seq(Other) /\ Len(Checks(s)) >= 6
    BY <2>10, <2>11, <2>12
  <2>7. Checks(s) \in Seq(Check)
    BY <2>6, SeqMonotonic DEF Other
  <2>8. Len(Checks(s)) \in Nat /\ DOMAIN Checks(s) = 1..Len(Checks(s))
    BY <2>7, LenProperties
  <2>9. \A i \in DOMAIN Checks(s) : Checks(s)[i] # "nvidia"
    BY <2>6, <2>8, ElementOfSeq DEF Other
  <2> QED BY <2>6, <2>7, <2>8, <2>9
<1>2. CASE s # "apple-silicon"
  <2>1. {"ubuntu", "sudo", "docker", "nvidia"} \subseteq Check
    BY DEF Check
  <2>2. Checks(s) = linux \o nvidia
    BY <1>2 DEF Checks
  <2>3. linux \in Seq(Check) /\ Len(linux) = 3
    BY <2>1
  <2>4. linux[1] = "ubuntu" /\ linux[2] = "sudo" /\ linux[3] = "docker"
    OBVIOUS
  <2>5. nvidia \in Seq(Check)
    <3>1. <<"nvidia">> \in Seq(Check) /\ <<>> \in Seq(Check)
      BY <2>1
    <3> QED BY <3>1
  <2> HIDE DEF linux, nvidia
  <2>10. Len(nvidia) \in Nat
    BY <2>5
  <2>12. Checks(s) \in Seq(Check) /\ Len(Checks(s)) = Len(linux) + Len(nvidia)
    BY <2>2, <2>3, <2>5, Appended
  <2>14. \A i \in 1..Len(linux) : (linux \o nvidia)[i] = linux[i]
    BY <2>3, <2>5, Appended
  <2>13. \A i \in 1..Len(linux) : Checks(s)[i] = linux[i]
    BY <2>2, <2>14
  <2>11. Checks(s) \in Seq(Check) /\ Len(Checks(s)) = 3 + Len(nvidia)
    BY <2>3, <2>12
  <2>6. Checks(s) \in Seq(Check) /\ Len(Checks(s)) >= 3
    BY <2>10, <2>11
  <2>7. \A i \in 1..3 : Checks(s)[i] = linux[i]
    BY <2>3, <2>13
  <2>8. Len(Checks(s)) \in Nat /\ DOMAIN Checks(s) = 1..Len(Checks(s))
    BY <2>6, LenProperties
  <2>9. ASSUME NEW i \in DOMAIN Checks(s), Checks(s)[i] = "nvidia" PROVE i > 3
    <3>1. i = 1 \/ i = 2 \/ i = 3 \/ i > 3
      BY <2>8
    <3> QED BY <2>4, <2>7, <2>9, <3>1
  <2> QED BY <2>4, <2>6, <2>7, <2>8, <2>9
<1> QED BY <1>1, <1>2

LEMMA ChecksStay == ASSUME spec' = spec PROVE \A s : Checks(s)' = Checks(s)
BY DEF Checks

LEMMA TypeInit == Init => TypeOK
<1> SUFFICES ASSUME Init PROVE TypeOK
  OBVIOUS
<1>1. moved \in BOOLEAN /\ cut \in BOOLEAN
  BY Zenon DEF Init
<1> QED BY <1>1 DEF Init, TypeOK

LEMMA DetectedTyped ==
    ASSUME TypeOK, NEW s \in SubstrateName, Detected(s), spec' = spec, cmd' = cmd
    PROVE  /\ sub' \in SubstrateName /\ at' \in Nat /\ pc' \in {"idle", "look"}
           /\ pc' = "look" => cmd' = "doctor" /\ at' \in DOMAIN Checks(sub)'
<1>1. sub' = s /\ 1 \in DOMAIN Checks(s)
  BY ChecksInOrder DEF Detected
<1>2. DOMAIN Checks(sub)' = DOMAIN Checks(s)
  BY <1>1, ChecksStay
<1> QED BY <1>1, <1>2 DEF Detected, TypeOK

LEMMA NextCheckTyped ==
    ASSUME TypeOK, pc \in {"look", "wait"}, NextCheck, UNCHANGED <<spec, sub, cmd>>
    PROVE  /\ at' \in Nat /\ pc' \in {"idle", "look"}
           /\ passed' \in SubstrateName \cup {None}
           /\ pc' = "look" => at' \in DOMAIN Checks(sub)'
<1>1. sub \in SubstrateName /\ at \in DOMAIN Checks(sub) /\ at \in Nat
  BY DEF TypeOK
<1>2. passed \in SubstrateName \cup {None}
  BY DEF TypeOK
<1>3. sub' = sub /\ spec' = spec
  OBVIOUS
<1>4. Checks(sub)' = Checks(sub)
  BY <1>3, ChecksStay
<1> DEFINE n == Len(Checks(sub))
<1>5. n \in Nat /\ DOMAIN Checks(sub) = 1..n
  BY <1>1, ChecksInOrder
<1>6. CASE at = n
  <2>1. pc' = "idle" /\ passed' = sub /\ at' = at
    BY <1>6 DEF NextCheck
  <2> QED BY <1>1, <2>1
<1>7. CASE at # n
  <2>1. pc' = "look" /\ at' = at + 1 /\ passed' = passed
    BY <1>7 DEF NextCheck
  <2> HIDE DEF n
  <2>2. at + 1 \in 1..n
    BY <1>1, <1>5, <1>7
  <2>3. at' \in DOMAIN Checks(sub)'
    BY <1>4, <1>5, <2>1, <2>2
  <2> QED BY <1>1, <1>2, <2>1, <2>3
<1> QED BY <1>6, <1>7

\* The parts of TypeOK.
Plain ==
    /\ system \in Systems /\ has \subseteq system.facts /\ changes \in Nat
    /\ spec \in Specs
    /\ cmd \in {"doctor", "other"}
    /\ pc \in {"idle", "load", "detect", "probe", "look", "wait"}
    /\ child \in {"none", "running", "late"}
    /\ sub \in SubstrateName \cup {None}
    /\ at \in Nat
    /\ passed \in SubstrateName \cup {None}
    /\ lost \subseteq Fact

Flags == moved \in BOOLEAN /\ cut \in BOOLEAN

Waited == pc \in {"load", "probe", "wait"} <=> child # "none"

Checking ==
    pc \in {"look", "wait"} =>
        cmd = "doctor" /\ sub \in SubstrateName /\ at \in DOMAIN Checks(sub)

Late == child = "late" => pc \in {"probe", "wait"}

LEMMA Parts == TypeOK <=> Plain /\ Flags /\ Waited /\ Checking /\ Late
BY Zenon DEF TypeOK, Plain, Flags, Waited, Checking, Late

LEMMA PartsNext == Plain' /\ Flags' /\ Waited' /\ Checking' /\ Late' => TypeOK'
BY Zenon DEF TypeOK, Plain, Flags, Waited, Checking, Late

LEMMA FactsTyped == ASSUME TypeOK PROVE system.facts \subseteq Fact
BY SystemsAssumption DEF TypeOK, System

\* Whatever ends the detection.
LEMMA DetectedStep ==
    ASSUME TypeOK, NEW s \in SubstrateName, Detected(s), child' = "none",
           UNCHANGED <<system, has, changes, spec, cmd, passed, lost, moved>>,
           cut' \in BOOLEAN
    PROVE  TypeOK'
<1>1. Plain /\ Flags
  BY Parts
<1>2. /\ sub' \in SubstrateName /\ at' \in Nat /\ pc' \in {"idle", "look"}
      /\ pc' = "look" => cmd' = "doctor" /\ at' \in DOMAIN Checks(sub)'
  BY DetectedTyped
<1>3. Plain'
  BY <1>1, <1>2 DEF Plain
<1>4. Flags'
  BY <1>1, Zenon DEF Flags
<1>5. Waited' /\ Checking' /\ Late'
  BY <1>2 DEF Waited, Checking, Late
<1> QED BY <1>3, <1>4, <1>5, PartsNext

\* Whatever ends a check.
LEMMA CheckedStep ==
    ASSUME TypeOK, pc \in {"look", "wait"}, NextCheck \/ Fails, child' = "none",
           UNCHANGED <<system, has, changes, spec, cmd, sub, lost, moved, cut>>
    PROVE  TypeOK'
<1>1. Plain /\ Flags /\ Checking
  BY Parts
<1>2. /\ at' \in Nat /\ pc' \in {"idle", "look"}
      /\ passed' \in SubstrateName \cup {None}
      /\ pc' = "look" => at' \in DOMAIN Checks(sub)'
  <2>1. CASE NextCheck
    BY <2>1, NextCheckTyped
  <2>2. CASE Fails
    BY <1>1, <2>2 DEF Fails, Plain
  <2> QED BY <2>1, <2>2
<1>3. Plain'
  BY <1>1, <1>2 DEF Plain
<1>4. Flags'
  BY <1>1, Zenon DEF Flags
<1>5. Waited' /\ Checking' /\ Late'
  BY <1>1, <1>2 DEF Waited, Checking, Late
<1> QED BY <1>3, <1>4, <1>5, PartsNext

\* Whatever leaves the check where it is.
LEMMA StaysStep ==
    ASSUME TypeOK, UNCHANGED <<system, spec, cmd, sub, at, passed>>,
           has' \subseteq system.facts, changes' \in Nat, lost' \subseteq Fact,
           moved' \in BOOLEAN, cut' \in BOOLEAN,
           \/ UNCHANGED <<pc, child>>
           \/ pc \in {"look", "wait"} /\ pc' = "wait" /\ child' = "running"
           \/ pc \in {"probe", "wait"} /\ pc' = pc /\ child' = "late"
    PROVE  TypeOK'
<1>1. Plain /\ Waited /\ Checking /\ Late
  BY Parts
<1>2. Checks(sub)' = Checks(sub)
  BY ChecksStay
<1>3. Plain'
  BY <1>1 DEF Plain
<1>4. Flags'
  BY Zenon DEF Flags
<1>5. Waited'
  BY <1>1 DEF Waited
<1>6. Checking'
  BY <1>1, <1>2 DEF Checking
<1>7. Late'
  BY <1>1 DEF Late
<1> QED BY <1>3, <1>4, <1>5, <1>6, <1>7, PartsNext

LEMMA TypeStep == TypeOK /\ [Next]_vars => TypeOK'
<1> SUFFICES ASSUME TypeOK, [Next]_vars PROVE TypeOK'
  OBVIOUS
<1> USE DEF host, history
<1>0. Plain /\ Flags /\ Waited /\ Checking /\ Late
  BY Parts
<1>f. moved \in BOOLEAN /\ cut \in BOOLEAN
  BY <1>0, Zenon DEF Flags
<1>p. has \subseteq system.facts /\ changes \in Nat /\ lost \subseteq Fact
  BY <1>0 DEF Plain
<1>1. ASSUME NEW c \in {"doctor", "other"}, Begin(c) PROVE TypeOK'
  BY <1>1, Zenon DEF Begin, TypeOK
<1>10. CASE Loaded
  <2>1. pc' \in {"detect", "idle"} /\ child' = "none" /\ UNCHANGED <<host, cmd, sub, at, history>>
    BY <1>10 DEF Loaded
  <2>2. Plain'
    BY <1>0, <2>1 DEF Plain
  <2>3. Flags'
    BY <1>f, <2>1, Zenon DEF Flags
  <2>4. Waited' /\ Checking' /\ Late'
    BY <2>1 DEF Waited, Checking, Late
  <2> QED BY <2>2, <2>3, <2>4, PartsNext
<1>2. CASE Detect
  <2>1. child = "none"
    BY <1>0, <1>2 DEF Detect, Waited
  <2>2. UNCHANGED <<host, cmd, history>>
    BY <1>2 DEF Detect
  <2>3. CASE pc' = "idle" /\ UNCHANGED <<child, sub, at>>
    <3>1. Plain'
      BY <1>0, <2>2, <2>3 DEF Plain
    <3>2. Flags'
      BY <1>f, <2>2, Zenon DEF Flags
    <3>3. Waited' /\ Checking' /\ Late'
      BY <2>1, <2>3 DEF Waited, Checking, Late
    <3> QED BY <3>1, <3>2, <3>3, PartsNext
  <2>4. ASSUME NEW s \in SubstrateName, Detected(s), UNCHANGED child PROVE TypeOK'
    <3>1. cut' \in BOOLEAN
      BY <1>f, <2>2, Zenon
    <3> QED BY <2>1, <2>2, <2>4, <3>1, DetectedStep
  <2>5. CASE pc' = "probe" /\ child' = "running" /\ UNCHANGED <<sub, at>>
    <3>1. Plain'
      BY <1>0, <2>2, <2>5 DEF Plain
    <3>2. Flags'
      BY <1>f, <2>2, Zenon DEF Flags
    <3>3. Waited' /\ Checking' /\ Late'
      BY <2>5 DEF Waited, Checking, Late
    <3> QED BY <3>1, <3>2, <3>3, PartsNext
  <2> QED BY <1>2, <2>3, <2>4, <2>5 DEF Detect, SubstrateName
<1>3. CASE ProbeAnswers
  <2>1. /\ child' = "none" /\ UNCHANGED <<host, cmd, history>>
        /\ Detected("linux-gpu") \/ Detected("linux-cpu")
    BY <1>3 DEF ProbeAnswers
  <2>2. cut' \in BOOLEAN
    BY <1>f, <2>1, Zenon
  <2>3. "linux-gpu" \in SubstrateName /\ "linux-cpu" \in SubstrateName
    BY DEF SubstrateName
  <2> QED BY <2>1, <2>2, <2>3, DetectedStep
<1>4. CASE ProbeExpires
  <2>1. pc = "probe" /\ child' = "late" /\ UNCHANGED <<host, cmd, pc, sub, at, passed, lost>>
    BY <1>4 DEF ProbeExpires
  <2>2. moved' \in BOOLEAN /\ cut' \in BOOLEAN
    BY <1>4, <1>f, Zenon DEF ProbeExpires
  <2> QED BY <1>p, <2>1, <2>2, StaysStep
<1>5. CASE Look
  <2>1. pc = "look" /\ child = "none" /\ UNCHANGED <<host, cmd, sub, lost, moved, cut>>
    BY <1>0, <1>5 DEF Look, Waited
  <2>2. \/ (NextCheck \/ Fails) /\ UNCHANGED child
        \/ Waits /\ child' = "running"
    BY <1>5 DEF Look
  <2>3. CASE (NextCheck \/ Fails) /\ UNCHANGED child
    BY <2>1, <2>3, CheckedStep
  <2>4. CASE Waits /\ child' = "running"
    <3>1. moved' \in BOOLEAN /\ cut' \in BOOLEAN
      BY <1>f, <2>1, Zenon
    <3>2. pc' = "wait" /\ UNCHANGED <<at, passed>>
      BY <2>4 DEF Waits
    <3> QED BY <1>p, <2>1, <2>4, <3>1, <3>2, StaysStep
  <2> QED BY <2>2, <2>3, <2>4
<1>6. CASE Answers
  BY <1>6, CheckedStep DEF Answers
<1>7. CASE Expires
  <2>1. pc = "wait" /\ child' = "late" /\ UNCHANGED <<host, cmd, pc, sub, at, history>>
    BY <1>7 DEF Expires
  <2>2. moved' \in BOOLEAN /\ cut' \in BOOLEAN
    BY <1>f, <2>1, Zenon
  <2> QED BY <1>p, <2>1, <2>2, StaysStep
<1>8. ASSUME NEW f \in system.facts \ {"root", "ubuntu"}, Changes(f) PROVE TypeOK'
  <2>1. moved' \in BOOLEAN
    BY <1>8, Zenon DEF Changes
  <2>2. cut' \in BOOLEAN
    BY <1>8, <1>f, Zenon DEF Changes
  <2>3. /\ changes' \in Nat /\ has' \subseteq system.facts
        /\ UNCHANGED <<system, spec, cmd, pc, child, sub, at, passed>>
    BY <1>8, <1>p DEF Changes
  <2>4. lost' \subseteq Fact
    BY <1>8, <1>p, FactsTyped DEF Changes
  <2> QED BY <2>1, <2>2, <2>3, <2>4, StaysStep
<1>9. CASE UNCHANGED vars
  <2>1. moved' \in BOOLEAN /\ cut' \in BOOLEAN
    BY <1>9, <1>f, Zenon DEF vars
  <2>2. /\ changes' \in Nat /\ has' \subseteq system.facts /\ lost' \subseteq Fact
        /\ UNCHANGED <<system, spec, cmd, pc, child, sub, at, passed>>
    BY <1>9, <1>p DEF vars
  <2> QED BY <2>1, <2>2, StaysStep
<1> QED BY <1>1, <1>2, <1>3, <1>4, <1>5, <1>6, <1>7, <1>8, <1>9, <1>10 DEF Next

\* The types of the checks, the hosts and the histories (substrate.py and
\* prereqs.py): doctor never looks for a check that there is not.
THEOREM TypeCorrect == Spec => []TypeOK
BY TypeInit, TypeStep, PTL DEF Spec

-----------------------------------------------------------------------------
(* DoctorVouches.                                                          *)

\* The checks of which what they are to establish holds, or ceased to.
Assured == {c \in Check : Vouched(c)}

\* Of the checks behind it doctor can vouch for everything.
Behind == pc \in {"look", "wait"} => \A i \in 1..(at - 1) : Checks(sub)[i] \in Assured

Passed == passed # None => \A i \in DOMAIN Checks(passed) : Checks(passed)[i] \in Assured

\* nvidia-smi was there before docker is asked for the NVIDIA runtime.
Looked == pc = "wait" /\ this = "nvidia" => "nvidia-smi" \in has \cup lost

VouchInv == Behind /\ Passed /\ Looked

LEMMA AssuredStays ==
    ASSUME has \cup lost \subseteq has' \cup lost', lost \subseteq lost',
           "root" \in has => "root" \in has'
    PROVE  Assured \subseteq Assured'
BY DEF Assured, Vouched, Needs

LEMMA ChecksAreChecks ==
    ASSUME NEW s \in SubstrateName
    PROVE  \A i \in DOMAIN Checks(s) : Checks(s)[i] \in Check
BY ChecksInOrder, ElementOfSeq

\* What lets a check pass assures it.
LEMMA PassingAssures ==
    ASSUME TypeOK, Behind, Looked, pc \in {"look", "wait"},
           \/ Needs(this) \subseteq has
           \/ this = "sudo" /\ "root" \in has
           \/ this = "nvidia" /\ "docker" \notin has
           \/ pc = "wait" /\ Says(this)
    PROVE  this \in Assured
<1>1. sub \in SubstrateName /\ at \in DOMAIN Checks(sub) /\ this \in Check
  BY ChecksAreChecks DEF TypeOK, this
<1>2. CASE Needs(this) \subseteq has
  BY <1>1, <1>2 DEF Assured, Vouched
<1>3. CASE this = "sudo" /\ "root" \in has
  BY <1>1, <1>3 DEF Assured, Vouched
<1>4. CASE this = "nvidia" /\ "docker" \notin has
  <2>1. at > 3 /\ Checks(sub)[3] = "docker" /\ at \in Nat
    BY <1>1, <1>4, ChecksInOrder DEF this
  <2>2. "docker" \in Assured
    BY <1>1, <2>1 DEF Behind
  <2>3. "docker" \in lost
    BY <1>4, <2>2 DEF Assured, Vouched, Needs
  <2> QED BY <1>1, <1>4, <2>3 DEF Assured, Vouched
<1>5. CASE pc = "wait" /\ Says(this)
  <2>1. CASE this = "nvidia"
    BY <1>1, <1>5, <2>1 DEF Looked, Says, Assured, Vouched, Needs
  <2>2. CASE this # "nvidia"
    <3>1. "nvidia-smi" \notin Needs(this)
      BY <1>1, <2>2 DEF Check, HostReqs, Needs
    <3> QED BY <1>1, <1>5, <3>1 DEF Says, Assured, Vouched
  <2> QED BY <2>1, <2>2
<1> QED BY <1>2, <1>3, <1>4, <1>5

\* A check that passes.
LEMMA PassingVouches ==
    ASSUME TypeOK, VouchInv, pc \in {"look", "wait"}, this \in Assured, NextCheck,
           UNCHANGED <<spec, sub>>, Assured \subseteq Assured'
    PROVE  VouchInv'
<1> DEFINE n == Len(Checks(sub))
<1>1. /\ sub \in SubstrateName /\ at \in DOMAIN Checks(sub) /\ at \in Nat
      /\ n \in Nat /\ DOMAIN Checks(sub) = 1..n
  <2>1. sub \in SubstrateName /\ at \in DOMAIN Checks(sub) /\ at \in Nat
    BY DEF TypeOK
  <2> QED BY <2>1, ChecksInOrder
<1>2. \A s : Checks(s)' = Checks(s)
  BY ChecksStay
<1>3. \A i \in 1..at : Checks(sub)[i] \in Assured
  <2>1. \A i \in 1..at : i \in 1..(at - 1) \/ i = at
    BY <1>1
  <2> QED BY <2>1 DEF VouchInv, Behind, this
<1> HIDE DEF n
<1>4. pc' \in {"idle", "look"}
  BY DEF NextCheck
<1>5. Looked'
  BY <1>4 DEF Looked
<1>6. CASE at = n
  <2>1. pc' = "idle" /\ passed' = sub
    BY <1>6 DEF NextCheck, n
  <2>2. Behind'
    BY <2>1 DEF Behind
  <2>3. Checks(passed)' = Checks(sub)
    BY <1>2, <2>1
  <2>4. Passed'
    BY <1>1, <1>3, <1>6, <2>3 DEF Passed
  <2> QED BY <1>5, <2>2, <2>4 DEF VouchInv
<1>7. CASE at # n
  <2>1. pc' = "look" /\ at' = at + 1 /\ passed' = passed
    BY <1>7 DEF NextCheck, n
  <2>2. Checks(sub)' = Checks(sub) /\ Checks(passed)' = Checks(passed)
    BY <1>2, <2>1
  <2>3. at' - 1 = at
    BY <1>1, <2>1
  <2>4. Behind'
    BY <1>3, <2>2, <2>3 DEF Behind
  <2>5. Passed'
    BY <2>1, <2>2 DEF VouchInv, Passed
  <2> QED BY <1>5, <2>4, <2>5 DEF VouchInv
<1> QED BY <1>6, <1>7

\* Whatever else happens with doctor where it is, or at its end.
LEMMA VouchStays ==
    ASSUME TypeOK, VouchInv, Assured \subseteq Assured', UNCHANGED <<spec, passed>>,
           \/ pc' \notin {"look", "wait"}
           \/ at' = 1
           \/ pc \in {"look", "wait"} /\ UNCHANGED <<sub, at>>,
           Looked'
    PROVE  VouchInv'
<1>1. \A s : Checks(s)' = Checks(s)
  BY ChecksStay
<1>2. Checks(passed)' = Checks(passed)
  BY <1>1
<1>3. Passed'
  BY <1>2 DEF VouchInv, Passed
<1>4. CASE pc' \notin {"look", "wait"}
  BY <1>3, <1>4 DEF VouchInv, Behind
<1>5. CASE at' = 1
  BY <1>3, <1>5 DEF VouchInv, Behind
<1>6. CASE pc \in {"look", "wait"} /\ UNCHANGED <<sub, at>>
  <2>1. Checks(sub)' = Checks(sub)
    BY <1>1, <1>6
  <2> QED BY <1>3, <1>6, <2>1 DEF VouchInv, Behind
<1> QED BY <1>4, <1>5, <1>6

LEMMA VouchStep == TypeOK /\ VouchInv /\ [Next]_vars => VouchInv'
<1> SUFFICES ASSUME TypeOK, VouchInv, [Next]_vars PROVE VouchInv'
  OBVIOUS
<1> USE DEF host, history
<1>1. ASSUME NEW c \in {"doctor", "other"}, Begin(c) PROVE VouchInv'
  <2>1. pc' = "load"
    BY <1>1 DEF Begin
  <2>2. Behind' /\ Looked'
    BY <2>1 DEF Behind, Looked
  <2>3. CASE c = "doctor"
    BY <1>1, <2>2, <2>3 DEF Begin, VouchInv, Passed
  <2>4. CASE c # "doctor"
    <3>1. UNCHANGED <<host, passed, lost>>
      BY <1>1, <2>4 DEF Begin
    <3>2. Assured \subseteq Assured'
      BY <3>1, AssuredStays
    <3> QED BY <2>1, <2>2, <3>1, <3>2, VouchStays
  <2> QED BY <2>3, <2>4
<1>2. CASE Loaded \/ Detect \/ ProbeAnswers \/ ProbeExpires
  <2>4. UNCHANGED <<has, spec, passed, lost>>
    BY <1>2 DEF Loaded, Detect, ProbeAnswers, ProbeExpires
  <2>5. \/ pc' \in {"idle", "detect", "probe"}
        \/ Detected("apple-silicon") \/ Detected("linux-gpu") \/ Detected("linux-cpu")
    <3>1. CASE Detect
      BY <3>1 DEF Detect
    <3>2. CASE ProbeAnswers
      BY <3>2 DEF ProbeAnswers
    <3>3. CASE ProbeExpires
      BY <3>3 DEF ProbeExpires
    <3>4. CASE Loaded
      BY <3>4 DEF Loaded
    <3> QED BY <1>2, <3>1, <3>2, <3>3, <3>4
  <2>1. /\ UNCHANGED <<has, spec, passed, lost>>
        /\ pc' \in {"idle", "detect", "probe"} \/ (pc' = "look" /\ at' = 1)
    BY <2>4, <2>5 DEF Detected
  <2>2. Assured \subseteq Assured'
    BY <2>1, AssuredStays
  <2>3. Looked'
    BY <2>1 DEF Looked
  <2> QED BY <2>1, <2>2, <2>3, VouchStays
<1>3. CASE Look
  <2>1. pc = "look" /\ UNCHANGED <<host, sub, lost>>
    BY <1>3 DEF Look
  <2>2. Assured \subseteq Assured'
    BY <2>1, AssuredStays
  <2>3. \/ /\ NextCheck
           /\ \/ Needs(this) \subseteq has
              \/ this = "sudo" /\ "root" \in has
              \/ this = "nvidia" /\ "docker" \notin has
        \/ Fails
        \/ Waits /\ (this = "nvidia" => "nvidia-smi" \in has)
    BY <1>3 DEF Look
  <2>4. CASE Fails
    <3>1. pc' = "idle" /\ passed' = passed
      BY <2>4 DEF Fails
    <3>2. Looked'
      BY <3>1 DEF Looked
    <3> QED BY <2>1, <2>2, <3>1, <3>2, VouchStays
  <2>5. CASE Waits /\ (this = "nvidia" => "nvidia-smi" \in has)
    <3>1. UNCHANGED <<at, passed>>
      BY <2>5 DEF Waits
    <3>2. Checks(sub)' = Checks(sub)
      BY <2>1, ChecksStay
    <3>3. Looked'
      BY <2>1, <2>5, <3>1, <3>2 DEF Looked, this
    <3> QED BY <2>1, <2>2, <3>1, <3>3, VouchStays
  <2>6. CASE NextCheck /\ this \in Assured
    BY <2>1, <2>2, <2>6, PassingVouches
  <2> QED BY <2>1, <2>3, <2>4, <2>5, <2>6, PassingAssures DEF VouchInv
<1>4. CASE Answers
  <2>1. pc = "wait" /\ UNCHANGED <<host, sub, lost>>
    BY <1>4 DEF Answers
  <2>2. Assured \subseteq Assured'
    BY <2>1, AssuredStays
  <2>3. (NextCheck /\ Says(this)) \/ Fails
    BY <1>4 DEF Answers
  <2>4. CASE Fails
    <3>1. pc' = "idle" /\ passed' = passed
      BY <2>4 DEF Fails
    <3>2. Looked'
      BY <3>1 DEF Looked
    <3> QED BY <2>1, <2>2, <3>1, <3>2, VouchStays
  <2>5. CASE NextCheck /\ this \in Assured
    BY <2>1, <2>2, <2>5, PassingVouches
  <2> QED BY <2>1, <2>3, <2>4, <2>5, PassingAssures DEF VouchInv
<1>5. CASE Expires
  <2>1. /\ pc = "wait" /\ UNCHANGED <<host, sub, at, passed, lost>>
        /\ pc' = "wait"
    BY <1>5 DEF Expires
  <2>2. Assured \subseteq Assured'
    BY <2>1, AssuredStays
  <2>3. Checks(sub)' = Checks(sub)
    BY <2>1, ChecksStay
  <2>4. Looked'
    BY <2>1, <2>3 DEF VouchInv, Looked, this
  <2> QED BY <2>1, <2>2, <2>4, VouchStays
<1>6. ASSUME NEW f \in system.facts \ {"root", "ubuntu"}, Changes(f) PROVE VouchInv'
  <2>1. /\ UNCHANGED <<spec, pc, sub, at, passed>>
        /\ has \cup lost \subseteq has' \cup lost' /\ lost \subseteq lost'
        /\ "root" \in has => "root" \in has'
    BY <1>6 DEF Changes
  <2>2. Assured \subseteq Assured'
    BY <2>1, AssuredStays
  <2>3. Checks(sub)' = Checks(sub)
    BY <2>1, ChecksStay
  <2>4. Looked'
    BY <2>1, <2>3 DEF VouchInv, Looked, this
  <2> QED BY <2>1, <2>2, <2>4, VouchStays
<1>7. CASE UNCHANGED vars
  <2>1. UNCHANGED <<spec, has, pc, sub, at, passed, lost>>
    BY <1>7 DEF vars
  <2>2. Assured \subseteq Assured'
    BY <2>1, AssuredStays
  <2>3. Checks(sub)' = Checks(sub)
    BY <2>1, ChecksStay
  <2>4. Looked'
    BY <2>1, <2>3 DEF VouchInv, Looked, this
  <2> QED BY <2>1, <2>2, <2>4, VouchStays
<1> QED BY <1>1, <1>2, <1>3, <1>4, <1>5, <1>6, <1>7 DEF Next

\* What doctor has passed is there, or went away since it began
\* (prereqs.py, lines 152-197): the invariant follows it from check to check.
THEOREM Vouches == Spec => []DoctorVouches
<1>1. Init => VouchInv
  BY DEF Init, VouchInv, Behind, Passed, Looked
<1>2. VouchInv => DoctorVouches
  BY DEF VouchInv, Passed, DoctorVouches, Assured
<1> QED BY <1>1, <1>2, TypeCorrect, VouchStep, PTL DEF Spec

-----------------------------------------------------------------------------
(* DispatchedWhereDoctorLooked.                                            *)

\* The substrate of the host as it is.
Truth ==
    IF system.name = "Darwin" THEN "apple-silicon"
    ELSE IF "marker" \in has \/ {"nvidia-smi", "gpu"} \subseteq has
    THEN "linux-gpu" ELSE "linux-cpu"

\* Since doctor began nothing was there to mislead a detection.
Calm == ~moved /\ (cut => "marker" \in has)

\* nvidia-smi is asked where the driver is not loaded.
Probing == pc = "probe" /\ ~moved => system.name = "Linux" /\ "marker" \notin has

Seen == Calm => sub \in {None, Truth} /\ passed \in {None, Truth}

\* A probe that was killed is known for one.
Killed == pc = "probe" /\ child = "late" => cut

DetectInv == Probing /\ Killed /\ Seen

LEMMA SystemsNamed == ASSUME TypeOK PROVE system.name \in {"Darwin", "Linux", "Windows"}
BY SystemsAssumption DEF TypeOK, System

\* The signs of a GPU stay as they are, and what was seen of them.
LEMMA CalmStays ==
    ASSUME DetectInv, UNCHANGED <<system, has, moved, cut>>,
           pc' = "probe" => system.name = "Linux" /\ "marker" \notin has,
           pc' = "probe" => child' # "late",
           Calm => sub' \in {None, Truth} /\ passed' \in {None, Truth}
    PROVE  DetectInv'
<1>1. Truth' = Truth
  BY DEF Truth
<1>2. Calm' => Calm
  BY Zenon DEF Calm
<1>3. Probing'
  BY DEF Probing
<1>4. Seen'
  BY <1>1, <1>2 DEF Seen
<1>5. Killed'
  BY Zenon DEF Killed
<1> QED BY <1>3, <1>4, <1>5 DEF DetectInv

LEMMA DetectStep == TypeOK /\ DetectInv /\ [Next]_vars => DetectInv'
<1> SUFFICES ASSUME TypeOK, DetectInv, [Next]_vars PROVE DetectInv'
  OBVIOUS
<1> USE DEF host, history
<1>0. system.name \in {"Darwin", "Linux", "Windows"}
  BY SystemsNamed
<1>s. Calm => sub \in {None, Truth} /\ passed \in {None, Truth}
  BY DEF DetectInv, Seen
<1>1. ASSUME NEW c \in {"doctor", "other"}, Begin(c) PROVE DetectInv'
  <2>1. pc' = "load" /\ sub' = None /\ UNCHANGED <<system, has>>
    BY <1>1 DEF Begin
  <2>2. Probing' /\ Killed'
    BY <2>1 DEF Probing, Killed
  <2>3. CASE c = "doctor"
    <3>1. passed' = None
      BY <1>1, <2>3 DEF Begin
    <3> QED BY <2>1, <2>2, <3>1 DEF DetectInv, Seen
  <2>4. CASE c # "doctor"
    <3>1. UNCHANGED <<passed, moved, cut>>
      BY <1>1, <2>4 DEF Begin
    <3> QED BY <1>s, <2>1, <3>1, CalmStays
  <2> QED BY <2>3, <2>4
<1>2. CASE Detect
  <2>1. UNCHANGED <<system, has, passed, moved, cut>>
    BY <1>2 DEF Detect
  <2>2. \/ pc' = "idle" /\ sub' = sub
        \/ Detected(Truth)
        \/ /\ pc' = "probe" /\ child' = "running" /\ sub' = sub
           /\ system.name = "Linux" /\ "marker" \notin has
    BY <1>2 DEF Detect, Truth
  <2>3. CASE pc' # "probe" /\ sub' \in {sub, Truth}
    BY <1>s, <2>1, <2>3, CalmStays
  <2>4. CASE /\ pc' = "probe" /\ child' = "running" /\ sub' = sub
             /\ system.name = "Linux" /\ "marker" \notin has
    BY <1>s, <2>1, <2>4, CalmStays
  <2>5. ASSUME Detected(Truth) PROVE pc' # "probe" /\ sub' = Truth
    BY <2>5 DEF Detected
  <2> QED BY <2>2, <2>3, <2>4, <2>5
<1>3. CASE ProbeAnswers
  <2>1. UNCHANGED <<system, has, passed, moved, cut>> /\ pc = "probe"
    BY <1>3 DEF ProbeAnswers
  <2>2. /\ pc' # "probe"
        /\ sub' = IF child = "running" /\ {"nvidia-smi", "gpu"} \subseteq has
                  THEN "linux-gpu" ELSE "linux-cpu"
    BY <1>3 DEF ProbeAnswers, Detected
  <2>3. Calm => system.name = "Linux" /\ "marker" \notin has
    BY <2>1, Zenon DEF DetectInv, Probing, Calm
  <2>5. Calm => child # "late"
    BY <2>1, <2>3, Zenon DEF DetectInv, Killed, Calm
  <2>6. child \in {"running", "late"}
    BY <2>1 DEF TypeOK
  <2>4. Calm => sub' = Truth
    BY <2>2, <2>3, <2>5, <2>6 DEF Truth
  <2> QED BY <1>s, <2>1, <2>2, <2>4, CalmStays
<1>4. CASE ProbeExpires
  <2>1. UNCHANGED <<system, has, moved, pc>> /\ pc = "probe"
    BY <1>4 DEF ProbeExpires
  <2>2. cut'
    BY <1>4, Zenon DEF ProbeExpires
  <2>3. ~Calm' /\ Killed'
    BY <2>1, <2>2, Zenon DEF DetectInv, Probing, Calm, Killed
  <2>4. Probing'
    BY <2>1, Zenon DEF DetectInv, Probing
  <2> QED BY <2>3, <2>4 DEF DetectInv, Seen
<1>8. CASE Loaded
  <2>1. UNCHANGED <<system, has, sub, passed, moved, cut>> /\ pc' # "probe"
    BY <1>8 DEF Loaded
  <2> QED BY <1>s, <2>1, CalmStays
<1>5. CASE Look \/ Answers \/ Expires
  <2>1. /\ UNCHANGED <<system, has, sub, moved, cut>> /\ pc' # "probe"
        /\ passed' \in {passed, sub}
    <3>1. CASE Look
      BY <3>1 DEF Look, NextCheck, Fails, Waits
    <3>2. CASE Answers
      BY <3>2 DEF Answers, NextCheck, Fails
    <3>3. CASE Expires
      BY <3>3 DEF Expires
    <3> QED BY <1>5, <3>1, <3>2, <3>3
  <2> QED BY <1>s, <2>1, CalmStays
<1>6. ASSUME NEW f \in system.facts \ {"root", "ubuntu"}, Changes(f) PROVE DetectInv'
  <2>1. UNCHANGED <<system, pc, child, sub, passed, cut>>
    BY <1>6 DEF Changes
  <2>4. Killed'
    BY <2>1, Zenon DEF DetectInv, Killed
  <2>2. CASE f \in {"marker", "nvidia-smi", "gpu"}
    <3>1. moved'
      BY <1>6, <2>2, Zenon DEF Changes
    <3> QED BY <2>4, <3>1, Zenon DEF DetectInv, Probing, Seen, Calm
  <2>3. CASE f \notin {"marker", "nvidia-smi", "gpu"}
    <3>1. /\ "marker" \in has' <=> "marker" \in has
          /\ {"nvidia-smi", "gpu"} \subseteq has' <=> {"nvidia-smi", "gpu"} \subseteq has
      BY <1>6, <2>3 DEF Changes
    <3>2. moved' => moved \/ f \in {"marker", "nvidia-smi", "gpu"}
      BY <1>6, Zenon DEF Changes
    <3>3. moved => moved'
      BY <1>6, Zenon DEF Changes
    <3>4. Truth' = Truth
      BY <2>1, <3>1 DEF Truth
    <3>5. Calm' => Calm
      BY <2>1, <3>1, <3>3, Zenon DEF Calm
    <3>6. Seen'
      BY <1>s, <2>1, <3>4, <3>5 DEF Seen
    <3>7. Probing'
      BY <2>1, <3>1, <3>3, Zenon DEF DetectInv, Probing
    <3> QED BY <2>4, <3>6, <3>7 DEF DetectInv
  <2> QED BY <2>2, <2>3
<1>7. CASE UNCHANGED vars
  <2>1. UNCHANGED <<system, has, pc, child, sub, passed, moved, cut>>
    BY <1>7 DEF vars
  <2>2. Truth' = Truth
    BY <2>1 DEF Truth
  <2>3. Calm' => Calm
    BY <2>1, Zenon DEF Calm
  <2>4. Probing' /\ Killed'
    BY <2>1, Zenon DEF DetectInv, Probing, Killed
  <2>5. Seen'
    BY <1>s, <2>1, <2>2, <2>3 DEF Seen
  <2> QED BY <2>4, <2>5 DEF DetectInv
<1> QED BY <1>1, <1>2, <1>3, <1>4, <1>5, <1>6, <1>7, <1>8 DEF Next

\* A command is dispatched on the substrate for which doctor vouched, as long
\* as no sign of a GPU came or went (substrate.py, lines 70-104).
THEOREM DispatchAgrees == Spec => []DispatchedWhereDoctorLooked
<1>1. Init => DetectInv
  BY DEF Init, DetectInv, Probing, Killed, Seen
<1>2. DetectInv => DispatchedWhereDoctorLooked
  BY Zenon DEF DetectInv, Seen, Calm, DispatchedWhereDoctorLooked
<1> QED BY <1>1, <1>2, TypeCorrect, DetectStep, PTL DEF Spec
=============================================================================
