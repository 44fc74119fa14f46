-------------------------- MODULE BaseImage_proofs --------------------------
(***************************************************************************)
(* What holds of BaseImage for any hosts, processes, registry and bounds.  *)
(***************************************************************************)
EXTENDS BaseImage, SequenceTheorems, TLAPS

LEMMA TypeInit == Init => TypeOK
<1> SUFFICES ASSUME Init PROVE TypeOK
  OBVIOUS
<1>1. builder \in {"buildkit", "legacy"} /\ raced \in BOOLEAN
  BY Zenon DEF Init
<1> QED BY <1>1, RegistriesAssumption DEF Init, TypeOK, Maybe

LEMMA PageListed ==
    ASSUME TypeOK, NEW k PROVE Page(k) \subseteq Listed /\ Entries \subseteq Listed
BY DEF TypeOK, Page, Entries

LEMMA ForCuda == ASSUME NEW a, NEW tags \in SUBSET Listed PROVE For(a, tags) \subseteq Cuda
BY DEF For, Listed

\* What a tag's move does to the listing.
LEMMA ShiftsTyped == TypeOK /\ Shifts => job' \in [Process -> {Idle} \cup Listing \cup Building \cup Pushing]
<1> SUFFICES ASSUME TypeOK, Shifts, NEW p \in Process
             PROVE job'[p] \in {Idle} \cup Listing \cup Building \cup Pushing
  BY DEF Shifts
<1>1. CASE job[p].pc = "list"
  <2>1. job[p] \in Listing
    BY <1>1 DEF TypeOK, Idle, Building, Pushing
  <2> QED BY <1>1, <2>1 DEF Shifts, Listing
<1>2. CASE job[p].pc # "list"
  BY <1>2 DEF Shifts, TypeOK
<1> QED BY <1>1, <1>2

LEMMA WithoutTyped ==
    ASSUME registry \in Seq(Listed), NEW i \in DOMAIN registry
    PROVE  Without(i) \in Seq(Listed)
<1>1. SubSeq(registry, 1, i - 1) \in Seq(Listed)
  BY SubSeqProperties, LenProperties
<1>2. SubSeq(registry, i + 1, Len(registry)) \in Seq(Listed)
  BY SubSeqProperties, LenProperties
<1> QED BY <1>1, <1>2, ConcatProperties DEF Without

\* What each step of a process has to hand on.
LEMMA JobKinds ==
    ASSUME TypeOK, NEW p \in Process
    PROVE  /\ job[p].pc = "list" => job[p] \in Listing
           /\ job[p].pc \in {"tools", "build"} => job[p] \in Building
           /\ job[p].pc = "push" => job[p] \in Pushing
           /\ job[p].pc = "idle" => job[p] = Idle
BY DEF TypeOK, Idle, Listing, Building, Pushing

LEMMA ResolveTyped ==
    ASSUME TypeOK, NEW p \in Process, job[p].pc = "list",
           NEW tags \in SUBSET Listed, Resolve(p, tags)
    PROVE  job' \in [Process -> {Idle} \cup Listing \cup Building \cup Pushing]
<1>1. job[p] \in Listing
  BY JobKinds
<1>2. For(job[p].tag.arch, tags) \subseteq Cuda
  BY ForCuda
<1>3. CASE Ends(p)
  BY <1>3 DEF Ends, Goto, TypeOK
<1>4. ASSUME NEW v \in Cuda,
             Goto(p, [pc |-> "tools", tag |-> job[p].tag, base |-> v,
                      goal |-> job[p].goal, shifted |-> job[p].shifted])
      PROVE  job' \in [Process -> {Idle} \cup Listing \cup Building \cup Pushing]
  BY <1>1, <1>4 DEF Goto, TypeOK, Listing, Building
<1> QED BY <1>2, <1>3, <1>4 DEF Resolve

LEMMA NextPage ==
    ASSUME NEW j \in Listing, NEW s \in SUBSET Listed, NEW k \in Nat
    PROVE  [j EXCEPT !.seen = s, !.offset = k] \in Listing
<1>1. [j EXCEPT !.seen = s] \in Listing
  BY DEF Listing
<1>2. ASSUME NEW i \in Listing PROVE [i EXCEPT !.offset = k] \in Listing
  BY DEF Listing
<1> QED BY <1>1, <1>2

LEMMA NvidiaKeepsPushes ==
    ASSUME TypeOK, Nvidia
    PROVE  /\ UNCHANGED <<store, builder>>
           /\ \A p \in Process : job'[p].pc = job[p].pc
           /\ \A p \in Process : job[p].pc # "list" => job'[p] = job[p]
<1>1. UNCHANGED <<store, builder>> /\ (job' = job \/ Shifts)
  BY DEF Nvidia, Release, Withdraw, Repush, Change
<1>2. ASSUME Shifts, NEW p \in Process, job[p].pc = "list" PROVE job'[p].pc = job[p].pc
  <2>1. job[p] \in Listing
    BY <1>2, JobKinds
  <2> QED BY <1>2, <2>1 DEF Shifts, Listing
<1>3. ASSUME Shifts, NEW p \in Process, job[p].pc # "list" PROVE job'[p] = job[p]
  BY <1>3 DEF Shifts
<1> QED BY <1>1, <1>2, <1>3

LEMMA RacedTyped ==
    ASSUME NEW h, NEW t
    PROVE  /\ (raced \/ Uploading(h, t)) \in BOOLEAN
           /\ (raced \/ Uploading(h, t) \/ BeingPulled(h, t)) \in BOOLEAN
BY Zenon DEF Uploading, BeingPulled

\* A project's build reads the tag of its host's architecture.
LEMMA HostTagOf ==
    ASSUME NEW h \in Host, NEW f \in Flavor
    PROVE  HostTag(h, f) \in Tag /\ HostTag(h, f).arch = ArchOf[h]
BY HostsAssumption DEF HostTag, Tag

LEMMA BeginPullTyped ==
    ASSUME TypeOK, NEW h \in Host, NEW t \in Tag, BeginPull(h, t)
    PROVE  TypeOK'
<1>1. raced' \in BOOLEAN
  BY RacedTyped DEF BeginPull
<1>2. [host |-> h, tag |-> t, image |-> hub[t]] \in Pulling
  BY DEF BeginPull, TypeOK, Maybe, Pulling
<1>3. pulls' \in SUBSET Pulling
  BY <1>2 DEF BeginPull, TypeOK
<1> QED BY <1>1, <1>3 DEF BeginPull, TypeOK, upstream

LEMMA ResolveKinds ==
    ASSUME TypeOK, NEW p \in Process, NEW tags, Resolve(p, tags)
    PROVE  \A q \in Process : job'[q] = job[q] \/ job'[q].pc \in {"idle", "tools"}
<1>1. CASE Ends(p)
  BY <1>1 DEF Ends, Goto, Idle, TypeOK
<1>2. ASSUME NEW v, Goto(p, [pc |-> "tools", tag |-> job[p].tag, base |-> v,
                             goal |-> job[p].goal, shifted |-> job[p].shifted])
      PROVE  \A q \in Process : job'[q] = job[q] \/ job'[q].pc \in {"idle", "tools"}
  BY <1>2 DEF Goto, TypeOK
<1> QED BY <1>1, <1>2 DEF Resolve

LEMMA TypeStep == TypeOK /\ [Next]_vars => TypeOK'
<1> SUFFICES ASSUME TypeOK, [Next]_vars PROVE TypeOK'
  OBVIOUS
<1> USE DEF upstream, store
<1>1. ASSUME NEW p \in Process, NEW t \in Tag, BeginBuild(p, t) PROVE TypeOK'
  <2>1. For(t.arch, Entries) \subseteq Cuda
    BY PageListed, ForCuda
  <2>2. CASE t.flavor = "cuda"
    <3>1. [pc |-> "list", tag |-> t, seen |-> {}, offset |-> 0,
           goal |-> For(t.arch, Entries), shifted |-> FALSE] \in Listing
      BY <2>1 DEF Listing
    <3> QED BY <1>1, <2>2, <3>1 DEF BeginBuild, Goto, TypeOK
  <2>3. CASE t.flavor # "cuda"
    <3>1. [pc |-> "tools", tag |-> t, base |-> CpuBase, goal |-> {}, shifted |-> FALSE]
          \in Building
      BY DEF Building
    <3> QED BY <1>1, <2>3, <3>1 DEF BeginBuild, Goto, TypeOK
  <2> QED BY <2>2, <2>3
<1>2. ASSUME NEW p \in Process, NEW t \in Tag, BeginPush(p, t) PROVE TypeOK'
  <2>1. HostOf[p] \in Host
    BY HostsAssumption
  <2>2. local[HostOf[p]][t] \in Image
    BY <1>2, <2>1 DEF BeginPush, TypeOK, Maybe
  <2>3. raced' = (raced \/ Uploading(HostOf[p], t) \/ BeingPulled(HostOf[p], t))
    BY <1>2 DEF BeginPush
  <2>4. raced' \in BOOLEAN
    BY <2>3, RacedTyped
  <2> QED BY <1>2, <2>2, <2>4 DEF BeginPush, Goto, TypeOK, Pushing
<1>3. ASSUME NEW p \in Process, Fetch(p) PROVE TypeOK'
  <2>1. job[p] \in Listing /\ PageSize \in Nat /\ Page(job[p].offset) \subseteq Listed
    BY <1>3, JobKinds, PageListed, PageAssumption DEF Fetch
  <2> DEFINE next == [job[p] EXCEPT !.seen = @ \cup Page(job[p].offset),
                                     !.offset = @ + PageSize]
  <2>2. job[p].seen \cup Page(job[p].offset) \in SUBSET Listed /\ job[p].offset + PageSize \in Nat
    BY <2>1 DEF Listing
  <2>5. next \in Listing
    BY <2>1, <2>2, NextPage
  <2>3. job' = [job EXCEPT ![p] = next]
    BY <1>3 DEF Fetch, Goto
  <2> HIDE DEF next
  <2>4. job' \in [Process -> {Idle} \cup Listing \cup Building \cup Pushing]
    BY <2>5, <2>3 DEF TypeOK
  <2> QED BY <1>3, <2>4 DEF Fetch, TypeOK
<1>4. ASSUME NEW p \in Process, FetchLast(p) PROVE TypeOK'
  <2>1. job[p] \in Listing /\ job[p].pc = "list" /\ Page(job[p].offset) \subseteq Listed
    BY <1>4, JobKinds, PageListed DEF FetchLast
  <2>2. job[p].seen \cup Page(job[p].offset) \in SUBSET Listed
    BY <2>1 DEF Listing
  <2>3. job' \in [Process -> {Idle} \cup Listing \cup Building \cup Pushing]
    BY <1>4, <2>1, <2>2, ResolveTyped DEF FetchLast
  <2> QED BY <1>4, <2>3 DEF FetchLast, TypeOK
<1>5. ASSUME NEW p \in Process, ResolveTools(p) PROVE TypeOK'
  <2> DEFINE next == [job[p] EXCEPT !.pc = "build"]
  <2>1. job[p] \in Building
    BY <1>5, JobKinds DEF ResolveTools
  <2>2. next \in Building
    BY <2>1 DEF Building
  <2>3. job' = [job EXCEPT ![p] = next]
    BY <1>5 DEF ResolveTools, Goto
  <2> HIDE DEF next
  <2>4. job' \in [Process -> {Idle} \cup Listing \cup Building \cup Pushing]
    BY <2>2, <2>3 DEF TypeOK
  <2> QED BY <1>5, <2>4 DEF ResolveTools, TypeOK
<1>6. ASSUME NEW p \in Process, ResolveFails(p) PROVE TypeOK'
  BY <1>6 DEF ResolveFails, Ends, Goto, TypeOK
<1>7. ASSUME NEW p \in Process, DockerBuild(p) PROVE TypeOK'
  <2>0. job[p].tag \in Tag
    BY <1>7, JobKinds DEF DockerBuild, Building
  <2>1. HostOf[p] \in Host /\ Built(HostOf[p]) \in Maybe
    BY HostsAssumption DEF Built, TypeOK, Image, Maybe
  <2>2. made' \in [Host -> [Tag -> Maybe]]
    BY <1>7, <2>0, <2>1 DEF DockerBuild, TypeOK, Maybe
  <2>3. local' \in [Host -> [Tag -> Maybe]] /\ serial' \in Nat
    BY <1>7, <2>0, <2>1 DEF DockerBuild, TypeOK
  <2> QED BY <1>7, <2>2, <2>3 DEF DockerBuild, Ends, Goto, TypeOK
<1>8. ASSUME NEW p \in Process, DockerBuildFails(p) PROVE TypeOK'
  BY <1>8 DEF DockerBuildFails, Ends, Goto, TypeOK
<1>9. ASSUME NEW p \in Process, Push(p) PROVE TypeOK'
  <2>1. job[p].tag \in Tag /\ job[p].image \in Image
    BY <1>9, JobKinds DEF Push, Pushing
  <2> QED BY <1>9, <2>1 DEF Push, Ends, Goto, TypeOK, Maybe
<1>10. ASSUME NEW h \in Host, NEW f \in Flavor, BuildProject(h, f) \/ BuildBinary(h, f)
       PROVE  TypeOK'
  <2>1. HostTag(h, f) \in Tag /\ BeginPull(h, HostTag(h, f))
    BY <1>10, HostTagOf DEF BuildProject, BuildBinary
  <2> QED BY <2>1, BeginPullTyped
<1>11. ASSUME NEW x \in pulls, Pulled(x) \/ PullFails(x) PROVE TypeOK'
  <2>1. x \in Pulling
    BY DEF TypeOK
  <2>2. pulls' \in SUBSET Pulling
    BY <1>11 DEF Pulled, PullFails, TypeOK
  <2>3. local' \in [Host -> [Tag -> Maybe]]
    BY <1>11, <2>1 DEF Pulled, PullFails, TypeOK, Pulling, Maybe
  <2> QED BY <1>11, <2>2, <2>3 DEF Pulled, PullFails, TypeOK
<1>12. ASSUME NEW e \in [version : Cuda, archs : Manifests], Release(e) PROVE TypeOK'
  <2>1. e \in Listed
    BY DEF Listed
  <2>2. <<e>> \o registry \in Seq(Listed)
    BY <2>1, ConcatProperties DEF TypeOK
  <2> QED BY <1>12, <2>2 DEF Release, Change, TypeOK
<1>13. ASSUME NEW i \in DOMAIN registry, Withdraw(i) PROVE TypeOK'
  <2>1. registry' \in Seq(Listed)
    BY <1>13, WithoutTyped DEF Withdraw, TypeOK
  <2> QED BY <1>13, <2>1, ShiftsTyped DEF Withdraw, Change, TypeOK
<1>14. ASSUME NEW i \in DOMAIN registry, NEW archs \in Manifests, Repush(i, archs)
       PROVE TypeOK'
  <2>0. registry[i] \in Listed
    BY ElementOfSeq, LenProperties DEF TypeOK
  <2>1. [registry[i] EXCEPT !.archs = archs] \in Listed
    BY <2>0 DEF Listed
  <2>2. Without(i) \in Seq(Listed)
    BY WithoutTyped DEF TypeOK
  <2>3. registry' \in Seq(Listed)
    BY <1>14, <2>1, <2>2, ConcatProperties DEF Repush
  <2> QED BY <1>14, <2>3, ShiftsTyped DEF Repush, Change, TypeOK
<1>15. CASE UNCHANGED vars
  BY <1>15 DEF vars, TypeOK
<1> QED BY <1>1, <1>2, <1>3, <1>4, <1>5, <1>6, <1>7, <1>8, <1>9, <1>10, <1>11, <1>12,
           <1>13, <1>14, <1>15 DEF Next, Step, Nvidia

\* Every reachable state is well typed; a process that uploads has an image.
THEOREM TypeCorrect == Spec => []TypeOK
BY TypeInit, TypeStep, PTL DEF Spec

-----------------------------------------------------------------------------
(* Tags and architectures.                                                 *)

ArchInv ==
    /\ TagTellsArch
    /\ \A p \in Process : job[p].pc = "push" => job[p].image.arch = job[p].tag.arch
    /\ \A x \in pulls : x.image.arch = x.tag.arch

LEMMA ArchStep == TypeOK /\ ArchInv /\ [Next]_vars => ArchInv'
<1> SUFFICES ASSUME TypeOK, ArchInv, [Next]_vars PROVE ArchInv'
  OBVIOUS
<1> USE NoneAssumption, HostsAssumption DEF upstream, store, ArchInv, TagTellsArch
<1>1. ASSUME NEW p \in Process, NEW t \in Tag, BeginBuild(p, t) PROVE ArchInv'
  <2>1. hub' = hub /\ local' = local /\ pulls' = pulls
    BY <1>1 DEF BeginBuild
  <2>2. job'[p].pc \in {"list", "tools"} /\ \A q \in Process \ {p} : job'[q] = job[q]
    BY <1>1 DEF BeginBuild, Goto, TypeOK
  <2> QED BY <2>1, <2>2
<1>2. ASSUME NEW p \in Process, NEW t \in Tag, BeginPush(p, t) PROVE ArchInv'
  BY <1>2 DEF BeginPush, Goto, TypeOK
<1>3. ASSUME NEW p \in Process, Fetch(p) PROVE ArchInv'
  <2>1. job[p] \in Listing /\ job[p].pc = "list"
    BY <1>3, JobKinds DEF Fetch
  <2>2. job'[p].pc = "list" /\ \A q \in Process \ {p} : job'[q] = job[q]
    BY <1>3, <2>1 DEF Fetch, Goto, TypeOK, Listing
  <2> QED BY <1>3, <2>2 DEF Fetch
<1>4. ASSUME NEW p \in Process, FetchLast(p) PROVE ArchInv'
  <2>1. \A q \in Process : job'[q] = job[q] \/ job'[q].pc \in {"idle", "tools"}
    BY <1>4, ResolveKinds DEF FetchLast
  <2> QED BY <1>4, <2>1 DEF FetchLast
<1>5. ASSUME NEW p \in Process, ResolveTools(p) PROVE ArchInv'
  <2>1. job[p] \in Building
    BY <1>5, JobKinds DEF ResolveTools
  <2>2. job'[p].pc = "build" /\ \A q \in Process \ {p} : job'[q] = job[q]
    BY <1>5, <2>1 DEF ResolveTools, Goto, TypeOK, Building
  <2> QED BY <1>5, <2>2 DEF ResolveTools
<1>6. ASSUME NEW p \in Process, ResolveFails(p) PROVE ArchInv'
  BY <1>6 DEF ResolveFails, Ends, Goto, Idle, TypeOK
<1>7. ASSUME NEW p \in Process, DockerBuild(p) PROVE ArchInv'
  <2>1. job[p].tag \in Tag /\ HostOf[p] \in Host
    BY <1>7, JobKinds DEF DockerBuild, Building
  <2> QED BY <1>7, <2>1 DEF DockerBuild, Built, Ends, Goto, Idle, TypeOK
<1>8. ASSUME NEW p \in Process, DockerBuildFails(p) PROVE ArchInv'
  BY <1>8 DEF DockerBuildFails, Ends, Goto, Idle, TypeOK
<1>9. ASSUME NEW p \in Process, Push(p) PROVE ArchInv'
  <2>1. job[p].tag \in Tag
    BY <1>9, JobKinds DEF Push, Pushing
  <2> QED BY <1>9, <2>1 DEF Push, Ends, Goto, Idle, TypeOK
<1>10. ASSUME NEW h \in Host, NEW f \in Flavor, BuildProject(h, f) \/ BuildBinary(h, f)
       PROVE  ArchInv'
  <2>1. HostTag(h, f) \in Tag /\ BeginPull(h, HostTag(h, f))
    BY <1>10, HostTagOf DEF BuildProject, BuildBinary
  <2>2. \A x \in pulls' : x.image.arch = x.tag.arch
    BY <2>1 DEF BeginPull
  <2> QED BY <2>1, <2>2 DEF BeginPull
<1>11. ASSUME NEW x \in pulls, Pulled(x) \/ PullFails(x) PROVE ArchInv'
  <2>1. x \in Pulling /\ x.image.arch = x.tag.arch
    BY DEF TypeOK
  <2>2. pulls' \subseteq pulls /\ hub' = hub /\ job' = job
    BY <1>11 DEF Pulled, PullFails
  <2>3. CASE local' = local
    BY <2>2, <2>3
  <2>4. CASE local' = [local EXCEPT ![x.host][x.tag] = x.image]
    BY <2>1, <2>2, <2>4 DEF TypeOK, Pulling
  <2> QED BY <1>11, <2>3, <2>4 DEF Pulled, PullFails
<1>12. CASE Nvidia
  <2>1. UNCHANGED store /\ \A p \in Process : job[p].pc = "push" <=> job'[p].pc = "push"
    BY <1>12, NvidiaKeepsPushes
  <2>2. \A p \in Process : job'[p].pc = "push" => job'[p] = job[p]
    BY <1>12, NvidiaKeepsPushes
  <2> QED BY <2>1, <2>2
<1>13. CASE UNCHANGED vars
  BY <1>13 DEF vars
<1> QED BY <1>1, <1>2, <1>3, <1>4, <1>5, <1>6, <1>7, <1>8, <1>9, <1>10, <1>11, <1>12,
           <1>13 DEF Next, Step

\* Whatever --arch is given to base build and base push, on any number of hosts:
\* a tag names images of its architecture only.
THEOREM TagsTellArch == Spec => []TagTellsArch
<1>1. Init => ArchInv
  BY DEF Init, ArchInv, TagTellsArch, Idle
<1>2. ArchInv => TagTellsArch
  BY DEF ArchInv
<1> QED BY <1>1, <1>2, ArchStep, TypeCorrect, PTL DEF Spec

-----------------------------------------------------------------------------
(* What is pushed.                                                         *)

LEMMA BuilderStays == [Next]_vars => builder' = builder
<1>1. ASSUME NEW p \in Process, Step(p) PROVE builder' = builder
  BY <1>1 DEF Step, BeginBuild, BeginPush, Fetch, FetchLast, ResolveTools, ResolveFails,
     DockerBuild, DockerBuildFails, Push
<1>2. ASSUME NEW h \in Host, NEW f \in Flavor, BuildProject(h, f) \/ BuildBinary(h, f)
      PROVE builder' = builder
  BY <1>2 DEF BuildProject, BuildBinary, BeginPull
<1>3. CASE Nvidia
  BY <1>3 DEF Nvidia, Release, Withdraw, Repush, Change
<1>4. ASSUME NEW x, Pulled(x) \/ PullFails(x) PROVE builder' = builder
  BY <1>4 DEF Pulled, PullFails
<1> QED BY <1>1, <1>2, <1>3, <1>4 DEF Next, vars

\* With BuildKit a tag whose last build is known has its image, and no pull of
\* it is under way: none begins where there is an image.
LastInv ==
    builder = "buildkit" =>
        \A h \in Host, t \in Tag : made[h][t] # None =>
            local[h][t] = made[h][t] /\ ~BeingPulled(h, t)

LEMMA LastBuiltStep == TypeOK /\ LastInv /\ [Next]_vars => LastInv'
<1> SUFFICES ASSUME TypeOK, LastInv, [Next]_vars, builder = "buildkit"
             PROVE  LastInv'
  BY BuilderStays DEF LastInv
<1> USE NoneAssumption, HostsAssumption DEF upstream, store, LastInv
<1>1. ASSUME NEW p \in Process, DockerBuild(p) PROVE LastInv'
  <2>1. job[p].tag \in Tag /\ HostOf[p] \in Host
    BY <1>1, JobKinds DEF DockerBuild, Building
  <2>2. \A g \in Host, u \in Tag : BeingPulled(g, u)' <=> BeingPulled(g, u)
    BY <1>1 DEF DockerBuild, BeingPulled
  <2>3. ASSUME NEW g \in Host, NEW u \in Tag, g # HostOf[p] \/ u # job[p].tag
        PROVE  local'[g][u] = local[g][u] /\ made'[g][u] = made[g][u]
    BY <1>1, <2>1, <2>3 DEF DockerBuild, TypeOK
  <2>4. /\ local'[HostOf[p]][job[p].tag] = Built(HostOf[p])
        /\ made'[HostOf[p]][job[p].tag] =
              IF BeingPulled(HostOf[p], job[p].tag) THEN None ELSE Built(HostOf[p])
    BY <1>1, <2>1 DEF DockerBuild, TypeOK
  <2> QED BY <2>1, <2>2, <2>3, <2>4
<1>2. ASSUME NEW h \in Host, NEW f \in Flavor, BuildProject(h, f) PROVE LastInv'
  BY <1>2 DEF BuildProject
<1>3. ASSUME NEW h \in Host, NEW f \in Flavor, BuildBinary(h, f) PROVE LastInv'
  <2> DEFINE t == HostTag(h, f)
  <2>1. t \in Tag /\ local[h][t] = None /\ BeginPull(h, t)
    BY <1>3, HostTagOf DEF BuildBinary
  <2>2. made[h][t] = None
    BY <2>1
  <2> HIDE DEF t
  <2>3. ASSUME NEW g \in Host, NEW u \in Tag, made[g][u] # None, BeingPulled(g, u)'
        PROVE  BeingPulled(g, u)
    <3>1. g # h \/ u # t
      BY <2>2, <2>3
    <3> QED BY <2>1, <2>3, <3>1 DEF BeginPull, BeingPulled
  <2>4. local' = local /\ made' = made
    BY <2>1 DEF BeginPull
  <2> QED BY <2>3, <2>4
<1>4. ASSUME NEW x \in pulls, Pulled(x) \/ PullFails(x) PROVE LastInv'
  <2>1. x.host \in Host /\ x.tag \in Tag /\ BeingPulled(x.host, x.tag)
    BY DEF TypeOK, Pulling, BeingPulled
  <2>2. made' = made /\ made[x.host][x.tag] = None
    BY <1>4, <2>1 DEF Pulled, PullFails
  <2>3. \A g \in Host, u \in Tag :
            (g # x.host \/ u # x.tag) => local'[g][u] = local[g][u]
    BY <1>4, <2>1 DEF Pulled, PullFails, TypeOK
  <2>4. \A g \in Host, u \in Tag : BeingPulled(g, u)' => BeingPulled(g, u)
    BY <1>4 DEF Pulled, PullFails, BeingPulled
  <2> QED BY <2>2, <2>3, <2>4
<1>5. ASSUME UNCHANGED <<local, made, pulls>> PROVE LastInv'
  BY <1>5 DEF BeingPulled
<1> QED
  BY <1>1, <1>2, <1>3, <1>4, <1>5 DEF Next, Step, Nvidia, vars, BeginBuild, BeginPush,
     Fetch, FetchLast, ResolveTools, ResolveFails, DockerBuildFails, Push, Release,
     Withdraw, Repush, Change

\* With BuildKit the local tag, and with it what a push uploads, is the last
\* image that the host built, unless a pull that began while the host had no
\* image for the tag was still under way when that build ended.
THEOREM LastBuiltIsPushed == Spec => []PushesTheLastBuilt
<1>1. Init => LastInv
  BY DEF Init, LastInv
<1>2. LastInv => PushesTheLastBuilt
  BY DEF LastInv, PushesTheLastBuilt
<1> QED BY <1>1, <1>2, LastBuiltStep, TypeCorrect, PTL DEF Spec

-----------------------------------------------------------------------------
(* The listing of the CUDA tags.                                           *)

\* Version v is on a page that process p has fetched, or still to come.
Findable(p, v) ==
    \E i \in DOMAIN registry :
        /\ registry[i].version = v /\ job[p].tag.arch \in registry[i].archs
        /\ i <= job[p].offset => registry[i] \in job[p].seen

NewestInv ==
    /\ FindsTheNewest
    /\ \A p \in Process : (job[p].pc = "list" /\ ~job[p].shifted) =>
                             \A v \in job[p].goal : Findable(p, v)

LEMMA FetchFinds ==
    ASSUME TypeOK, NewestInv, NEW p \in Process, Fetch(p)
    PROVE  NewestInv'
<1>1. job[p] \in Listing /\ job[p].pc = "list"
  BY JobKinds DEF Fetch
<1>2. /\ job'[p].pc = "list" /\ job'[p].tag = job[p].tag /\ job'[p].goal = job[p].goal
      /\ job'[p].shifted = job[p].shifted
      /\ job'[p].seen = job[p].seen \cup Page(job[p].offset)
      /\ job'[p].offset = job[p].offset + PageSize
      /\ \A q \in Process \ {p} : job'[q] = job[q]
      /\ registry' = registry
  BY <1>1 DEF Fetch, Goto, TypeOK, Listing, upstream
<1>3. ASSUME NEW v \in job[p].goal, Findable(p, v) PROVE Findable(p, v)'
  <2>1. PICK i \in DOMAIN registry :
           /\ registry[i].version = v /\ job[p].tag.arch \in registry[i].archs
           /\ i <= job[p].offset => registry[i] \in job[p].seen
    BY <1>3 DEF Findable
  <2>2. i \in Nat /\ job[p].offset \in Nat /\ PageSize \in Nat
    BY <1>1, PageAssumption, LenProperties DEF TypeOK, Listing
  <2>3. i <= job[p].offset + PageSize => registry[i] \in job'[p].seen
    BY <1>2, <2>1, <2>2 DEF Page
  <2> QED BY <1>2, <2>1, <2>3 DEF Findable
<1> QED BY <1>1, <1>2, <1>3 DEF NewestInv, FindsTheNewest, Findable

\* The order of the resolver is that of the versions' numbers.
LEMMA Newest ==
    ASSUME NEW v \in Cuda, NEW w \in Cuda, ~Newer(v, w)
    PROVE  AtLeast(w, v)
<1>1. /\ v[1] \in Nat /\ v[2] \in Nat /\ v[3] \in Nat
      /\ w[1] \in Nat /\ w[2] \in Nat /\ w[3] \in Nat
  BY CudaAssumption
<1>2. ~(v[1] > w[1])
  BY DEF Newer
<1>3. v[1] = w[1] => ~(v[2] > w[2])
  BY DEF Newer
<1>4. v[1] = w[1] /\ v[2] = w[2] => ~(v[3] > w[3])
  BY DEF Newer
<1> QED BY <1>1, <1>2, <1>3, <1>4 DEF AtLeast

LEMMA LastPageFinds ==
    ASSUME TypeOK, NewestInv, NEW p \in Process, FetchLast(p)
    PROVE  NewestInv'
<1> DEFINE tags == job[p].seen \cup Page(job[p].offset)
           found == For(job[p].tag.arch, tags)
<1>1. job[p] \in Listing /\ job[p].pc = "list" /\ registry' = registry
  BY JobKinds DEF FetchLast, upstream
<1>2. ASSUME ~job[p].shifted, NEW v \in job[p].goal PROVE v \in found
  <2>1. PICK i \in DOMAIN registry :
           /\ registry[i].version = v /\ job[p].tag.arch \in registry[i].archs
           /\ i <= job[p].offset => registry[i] \in job[p].seen
    BY <1>1, <1>2 DEF NewestInv, Findable
  <2>2. /\ i \in Nat /\ i <= Len(registry) /\ Len(registry) \in Nat
        /\ job[p].offset \in Nat /\ PageSize \in Nat
    BY <1>1, PageAssumption, LenProperties DEF TypeOK, Listing
  <2>3. i <= job[p].offset + PageSize
    BY <2>2 DEF FetchLast, More
  <2>4. registry[i] \in tags
    BY <2>1, <2>2, <2>3 DEF Page
  <2>5. v # None
    BY <1>1, NoneAssumption DEF Listing
  <2> QED BY <2>1, <2>4, <2>5 DEF For
<1>3. CASE Ends(p)
  BY <1>1, <1>3 DEF Ends, Goto, Idle, TypeOK, NewestInv, FindsTheNewest, Findable
<1>4. ASSUME NEW v \in found, \A w \in found : ~Newer(w, v),
             Goto(p, [pc |-> "tools", tag |-> job[p].tag, base |-> v,
                      goal |-> job[p].goal, shifted |-> job[p].shifted])
      PROVE  NewestInv'
  <2>1. /\ job'[p].pc = "tools" /\ job'[p].base = v
        /\ job'[p].goal = job[p].goal /\ job'[p].shifted = job[p].shifted
        /\ \A q \in Process \ {p} : job'[q] = job[q]
    BY <1>4 DEF Goto, TypeOK
  <2>3. found \subseteq Cuda
    <3>1. tags \subseteq Listed
      BY <1>1, PageListed DEF Listing
    <3> QED BY <3>1, ForCuda
  <2> HIDE DEF found
  <2>2. ~job[p].shifted => \A w \in job[p].goal : AtLeast(v, w)
    BY <1>2, <1>4, <2>3, Newest
  <2> QED BY <1>1, <2>1, <2>2 DEF NewestInv, FindsTheNewest, Findable
<1> QED BY <1>3, <1>4 DEF FetchLast, Resolve

LEMMA ReleaseFinds ==
    ASSUME TypeOK, NewestInv, NEW e \in [version : Cuda, archs : Manifests], Release(e)
    PROVE  NewestInv'
<1>1. job' = job /\ registry' = <<e>> \o registry
  BY DEF Release
<1>2. /\ Len(registry) \in Nat /\ DOMAIN registry = 1..Len(registry)
      /\ DOMAIN registry' = 1..(Len(registry) + 1)
      /\ \A i \in 1..Len(registry) : registry'[i + 1] = registry[i]
  <2>1. <<e>> \in Seq(Listed) /\ Len(<<e>>) = 1
    BY DEF Listed
  <2>2. registry \in Seq(Listed)
    BY DEF TypeOK
  <2> QED BY <1>1, <2>1, <2>2, ConcatProperties, LenProperties
<1>3. ASSUME NEW p \in Process, job[p].pc = "list", NEW v, Findable(p, v)
      PROVE  Findable(p, v)'
  <2>1. PICK i \in DOMAIN registry :
           /\ registry[i].version = v /\ job[p].tag.arch \in registry[i].archs
           /\ i <= job[p].offset => registry[i] \in job[p].seen
    BY <1>3 DEF Findable
  <2>2. job[p].offset \in Nat
    BY <1>3, JobKinds DEF Listing
  <2>3. i + 1 \in DOMAIN registry' /\ registry'[i + 1] = registry[i]
    BY <1>2
  <2>4. i + 1 <= job[p].offset => i <= job[p].offset
    BY <1>2, <2>2
  <2> QED BY <1>1, <2>1, <2>3, <2>4 DEF Findable
<1> QED BY <1>1, <1>3 DEF NewestInv, FindsTheNewest

LEMMA NewestStep == TypeOK /\ NewestInv /\ [Next]_vars => NewestInv'
<1> SUFFICES ASSUME TypeOK, NewestInv, [Next]_vars PROVE NewestInv'
  OBVIOUS
<1> USE DEF upstream
<1>1. ASSUME NEW p \in Process, NEW t \in Tag, BeginBuild(p, t) PROVE NewestInv'
  <2>1. registry' = registry /\ \A q \in Process \ {p} : job'[q] = job[q]
    BY <1>1 DEF BeginBuild, Goto, TypeOK
  <2>2. CASE t.flavor = "cuda"
    <3>1. /\ job'[p].pc = "list" /\ job'[p].tag = t /\ job'[p].offset = 0
          /\ job'[p].goal = For(t.arch, Entries)
      BY <1>1, <2>2 DEF BeginBuild, Goto, TypeOK
    <3>2. ASSUME NEW v \in For(t.arch, Entries) PROVE Findable(p, v)'
      <4>1. PICK i \in DOMAIN registry : registry[i].version = v /\ t.arch \in registry[i].archs
        BY DEF For, Entries
      <4>2. ~(i <= 0)
        BY LenProperties DEF TypeOK
      <4> QED BY <2>1, <3>1, <4>1, <4>2 DEF Findable
    <3> QED BY <2>1, <3>1, <3>2 DEF NewestInv, FindsTheNewest, Findable
  <2>3. CASE t.flavor # "cuda"
    <3>1. job'[p].pc = "tools" /\ job'[p].goal = {}
      BY <1>1, <2>3 DEF BeginBuild, Goto, TypeOK
    <3> QED BY <2>1, <3>1 DEF NewestInv, FindsTheNewest, Findable
  <2> QED BY <2>2, <2>3
<1>2. ASSUME NEW p \in Process, NEW t \in Tag, BeginPush(p, t) PROVE NewestInv'
  BY <1>2 DEF BeginPush, Goto, TypeOK, NewestInv, FindsTheNewest, Findable
<1>3. ASSUME NEW p \in Process, Fetch(p) PROVE NewestInv'
  BY <1>3, FetchFinds
<1>4. ASSUME NEW p \in Process, FetchLast(p) PROVE NewestInv'
  BY <1>4, LastPageFinds
<1>5. ASSUME NEW p \in Process, ResolveTools(p) PROVE NewestInv'
  <2>1. job[p] \in Building /\ job[p].pc = "tools"
    BY <1>5, JobKinds DEF ResolveTools
  <2>2. /\ job'[p].pc = "build" /\ job'[p].base = job[p].base
        /\ job'[p].goal = job[p].goal /\ job'[p].shifted = job[p].shifted
        /\ \A q \in Process \ {p} : job'[q] = job[q]
        /\ registry' = registry
    BY <1>5, <2>1 DEF ResolveTools, Goto, TypeOK, Building
  <2> QED BY <2>1, <2>2 DEF NewestInv, FindsTheNewest, Findable
<1>6. ASSUME NEW p \in Process, Ends(p), registry' = registry PROVE NewestInv'
  BY <1>6 DEF Ends, Goto, Idle, TypeOK, NewestInv, FindsTheNewest, Findable
<1>7. ASSUME NEW e \in [version : Cuda, archs : Manifests], Release(e) PROVE NewestInv'
  BY <1>7, ReleaseFinds
<1>8. ASSUME Shifts PROVE NewestInv'
  <2>1. ASSUME NEW p \in Process, job[p].pc = "list"
        PROVE  job'[p].pc = "list" /\ job'[p].shifted
    <3>1. job[p] \in Listing
      BY <2>1, JobKinds
    <3> QED BY <1>8, <2>1, <3>1 DEF Shifts, Listing
  <2>2. ASSUME NEW p \in Process, job[p].pc # "list" PROVE job'[p] = job[p]
    BY <1>8, <2>2 DEF Shifts
  <2> QED BY <2>1, <2>2 DEF NewestInv, FindsTheNewest
<1>9. ASSUME UNCHANGED <<registry, job>> PROVE NewestInv'
  BY <1>9 DEF NewestInv, FindsTheNewest, Findable
<1>10. ASSUME NEW p \in Process, Step(p) PROVE NewestInv'
  BY <1>1, <1>2, <1>3, <1>4, <1>5, <1>6, <1>10 DEF Step, ResolveFails, DockerBuild,
     DockerBuildFails, Push
<1>11. CASE Nvidia
  BY <1>7, <1>8, <1>11 DEF Nvidia, Withdraw, Repush
<1> QED
  BY <1>9, <1>10, <1>11 DEF Next, vars, upstream, BuildProject, BuildBinary, BeginPull,
     Pulled, PullFails

\* For any registry, page size, number of processes and of releases between two
\* pages: what is resolved is the newest that there was when the listing began,
\* unless a tag that was listed moved or went meanwhile.
THEOREM NewestIsFound == Spec => []FindsTheNewest
<1>1. Init => NewestInv
  BY DEF Init, NewestInv, FindsTheNewest, Idle
<1>2. NewestInv => FindsTheNewest
  BY DEF NewestInv
<1> QED BY <1>1, <1>2, NewestStep, TypeCorrect, PTL DEF Spec

-----------------------------------------------------------------------------
(* The hub only gets newer images, where each architecture has one         *)
(* publisher: the publisher's own tag is never behind the hub's, nor is    *)
(* what it pulls.                                                          *)

Behind(p, t) == hub[t] # None => local[HostOf[p]][t] # None
                                 /\ hub[t].serial <= local[HostOf[p]][t].serial

\* What process p is uploading is no older than the hub's image, no newer than
\* the local one, and nobody else uploads that tag, nor does the host pull it.
Ahead(p) ==
    LET t == job[p].tag
    IN  /\ t.arch = ArchOf[HostOf[p]]
        /\ local[HostOf[p]][t] # None
        /\ job[p].image.serial <= local[HostOf[p]][t].serial
        /\ hub[t] # None => hub[t].serial <= job[p].image.serial
        /\ \A q \in Process : (job[q].pc = "push" /\ job[q].tag = t) => q = p
        /\ ~BeingPulled(HostOf[p], t)

\* What the host of process p pulls is what the hub has.
Fresh(p) == \A x \in pulls : x.host = HostOf[p] => x.image = hub[x.tag]

HubInv ==
    /\ \A h \in Host, t \in Tag :
          local[h][t] # None => t.arch = ArchOf[h] /\ local[h][t].serial <= serial
    /\ (OnePublisher /\ ~raced) =>
          /\ \A p \in Process, t \in Tag : t.arch = ArchOf[HostOf[p]] => Behind(p, t)
          /\ \A p \in Process : (job[p].pc = "push" => Ahead(p)) /\ Fresh(p)
    /\ \A x \in pulls : x.tag.arch = ArchOf[x.host] /\ x.image.serial <= serial
    /\ \A t \in Tag : hub[t] # None => hub[t].serial <= serial
    /\ \A p \in Process : job[p].pc = "push" => job[p].image.serial <= serial

LEMMA HubBuild == ASSUME TypeOK, HubInv, NEW p \in Process, DockerBuild(p) PROVE HubInv'
<1> USE HostsAssumption, NoneAssumption
<1> DEFINE h == HostOf[p]  t == job[p].tag
<1>1. t \in Tag /\ h \in Host /\ t.arch = ArchOf[h] /\ job[p].pc = "build"
  BY JobKinds DEF DockerBuild, Building
<1>2. /\ serial' = serial + 1 /\ serial \in Nat
      /\ local' = [local EXCEPT ![h][t] = Built(h)]
      /\ Built(h) \in Image /\ Built(h).serial = serial + 1
      /\ hub' = hub /\ raced' = raced /\ pulls' = pulls
  <2>1. serial \in Nat
    BY DEF TypeOK
  <2>2. Built(h) \in Image /\ Built(h).serial = serial + 1
    BY <1>1, <2>1 DEF Built, Image
  <2> QED BY <2>1, <2>2 DEF DockerBuild
<1>3. job'[p].pc = "idle" /\ \A q \in Process \ {p} : job'[q] = job[q]
  BY DEF DockerBuild, Ends, Goto, Idle, TypeOK
<1>4. /\ local'[h][t] = Built(h)
      /\ \A g \in Host, u \in Tag : (g # h \/ u # t) => local'[g][u] = local[g][u]
  BY <1>1, <1>2 DEF TypeOK
<1>5. /\ \A g \in Host, u \in Tag : local[g][u] # None => local[g][u].serial \in Nat
      /\ \A u \in Tag : hub[u] # None => hub[u].serial \in Nat
      /\ \A q \in Process : job[q].pc = "push" => job[q].tag \in Tag /\ job[q].image.serial \in Nat
  BY JobKinds DEF TypeOK, Maybe, Image, Pushing
<1>10. \A x \in pulls : x.image.serial \in Nat
  BY DEF TypeOK, Pulling, Image
<1>6. ASSUME NEW g \in Host, NEW u \in Tag, local'[g][u] # None
      PROVE  u.arch = ArchOf[g] /\ local'[g][u].serial <= serial'
  BY <1>1, <1>2, <1>4, <1>5, <1>6 DEF HubInv
<1>7. ASSUME OnePublisher, ~raced, NEW q \in Process, NEW u \in Tag, u.arch = ArchOf[HostOf[q]]
      PROVE  Behind(q, u)'
  BY <1>1, <1>2, <1>4, <1>5, <1>7 DEF HubInv, Behind
<1>8. ASSUME OnePublisher, ~raced, NEW q \in Process, job'[q].pc = "push"
      PROVE  Ahead(q)'
  <2>1. job'[q] = job[q] /\ q # p /\ Ahead(q) /\ job[q].tag \in Tag /\ HostOf[q] \in Host
    BY <1>3, <1>5, <1>8 DEF HubInv
  <2>2. \A r \in Process : job'[r].pc = "push" => job'[r] = job[r]
    BY <1>3
  <2>3. job[q].image.serial <= serial /\ job[q].image.serial \in Nat
    BY <2>1, <1>5, <1>8 DEF HubInv
  <2>4. /\ local'[HostOf[q]][job[q].tag] # None
        /\ job[q].image.serial <= local'[HostOf[q]][job[q].tag].serial
    BY <1>2, <1>4, <2>1, <2>3 DEF Ahead
  <2> QED BY <1>2, <2>1, <2>2, <2>4 DEF Ahead, BeingPulled
<1>11. ASSUME OnePublisher, ~raced, NEW q \in Process PROVE Fresh(q)'
  BY <1>2, <1>11 DEF HubInv, Fresh
<1>12. \A x \in pulls' : x.tag.arch = ArchOf[x.host] /\ x.image.serial <= serial'
  BY <1>2, <1>10 DEF HubInv
<1>9. /\ \A u \in Tag : hub'[u] # None => hub'[u].serial <= serial'
      /\ \A q \in Process : job'[q].pc = "push" => job'[q].image.serial <= serial'
  BY <1>2, <1>3, <1>5 DEF HubInv
<1> QED BY <1>2, <1>6, <1>7, <1>8, <1>9, <1>11, <1>12 DEF HubInv, OnePublisher

LEMMA HubBegin ==
    ASSUME TypeOK, HubInv, NEW p \in Process, NEW t \in Tag, BeginPush(p, t) PROVE HubInv'
<1> USE HostsAssumption, NoneAssumption
<1>1. /\ local[HostOf[p]][t] # None
      /\ raced' = (raced \/ Uploading(HostOf[p], t) \/ BeingPulled(HostOf[p], t))
      /\ UNCHANGED <<hub, local, serial, pulls>>
      /\ job[p] = Idle
  BY DEF BeginPush
<1>2. /\ job'[p].pc = "push" /\ job'[p].tag = t /\ job'[p].image = local[HostOf[p]][t]
      /\ \A q \in Process \ {p} : job'[q] = job[q]
  BY DEF BeginPush, Goto, TypeOK
<1>3. t.arch = ArchOf[HostOf[p]] /\ local[HostOf[p]][t].serial \in Nat
      /\ local[HostOf[p]][t].serial <= serial
  BY <1>1 DEF HubInv, TypeOK, Maybe, Image
<1>4. ASSUME OnePublisher, ~raced', NEW q \in Process, job'[q].pc = "push"
      PROVE  Ahead(q)'
  <2>1. ~raced /\ ~Uploading(HostOf[p], t) /\ ~BeingPulled(HostOf[p], t)
    BY <1>1, <1>4
  <2>2. ASSUME NEW r \in Process \ {p}, job'[r].pc = "push" PROVE job'[r].tag # t
    <3>1. job'[r] = job[r] /\ Ahead(r)
      BY <1>2, <1>4, <2>1, <2>2 DEF HubInv
    <3>2. job[r].tag = t => HostOf[r] = HostOf[p]
      BY <1>3, <1>4, <3>1 DEF Ahead, OnePublisher
    <3> QED BY <2>1, <2>2, <3>1, <3>2 DEF Uploading
  <2>3. CASE q = p
    <3>1. Behind(p, t)
      BY <1>3, <1>4, <2>1 DEF HubInv
    <3> QED BY <1>1, <1>2, <1>3, <2>1, <2>2, <2>3, <3>1 DEF Ahead, Behind, BeingPulled
  <2>4. CASE q # p
    <3>1. Ahead(q) /\ job'[q] = job[q]
      BY <1>2, <1>4, <2>1, <2>4 DEF HubInv
    <3> QED BY <1>1, <1>2, <2>2, <2>4, <3>1, <1>4 DEF Ahead, BeingPulled
  <2> QED BY <2>3, <2>4
<1>5. ASSUME OnePublisher, ~raced', NEW q \in Process, NEW u \in Tag,
             u.arch = ArchOf[HostOf[q]]
      PROVE  Behind(q, u)'
  BY <1>1, <1>5 DEF HubInv, Behind
<1>6. \A q \in Process : job'[q].pc = "push" => job'[q].image.serial <= serial'
  BY <1>1, <1>2, <1>3 DEF HubInv
<1>7. ASSUME OnePublisher, ~raced', NEW q \in Process PROVE Fresh(q)'
  <2>1. ~raced
    BY <1>1, <1>7
  <2> QED BY <1>1, <1>7, <2>1 DEF HubInv, Fresh
<1> QED BY <1>1, <1>4, <1>5, <1>6, <1>7 DEF HubInv, OnePublisher

LEMMA HubPush == ASSUME TypeOK, HubInv, NEW p \in Process, Push(p) PROVE HubInv'
<1> USE HostsAssumption, NoneAssumption
<1> DEFINE t == job[p].tag
<1>1. /\ t \in Tag /\ job[p].image \in Image /\ job[p].image.serial \in Nat
      /\ job[p].pc = "push" /\ HostOf[p] \in Host /\ job[p].image.serial <= serial
  BY JobKinds DEF Push, Pushing, Image, HubInv
<1>2. job'[p].pc = "idle" /\ \A q \in Process \ {p} : job'[q] = job[q]
  BY DEF Push, Ends, Goto, Idle, TypeOK
<1>3. UNCHANGED <<local, serial, raced, pulls>>
  BY DEF Push
<1>4. /\ \A u \in Tag \ {t} : hub'[u] = hub[u]
      /\ hub'[t] = hub[t] \/ hub'[t] = job[p].image
  BY <1>1 DEF Push, TypeOK
<1>5. ASSUME OnePublisher, ~raced, NEW q \in Process, job'[q].pc = "push"
      PROVE  Ahead(q)'
  <2>1. q # p /\ Ahead(q) /\ Ahead(p) /\ job'[q] = job[q] /\ job[q].tag \in Tag
    BY <1>1, <1>2, <1>3, <1>5, JobKinds DEF HubInv, Pushing
  <2>2. job[q].tag # t
    BY <1>2, <1>5, <2>1 DEF Ahead
  <2>3. \A r \in Process : job'[r].pc = "push" => job'[r] = job[r]
    BY <1>2
  <2> QED BY <1>3, <1>4, <2>1, <2>2, <2>3 DEF Ahead, BeingPulled
<1>9. ASSUME OnePublisher, ~raced, NEW q \in Process PROVE Fresh(q)'
  <2>1. Fresh(q) /\ Ahead(p)
    BY <1>1, <1>9 DEF HubInv
  <2>2. ASSUME NEW x \in pulls, x.host = HostOf[q] PROVE x.tag # t /\ x.tag \in Tag
    <3>1. x.tag.arch = ArchOf[HostOf[q]] /\ x.tag \in Tag
      BY <2>2 DEF HubInv, TypeOK, Pulling
    <3>2. x.tag = t => HostOf[q] = HostOf[p]
      BY <1>1, <1>9, <2>1, <3>1 DEF Ahead, OnePublisher
    <3> QED BY <2>1, <2>2, <3>1, <3>2 DEF Ahead, BeingPulled
  <2> QED BY <1>3, <1>4, <2>1, <2>2 DEF Fresh
<1>6. ASSUME OnePublisher, ~raced, NEW q \in Process, NEW u \in Tag,
             u.arch = ArchOf[HostOf[q]]
      PROVE  Behind(q, u)'
  <2>1. Behind(q, u) /\ Ahead(p)
    BY <1>1, <1>6 DEF HubInv
  <2>2. CASE u = t
    <3>1. HostOf[q] = HostOf[p]
      BY <1>6, <2>1, <2>2 DEF Ahead, OnePublisher
    <3> QED BY <1>1, <1>3, <1>4, <2>1, <2>2, <3>1 DEF Ahead, Behind
  <2>3. CASE u # t
    BY <1>3, <1>4, <2>1, <2>3 DEF Behind
  <2> QED BY <2>2, <2>3
<1>7. \A u \in Tag : hub'[u] # None => hub'[u].serial <= serial'
  BY <1>1, <1>3, <1>4 DEF HubInv
<1>8. \A q \in Process : job'[q].pc = "push" => job'[q].image.serial <= serial'
  BY <1>2, <1>3 DEF HubInv
<1> QED BY <1>3, <1>5, <1>6, <1>7, <1>8, <1>9 DEF HubInv, OnePublisher

LEMMA HubBeginPull ==
    ASSUME TypeOK, HubInv, NEW h \in Host, NEW t \in Tag, t.arch = ArchOf[h], BeginPull(h, t)
    PROVE  HubInv'
<1> USE HostsAssumption, NoneAssumption
<1> DEFINE new == [host |-> h, tag |-> t, image |-> hub[t]]
<1>1. /\ hub[t] # None /\ pulls' = pulls \cup {new}
      /\ raced' = (raced \/ Uploading(h, t)) /\ UNCHANGED <<hub, local, serial, job>>
  BY DEF BeginPull
<1>2. new.host = h /\ new.tag = t /\ new.image = hub[t]
  OBVIOUS
<1> HIDE DEF new
<1>3. \A x \in pulls' : x.tag.arch = ArchOf[x.host] /\ x.image.serial <= serial'
  BY <1>1, <1>2 DEF HubInv
<1>4. ASSUME OnePublisher, ~raced', NEW q \in Process
      PROVE  Fresh(q)' /\ \A u \in Tag : u.arch = ArchOf[HostOf[q]] => Behind(q, u)'
  <2>1. ~raced
    BY <1>1, <1>4
  <2> QED BY <1>1, <1>2, <1>4, <2>1 DEF HubInv, Fresh, Behind
<1>5. ASSUME OnePublisher, ~raced', NEW q \in Process, job'[q].pc = "push"
      PROVE  Ahead(q)'
  <2>1. ~raced /\ ~Uploading(h, t)
    BY <1>1, <1>5
  <2>2. Ahead(q)
    BY <1>1, <1>5, <2>1 DEF HubInv
  <2>3. HostOf[q] # h \/ job[q].tag # t
    BY <1>1, <1>5, <2>1 DEF Uploading
  <2>4. BeingPulled(HostOf[q], job[q].tag)' => BeingPulled(HostOf[q], job[q].tag)
    BY <1>1, <1>2, <2>3 DEF BeingPulled
  <2> QED BY <1>1, <2>2, <2>4 DEF Ahead
<1> QED BY <1>1, <1>3, <1>4, <1>5 DEF HubInv, OnePublisher

LEMMA HubPulled == ASSUME TypeOK, HubInv, NEW x \in pulls, Pulled(x) PROVE HubInv'
<1> USE HostsAssumption, NoneAssumption
<1> DEFINE h == x.host  t == x.tag
<1>1. /\ h \in Host /\ t \in Tag /\ t.arch = ArchOf[h] /\ x.image \in Image
      /\ x.image.serial \in Nat /\ x.image.serial <= serial /\ BeingPulled(h, t)
  BY DEF TypeOK, Pulling, Image, HubInv, BeingPulled
<1>2. /\ local'[h][t] = x.image
      /\ \A g \in Host, u \in Tag : (g # h \/ u # t) => local'[g][u] = local[g][u]
  BY <1>1 DEF Pulled, TypeOK
<1>3. UNCHANGED <<hub, serial, job, raced>> /\ pulls' \subseteq pulls
  BY DEF Pulled
<1>4. ASSUME NEW g \in Host, NEW u \in Tag, local'[g][u] # None
      PROVE  u.arch = ArchOf[g] /\ local'[g][u].serial <= serial'
  BY <1>1, <1>2, <1>3, <1>4 DEF HubInv
<1>5. ASSUME OnePublisher, ~raced, NEW q \in Process, NEW u \in Tag,
             u.arch = ArchOf[HostOf[q]]
      PROVE  Behind(q, u)'
  <2>1. Behind(q, u) /\ HostOf[q] \in Host
    BY <1>5 DEF HubInv
  <2>2. CASE HostOf[q] = h /\ u = t
    <3>1. x.image = hub[t]
      BY <1>5, <2>2 DEF HubInv, Fresh
    <3> QED BY <1>1, <1>2, <1>3, <2>2, <3>1 DEF Behind
  <2>3. CASE ~(HostOf[q] = h /\ u = t)
    BY <1>2, <1>3, <1>5, <2>1, <2>3 DEF Behind
  <2> QED BY <2>2, <2>3
<1>6. ASSUME OnePublisher, ~raced, NEW q \in Process, job[q].pc = "push"
      PROVE  Ahead(q)'
  <2>1. Ahead(q) /\ job[q].tag \in Tag /\ HostOf[q] \in Host
    BY <1>6, JobKinds DEF HubInv, Pushing
  <2>2. HostOf[q] # h \/ job[q].tag # t
    BY <1>1, <2>1 DEF Ahead
  <2>3. BeingPulled(HostOf[q], job[q].tag)' => BeingPulled(HostOf[q], job[q].tag)
    BY <1>3 DEF BeingPulled
  <2> QED BY <1>2, <1>3, <2>1, <2>2, <2>3 DEF Ahead
<1>7. ASSUME OnePublisher, ~raced, NEW q \in Process PROVE Fresh(q)'
  BY <1>3, <1>7 DEF HubInv, Fresh
<1> QED BY <1>3, <1>4, <1>5, <1>6, <1>7 DEF HubInv, OnePublisher

LEMMA HubPullFails == ASSUME TypeOK, HubInv, NEW x \in pulls, PullFails(x) PROVE HubInv'
<1>1. UNCHANGED <<hub, local, serial, job, raced>> /\ pulls' \subseteq pulls
  BY DEF PullFails
<1>2. ASSUME NEW q \in Process PROVE (Ahead(q) => Ahead(q)') /\ (Fresh(q) => Fresh(q)')
  BY <1>1 DEF Ahead, Fresh, BeingPulled
<1> QED BY <1>1, <1>2 DEF HubInv, OnePublisher, Behind

LEMMA HubStep == TypeOK /\ HubInv /\ [Next]_vars => HubInv'
<1> SUFFICES ASSUME TypeOK, HubInv, [Next]_vars PROVE HubInv'
  OBVIOUS
<1>1. ASSUME UNCHANGED store, \A q \in Process : job'[q].pc = "push" => job'[q] = job[q]
      PROVE  HubInv'
  <2>1. ASSUME NEW q \in Process PROVE Fresh(q) => Fresh(q)'
    BY <1>1 DEF store, Fresh
  <2>2. ASSUME NEW q \in Process, job'[q].pc = "push" PROVE Ahead(q) => Ahead(q)'
    BY <1>1, <2>2 DEF store, Ahead, BeingPulled
  <2> QED BY <1>1, <2>1, <2>2 DEF store, HubInv, OnePublisher, Behind
<1>2. ASSUME NEW p \in Process, NEW t \in Tag, BeginBuild(p, t) PROVE HubInv'
  <2>1. \A q \in Process : job'[q].pc = "push" => job'[q] = job[q]
    BY <1>2 DEF BeginBuild, Goto, TypeOK
  <2> QED BY <1>1, <1>2, <2>1 DEF BeginBuild
<1>3. ASSUME NEW p \in Process, Fetch(p) PROVE HubInv'
  <2>1. job[p] \in Listing /\ job[p].pc = "list"
    BY <1>3, JobKinds DEF Fetch
  <2>2. \A q \in Process : job'[q].pc = "push" => job'[q] = job[q]
    BY <1>3, <2>1 DEF Fetch, Goto, TypeOK, Listing
  <2> QED BY <1>1, <1>3, <2>2 DEF Fetch
<1>4. ASSUME NEW p \in Process, FetchLast(p) PROVE HubInv'
  <2>1. \A q \in Process : job'[q].pc = "push" => job'[q] = job[q]
    BY <1>4, ResolveKinds DEF FetchLast
  <2> QED BY <1>1, <1>4, <2>1 DEF FetchLast
<1>5. ASSUME NEW p \in Process, ResolveTools(p) PROVE HubInv'
  <2>1. job[p] \in Building /\ job[p].pc = "tools"
    BY <1>5, JobKinds DEF ResolveTools
  <2>2. \A q \in Process : job'[q].pc = "push" => job'[q] = job[q]
    BY <1>5, <2>1 DEF ResolveTools, Goto, TypeOK, Building
  <2> QED BY <1>1, <1>5, <2>2 DEF ResolveTools
<1>6. ASSUME NEW p \in Process, Ends(p), UNCHANGED store PROVE HubInv'
  <2>1. \A q \in Process : job'[q].pc = "push" => job'[q] = job[q]
    BY <1>6 DEF Ends, Goto, Idle, TypeOK
  <2> QED BY <1>1, <1>6, <2>1
<1>7. ASSUME NEW p \in Process, Step(p) PROVE HubInv'
  BY <1>2, <1>3, <1>4, <1>5, <1>6, <1>7, HubBuild, HubBegin, HubPush
     DEF Step, ResolveFails, DockerBuildFails
<1>8. ASSUME NEW h \in Host, NEW f \in Flavor, BuildProject(h, f) \/ BuildBinary(h, f)
      PROVE  HubInv'
  <2> DEFINE t == HostTag(h, f)
  <2>1. t \in Tag /\ t.arch = ArchOf[h] /\ BeginPull(h, t)
    BY <1>8, HostTagOf DEF BuildProject, BuildBinary
  <2> HIDE DEF t
  <2> QED BY <2>1, HubBeginPull
<1>9. ASSUME NEW x \in pulls, Pulled(x) \/ PullFails(x) PROVE HubInv'
  BY <1>9, HubPulled, HubPullFails
<1>10. CASE Nvidia
  <2>1. \A q \in Process : job'[q].pc = "push" => job'[q] = job[q]
    BY <1>10, NvidiaKeepsPushes
  <2> QED BY <1>1, <1>10, <2>1, NvidiaKeepsPushes
<1>11. CASE UNCHANGED vars
  BY <1>1, <1>11 DEF vars, store
<1> QED BY <1>7, <1>8, <1>9, <1>10, <1>11 DEF Next

LEMMA HubMoves ==
    TypeOK /\ HubInv /\ [Next]_vars =>
        [\A t \in Tag : (OnePublisher /\ hub[t] # None /\ ~raced) =>
            hub'[t] # None /\ hub'[t].serial >= hub[t].serial]_vars
<1> SUFFICES ASSUME TypeOK, HubInv, Next,
                    NEW t \in Tag, OnePublisher, hub[t] # None, ~raced
             PROVE  hub'[t] # None /\ hub'[t].serial >= hub[t].serial
  BY DEF vars
<1>1. hub[t].serial \in Nat
  BY DEF TypeOK, Maybe, Image
<1>2. ASSUME hub' = hub PROVE hub'[t] # None /\ hub'[t].serial >= hub[t].serial
  BY <1>1, <1>2
<1>3. ASSUME NEW p \in Process, Push(p)
      PROVE  hub'[t] # None /\ hub'[t].serial >= hub[t].serial
  <2>1. /\ job[p].tag \in Tag /\ job[p].image \in Image /\ job[p].image.serial \in Nat
        /\ Ahead(p)
    BY <1>3, JobKinds DEF Push, Pushing, Image, HubInv
  <2>2. hub'[t] = hub[t] \/ (t = job[p].tag /\ hub'[t] = job[p].image)
    BY <1>3, <2>1 DEF Push, TypeOK
  <2>3. job[p].image # None
    BY <2>1, NoneAssumption
  <2> QED BY <1>1, <2>1, <2>2, <2>3 DEF Ahead
<1>4. ASSUME NEW p \in Process, Step(p), ~Push(p) PROVE hub' = hub
  BY <1>4 DEF Step, BeginBuild, BeginPush, Fetch, FetchLast, ResolveTools, ResolveFails,
     DockerBuild, DockerBuildFails, store
<1>5. ASSUME NEW h \in Host, NEW f \in Flavor, BuildProject(h, f) \/ BuildBinary(h, f)
      PROVE hub' = hub
  BY <1>5 DEF BuildProject, BuildBinary, BeginPull
<1>7. ASSUME NEW x, Pulled(x) \/ PullFails(x) PROVE hub' = hub
  BY <1>7 DEF Pulled, PullFails
<1>6. CASE Nvidia
  BY <1>2, <1>6, NvidiaKeepsPushes DEF store
<1> QED BY <1>2, <1>3, <1>4, <1>5, <1>6, <1>7 DEF Next

\* With any number of hosts and concurrent builds, and with either builder, no
\* push replaces an image on the hub by an older one, as long as no two uploads
\* of a tag have overlapped, nor an upload and a pull of it on one host.
THEOREM HubGoesForward == Spec => HubNeverGoesBack
<1>1. Init => HubInv
  BY DEF Init, HubInv, Behind, Ahead, Fresh, Idle
<1> QED BY <1>1, HubStep, HubMoves, TypeCorrect, PTL DEF Spec, HubNeverGoesBack
=============================================================================
