----------------------------- MODULE BaseImage -----------------------------
(***************************************************************************)
(* The base images (base_image.py): `base build` resolves every version on *)
(* the host and builds a base tag, `base push` publishes it, and projects  *)
(* build FROM the published tag (models/container.py) or run the local one *)
(* (models/host_binary.py).                                                *)
(*                                                                         *)
(* A tag is a flavor and an architecture.  The hub and every host's docker *)
(* have an image for it or none; nothing but the operators keeps the two   *)
(* apart.  The CUDA base is found by listing the nvidia/cuda tags page by  *)
(* page, the most recently pushed first, while NVIDIA pushes and deletes.  *)
(***************************************************************************)
EXTENDS Naturals, Sequences, FiniteSets

CONSTANTS
    Process,     \* CLI processes, on any host
    Host,        \* hosts that build and use base images
    HostOf,      \* the host of each process
    ArchOf,      \* the docker architecture of each host
    Cuda,        \* the versions of CUDA tags
    Manifests,   \* the sets of architectures a CUDA tag may have
    Registries,  \* what the registry may list at first
    PageSize,    \* tags on a page
    None,        \* no image; the version of a tag with another kind of name
    MaxChanges,  \* bound: changes of the nvidia/cuda tags
    MaxBuilds,   \* bound: base images built
    MaxPulls     \* bound: pulls at a time

Arch == {"amd64", "arm64"}
Flavor == {"cpu", "cuda"}
Tag == [flavor : Flavor, arch : Arch]
CpuBase == <<24, 4, 0>>

Image == [arch : Arch, serial : Nat]
Listed == [version : Cuda \cup {None}, archs : Manifests]

ASSUME HostsAssumption == HostOf \in [Process -> Host] /\ ArchOf \in [Host -> Arch]
ASSUME CudaAssumption == Cuda \subseteq Nat \X Nat \X Nat /\ Manifests \subseteq SUBSET Arch
ASSUME RegistriesAssumption == Registries \subseteq Seq(Listed)
ASSUME BoundsAssumption == MaxChanges \in Nat /\ MaxBuilds \in Nat /\ MaxPulls \in Nat
ASSUME PageAssumption == PageSize \in Nat \ {0}
ASSUME NoneAssumption == None \notin Image /\ None \notin Cuda

VARIABLES
    registry,   \* the nvidia/cuda tags, the last pushed first
    changes,    \* how often they changed
    hub,        \* what each base tag names on Docker Hub, or None
    local,      \* what it names on each host, or None
    builder,    \* what `docker build` is: BuildKit, or the legacy builder
    serial,     \* base images built so far
    job,        \* what each process is at, with what it knows
    pulls,      \* the pulls of base tags under way
    made,       \* history: what each host built last under each tag; None once
                \* a build has ended in the middle of a pull of the tag
    raced       \* history: two uploads of a tag overlapped, or an upload and a
                \* pull of it on the same host

upstream == <<registry, changes>>
store == <<hub, local, serial, pulls, made, raced>>
vars == <<registry, changes, hub, local, builder, serial, job, pulls, made, raced>>

\* goal, shifted: history.  The CUDA versions a process could find when its
\* listing began; whether a listed tag moved or went in the middle of it.
Idle == [pc |-> "idle"]
Listing == [pc : {"list"}, tag : Tag, seen : SUBSET Listed, offset : Nat,
            goal : SUBSET Cuda, shifted : BOOLEAN]
Building == [pc : {"tools", "build"}, tag : Tag, base : Cuda \cup {CpuBase},
             goal : SUBSET Cuda, shifted : BOOLEAN]
Pushing == [pc : {"push"}, tag : Tag, image : Image]

Pulling == [host : Host, tag : Tag, image : Image]

Maybe == Image \cup {None}

TypeOK ==
    /\ registry \in Seq(Listed) /\ changes \in Nat
    /\ hub \in [Tag -> Maybe]
    /\ local \in [Host -> [Tag -> Maybe]] /\ made \in [Host -> [Tag -> Maybe]]
    /\ builder \in {"buildkit", "legacy"} /\ serial \in Nat
    /\ job \in [Process -> {Idle} \cup Listing \cup Building \cup Pushing]
    /\ pulls \in SUBSET Pulling /\ raced \in BOOLEAN

Init ==
    /\ registry \in Registries /\ changes = 0
    /\ hub = [t \in Tag |-> None]
    /\ local = [h \in Host |-> hub] /\ made = local
    /\ builder \in {"buildkit", "legacy"} /\ serial = 0
    /\ job = [p \in Process |-> Idle]
    /\ pulls = {} /\ raced = FALSE

Goto(p, next) == job' = [job EXCEPT ![p] = next]

\* The process ends, with success, an exception or a failed command.
Ends(p) == Goto(p, Idle)

-----------------------------------------------------------------------------
(* resolve_cuda_base_image.                                                *)

\* Mutant: the fields compare as text does, by their first digits.
Digit(n) == IF n < 10 THEN n ELSE n \div 10
NewerAsText(v, w) ==
    \E i \in 1..3 : Digit(v[i]) > Digit(w[i]) /\ \A j \in 1..(i - 1) : v[j] = w[j]

\* Tuples of numbers: the first field that differs decides.
Newer(v, w) == \E i \in 1..3 : v[i] > w[i] /\ \A j \in 1..(i - 1) : v[j] = w[j]

\* The tags of the right kind with a manifest for arch a (_arch_in_images).
For(a, tags) == {e.version : e \in {x \in tags : x.version # None /\ a \in x.archs}}

Entries == {registry[i] : i \in DOMAIN registry}
Page(k) == {registry[i] : i \in DOMAIN registry \cap (k + 1)..(k + PageSize)}

BeginBuild(p, t) ==
    /\ job[p] = Idle
    /\ IF t.flavor = "cuda"
       THEN Goto(p, [pc |-> "list", tag |-> t, seen |-> {}, offset |-> 0,
                     goal |-> For(t.arch, Entries), shifted |-> FALSE])
       ELSE Goto(p, [pc |-> "tools", tag |-> t, base |-> CpuBase,
                     goal |-> {}, shifted |-> FALSE])
    /\ UNCHANGED <<upstream, store, builder>>

\* The newest version with a manifest for the arch, if there is one.
Resolve(p, tags) ==
    LET found == For(job[p].tag.arch, tags)
    IN  \/ found = {} /\ Ends(p)
        \/ \E v \in found :
              /\ \A w \in found : ~Newer(w, v)
              /\ Goto(p, [pc |-> "tools", tag |-> job[p].tag, base |-> v,
                          goal |-> job[p].goal, shifted |-> job[p].shifted])

More(p) == job[p].offset + PageSize < Len(registry)

\* A page that says there is a next one.
Fetch(p) ==
    /\ job[p].pc = "list" /\ More(p)
    /\ Goto(p, [job[p] EXCEPT !.seen = @ \cup Page(job[p].offset),
                              !.offset = @ + PageSize])
    /\ UNCHANGED <<upstream, store, builder>>

\* Mutant: what is on the page is all there is.
FetchOne(p) ==
    /\ job[p].pc = "list"
    /\ Resolve(p, Page(job[p].offset))
    /\ UNCHANGED <<upstream, store, builder>>

\* The last page.  (A page whose list or link is of another type is skipped or
\* taken for the last one without a word; the hub sends none such.)
FetchLast(p) ==
    /\ job[p].pc = "list" /\ ~More(p)
    /\ job[p].offset = 0 \/ job[p].offset < Len(registry)
    /\ Resolve(p, job[p].seen \cup Page(job[p].offset))
    /\ UNCHANGED <<upstream, store, builder>>

-----------------------------------------------------------------------------
(* compute_build_args and docker build.                                    *)

\* The other resolvers: Go, Node, PureScript, kind, kubectl, helm, Pulumi.
ResolveTools(p) ==
    /\ job[p].pc = "tools"
    /\ Goto(p, [job[p] EXCEPT !.pc = "build"])
    /\ UNCHANGED <<upstream, store, builder>>

\* A request fails (a page that is no more there is one), or what comes back
\* has no release for the arch or not the shape that is expected.
ResolveFails(p) ==
    /\ job[p].pc \in {"list", "tools"}
    /\ Ends(p)
    /\ UNCHANGED <<upstream, store, builder>>

\* The base image is pulled for the host's architecture, whatever was asked.
Available(h, v) == v = CpuBase \/ v \in For(ArchOf[h], Entries)

Built(h) == [arch |-> ArchOf[h], serial |-> serial + 1]

BeingPulled(h, t) == \E x \in pulls : x.host = h /\ x.tag = t

\* Mutant: the Dockerfile runs nothing that was downloaded for the target.
DockerBuildForeign(p) ==
    LET h == HostOf[p]
    IN  /\ job[p].pc = "build" /\ serial < MaxBuilds
        /\ Available(h, job[p].base)
        /\ serial' = serial + 1
        /\ local' = [local EXCEPT ![h][job[p].tag] = Built(h)]
        /\ made' = [made EXCEPT ![h][job[p].tag] =
                       IF BeingPulled(h, job[p].tag) THEN None ELSE Built(h)]
        /\ Ends(p)
        /\ UNCHANGED <<upstream, builder, hub, pulls, raced>>

\* docker build --pull; the image and the tag are there at the end of it.
\* For another architecture than the host's, the first step of the Dockerfile
\* that runs a downloaded binary fails.
DockerBuild(p) ==
    LET h == HostOf[p]
    IN  /\ job[p].pc = "build" /\ serial < MaxBuilds
        /\ Available(h, job[p].base) /\ job[p].tag.arch = ArchOf[h]
        /\ serial' = serial + 1
        /\ local' = [local EXCEPT ![h][job[p].tag] = Built(h)]
        /\ made' = [made EXCEPT ![h][job[p].tag] =
                       IF BeingPulled(h, job[p].tag) THEN None ELSE Built(h)]
        /\ Ends(p)
        /\ UNCHANGED <<upstream, builder, hub, pulls, raced>>

\* The base is gone, or a step of the Dockerfile fails.
DockerBuildFails(p) ==
    /\ job[p].pc = "build"
    /\ Ends(p)
    /\ UNCHANGED <<upstream, store, builder>>

-----------------------------------------------------------------------------
(* base push.                                                              *)

Uploading(h, t) ==
    \E q \in Process : HostOf[q] = h /\ job[q].pc = "push" /\ job[q].tag = t

\* Mutant: an upload is begun whether or not there is something to upload.
BeginPushAnyway(p, t) ==
    /\ job[p] = Idle
    /\ Goto(p, [pc |-> "push", tag |-> t, image |-> local[HostOf[p]][t]])
    /\ raced' = (raced \/ Uploading(HostOf[p], t) \/ BeingPulled(HostOf[p], t))
    /\ UNCHANGED <<upstream, hub, local, serial, pulls, made, builder>>

\* Of a tag that names nothing `docker push` fails at once.
BeginPush(p, t) ==
    /\ job[p] = Idle /\ local[HostOf[p]][t] # None
    /\ Goto(p, [pc |-> "push", tag |-> t, image |-> local[HostOf[p]][t]])
    /\ raced' = (raced \/ Uploading(HostOf[p], t) \/ BeingPulled(HostOf[p], t))
    /\ UNCHANGED <<upstream, hub, local, serial, pulls, made, builder>>

\* The manifest comes last: the tag moves then, or not at all.
Push(p) ==
    /\ job[p].pc = "push"
    /\ hub' \in {[hub EXCEPT ![job[p].tag] = job[p].image], hub}
    /\ Ends(p)
    /\ UNCHANGED <<upstream, builder, local, serial, pulls, made, raced>>

-----------------------------------------------------------------------------
(* Projects: container.build and host_binary.build_binary.                 *)

\* The pull of a tag begins; what the tag names by now is what will come.
BeginPull(h, t) ==
    /\ hub[t] # None /\ Cardinality(pulls) < MaxPulls
    /\ pulls' = pulls \cup {[host |-> h, tag |-> t, image |-> hub[t]]}
    /\ raced' = (raced \/ Uploading(h, t))
    /\ UNCHANGED <<upstream, builder, hub, local, serial, job, made>>

HostTag(h, f) == [flavor |-> f, arch |-> ArchOf[h]]

\* Mutant: the build takes the base image under its name with any builder.
BuildProjectPulling(h, f) == BeginPull(h, HostTag(h, f))

\* docker build --pull FROM the tag: the hub's image.  The legacy builder
\* pulls it under its name, BuildKit leaves the local tag alone.
BuildProject(h, f) ==
    /\ builder = "legacy"
    /\ BeginPull(h, HostTag(h, f))

\* Mutant: the image is pulled whether or not there is one.
BuildBinaryPulling(h, f) ==
    LET t == HostTag(h, f)
    IN  /\ hub[t] # None /\ Cardinality(pulls) < MaxPulls
        /\ pulls' = pulls \cup {[host |-> h, tag |-> t, image |-> hub[t]]}
        /\ UNCHANGED <<upstream, builder, hub, local, serial, job, made, raced>>

\* docker run of the tag: it is pulled if the host has no image for it then.
BuildBinary(h, f) ==
    /\ local[h][HostTag(h, f)] = None
    /\ BeginPull(h, HostTag(h, f))

\* A pull ends: the local tag moves, whatever it names by now.
Pulled(x) ==
    /\ local' = [local EXCEPT ![x.host][x.tag] = x.image]
    /\ pulls' = pulls \ {x}
    /\ UNCHANGED <<upstream, builder, hub, serial, job, made, raced>>

\* A pull fails, or is interrupted.
PullFails(x) ==
    /\ pulls' = pulls \ {x}
    /\ UNCHANGED <<upstream, builder, hub, local, serial, job, made, raced>>

-----------------------------------------------------------------------------
(* NVIDIA's pushes and deletions.                                          *)

Change ==
    /\ changes < MaxChanges /\ changes' = changes + 1
    /\ UNCHANGED <<store, builder>>

Shifts ==
    job' = [p \in Process |-> IF job[p].pc = "list" THEN [job[p] EXCEPT !.shifted = TRUE]
                                                    ELSE job[p]]

Release(e) ==
    /\ \A x \in Entries : x.version # e.version
    /\ registry' = <<e>> \o registry
    /\ Change /\ UNCHANGED job

Without(i) == SubSeq(registry, 1, i - 1) \o SubSeq(registry, i + 1, Len(registry))

\* A tag is pushed again: it comes first, with the manifests it has now.
Repush(i, archs) ==
    /\ registry' = <<[registry[i] EXCEPT !.archs = archs]>> \o Without(i)
    /\ Change /\ Shifts

Withdraw(i) ==
    /\ registry' = Without(i)
    /\ Change /\ Shifts

-----------------------------------------------------------------------------
Step(p) ==
    \/ \E t \in Tag : BeginBuild(p, t) \/ BeginPush(p, t)
    \/ Fetch(p) \/ FetchLast(p) \/ ResolveTools(p) \/ ResolveFails(p)
    \/ DockerBuild(p) \/ DockerBuildFails(p) \/ Push(p)

Nvidia ==
    \/ \E e \in [version : Cuda, archs : Manifests] : Release(e)
    \/ \E i \in DOMAIN registry :
          Withdraw(i) \/ \E archs \in Manifests : Repush(i, archs)

Next ==
    \/ \E p \in Process : Step(p)
    \/ \E h \in Host, f \in Flavor : BuildProject(h, f) \/ BuildBinary(h, f)
    \/ \E x \in pulls : Pulled(x) \/ PullFails(x)
    \/ Nvidia

Spec == Init /\ [][Next]_vars

-----------------------------------------------------------------------------
(* Properties.                                                             *)

\* Version v is w or a later one.
AtLeast(v, w) ==
    \/ v[1] > w[1]
    \/ v[1] = w[1] /\ (v[2] > w[2] \/ (v[2] = w[2] /\ v[3] >= w[3]))

\* Unless a tag was re-pushed or deleted in the middle of the listing, the
\* CUDA base that is resolved is at least as new as every one that there was
\* for the architecture when the listing began: tags that are pushed between
\* two pages shift the others onto the next page, never out of sight
\* (_iter_cuda_tags, lines 188-194).
FindsTheNewest ==
    \A p \in Process :
        (job[p].pc \in {"tools", "build"} /\ ~job[p].shifted)
        => \A v \in job[p].goal : AtLeast(job[p].base, v)

\* A single-arch tag only ever names an image of its architecture, on every
\* host and on the hub, whatever --arch was given to build and push: no
\* project is built on a base image of another architecture than its host's.
\* (The tag scheme, lines 7-12.)
TagTellsArch ==
    /\ \A t \in Tag : hub[t] # None => hub[t].arch = t.arch
    /\ \A h \in Host, t \in Tag : local[h][t] # None => local[h][t].arch = t.arch

\* Each architecture's images are built and pushed on one host.
OnePublisher ==
    \A p, q \in Process : ArchOf[HostOf[p]] = ArchOf[HostOf[q]] => HostOf[p] = HostOf[q]

\* Where every architecture has one publisher, no push replaces an image on
\* the hub by an older one, with either builder, although a project build may
\* have moved the local tag back to the hub's image, and one that a build has
\* passed by meanwhile does.  An upload that overlaps another one, or a pull of
\* the tag on its host, can.
HubNeverGoesBack ==
    [][\A t \in Tag : (OnePublisher /\ hub[t] # None /\ ~raced) =>
          hub'[t] # None /\ hub'[t].serial >= hub[t].serial]_vars

\* cli.py, docstring of base_push: "Push the previously-built base tag".
\* With BuildKit what is uploaded is the last image that the host built when the
\* push began: nothing but a build moves the local tag, except for the pull of a
\* docker run that found no image and was still under way when a build ended
\* (host_binary.py:64-74); its image is then the one that is pushed.
PushesTheLastBuilt ==
    builder = "buildkit" =>
        \A h \in Host, t \in Tag : made[h][t] # None => local[h][t] = made[h][t]
=============================================================================
