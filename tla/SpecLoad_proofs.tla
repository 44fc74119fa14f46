--------------------------- MODULE SpecLoad_proofs ---------------------------
(***************************************************************************)
(* What holds of SpecLoad for every document: the types, and that nothing  *)
(* is read into it that it does not say; and for every config of the       *)
(* package's types, of any length: the readers of spec.py take back what   *)
(* the package rendered, and load declares all of it.                      *)
(***************************************************************************)
EXTENDS SpecLoad, FiniteSetTheorems, TLAPS

-----------------------------------------------------------------------------
(* The narrowers on the JSON of their own type.                            *)

LEMMA Narrows ==
    /\ \A s : AsStr(Str(s)) = {s} /\ Str(s) # Null
    /\ \A b : AsBool(Bool(b)) = {b}
    /\ \A s : AsList(List(s)) = {s}
    /\ \A f : AsMap(Map(f)) = {Map(f)} /\ Map(f) # Null
  BY DEF AsStr, Str, AsBool, Bool, AsList, List, AsMap, Map, Null

\* A field of a record of its own type.
LEMMA Field ==
    \A f, k, d : k \in DOMAIN f => Get(Map(f), k) = f[k] /\ GetOr(Map(f), k, d) = f[k]
  BY DEF Get, GetOr, Map

LEMMA NoField ==
    \A f, k : k \notin DOMAIN f => Get(Map(f), k) = Null
  BY DEF Get, GetOr, Map

LEMMA StrField ==
    \A f, k, s : k \in DOMAIN f /\ f[k] = Str(s) => AsStr(Get(Map(f), k)) = {s}
  BY Field, Narrows, Zenon

LEMMA BoolField ==
    \A f, k, d, b : k \in DOMAIN f /\ f[k] = Bool(b) => AsBool(GetOr(Map(f), k, d)) = {b}
<1> TAKE f, k, d, b
<1> HAVE k \in DOMAIN f /\ f[k] = Bool(b)
<1>1. GetOr(Map(f), k, d) = Bool(b)
  BY Field
<1> QED BY <1>1, Narrows

LEMMA FlavorRead ==
    ASSUME NEW f \in {"cpu", "cuda"}
    PROVE  Flavor(RenderFlavor[f]) = {f}
  BY DEF Flavor, RenderFlavor, Spellings, Str

LEMMA MountRead ==
    ASSUME NEW m \in MountType
    PROVE  Mount(RenderMount(m)) = {m}
<1> DEFINE f == [host |-> Str(m.host), container |-> Str(m.container), ro |-> Bool(m.read_only)]
<1> DEFINE v == Map(f)
<1>1. RenderMount(m) = v /\ AsMap(v) = {v}
  BY Narrows DEF RenderMount
<1>2. /\ AsStr(Get(v, "host")) = {m.host} /\ AsStr(Get(v, "container")) = {m.container}
      /\ AsBool(GetOr(v, "ro", Bool(FALSE))) = {m.read_only}
  <2>1. /\ "host" \in DOMAIN f /\ "container" \in DOMAIN f /\ "ro" \in DOMAIN f
        /\ f["host"] = Str(m.host) /\ f["container"] = Str(m.container)
        /\ f["ro"] = Bool(m.read_only)
    OBVIOUS
  <2> HIDE DEF f
  <2> QED BY <2>1, StrField, BoolField
<1> HIDE DEF v
<1>3. \A x : x \in Mount(v) <=>
              x \in [host : AsStr(Get(v, "host")), container : AsStr(Get(v, "container")),
                     read_only : AsBool(GetOr(v, "ro", Bool(FALSE)))]
  BY <1>1 DEF Mount
<1>4. \A x : x \in [host : {m.host}, container : {m.container}, read_only : {m.read_only}]
                <=> x = m
  BY DEF MountType
<1> QED BY <1>1, <1>2, <1>3, <1>4

LEMMA MountsRead ==
    ASSUME NEW s \in Seq(MountType)
    PROVE  Mounts(List([i \in DOMAIN s |-> RenderMount(s[i])])) = {s}
<1> DEFINE r == [i \in DOMAIN s |-> RenderMount(s[i])]
<1>1. AsList(List(r)) = {r}
  BY Narrows
<1>2. DOMAIN r = DOMAIN s
  OBVIOUS
<1>3. ASSUME NEW i \in DOMAIN s PROVE Mount(r[i]) = {s[i]}
  <2>1. s[i] \in MountType
    OBVIOUS
  <2> QED BY <2>1, MountRead
<1>4. [i \in DOMAIN s |-> s[i]] = s
  OBVIOUS
<1> HIDE DEF r
<1>5. \A i \in DOMAIN r : Mount(r[i]) # {} /\ (CHOOSE m \in Mount(r[i]) : TRUE) = s[i]
  BY <1>2, <1>3
<1>6. MountSeq(r) = {s}
  <2>1. [i \in DOMAIN r |-> CHOOSE m \in Mount(r[i]) : TRUE] = [i \in DOMAIN s |-> s[i]]
    BY <1>2, <1>5
  <2> QED BY <1>4, <1>5, <2>1 DEF MountSeq
<1>7. Mounts(List(r)) = {s}
  BY <1>1, <1>6 DEF Mounts
<1> QED BY <1>7 DEF r

LEMMA HostReqsRead ==
    ASSUME NEW h \in HostReqsType
    PROVE  HostReqs(Map([k \in {"ghc", "tart", "metal"} |-> Bool(h[k])])) = {h}
<1> DEFINE f == [k \in {"ghc", "tart", "metal"} |-> Bool(h[k])]
<1> DEFINE v == Map(f)
<1>1. AsMap(v) = {v}
  BY Narrows
<1>2. /\ AsBool(GetOr(v, "ghc", Bool(FALSE))) = {h.ghc}
      /\ AsBool(GetOr(v, "tart", Bool(FALSE))) = {h.tart}
      /\ AsBool(GetOr(v, "metal", Bool(FALSE))) = {h.metal}
  <2>1. /\ "ghc" \in DOMAIN f /\ "tart" \in DOMAIN f /\ "metal" \in DOMAIN f
        /\ f["ghc"] = Bool(h.ghc) /\ f["tart"] = Bool(h.tart) /\ f["metal"] = Bool(h.metal)
    OBVIOUS
  <2> HIDE DEF f
  <2> QED BY <2>1, BoolField
<1> HIDE DEF v
<1>3. \A x : x \in HostReqs(v) <=>
              x \in [ghc : {h.ghc}, tart : {h.tart}, metal : {h.metal}]
  BY <1>1, <1>2 DEF HostReqs
<1>4. \A x : x \in [ghc : {h.ghc}, tart : {h.tart}, metal : {h.metal}] <=> x = h
  BY DEF HostReqsType
<1>5. HostReqs(v) = {h}
  BY <1>3, <1>4
<1> QED BY <1>5 DEF v

LEMMA BuildRead ==
    ASSUME NEW b \in BuildType
    PROVE  BuildSpec(RenderBuild(b)) = {b}
<1> DEFINE h == Map([k \in {"ghc", "tart", "metal"} |-> Bool(b.host[k])])
<1> DEFINE f == [cabal |-> Str(b.cabal), host |-> h]
<1> DEFINE v == Map(f)
<1>1. RenderBuild(b) = v /\ AsMap(v) = {v}
  BY Narrows DEF RenderBuild
<1>2. HostReqs(h) = {b.host}
  BY HostReqsRead DEF BuildType
<1> HIDE DEF h
<1>3. /\ AsStr(Get(v, "cabal")) = {b.cabal}
      /\ GetOr(v, "host", Map(<<>>)) = h
  <2>1. /\ "cabal" \in DOMAIN f /\ "host" \in DOMAIN f
        /\ f["cabal"] = Str(b.cabal) /\ f["host"] = h
    OBVIOUS
  <2> HIDE DEF f
  <2> QED BY <2>1, StrField, Field
<1> HIDE DEF v
<1>4. \A x : x \in BuildSpec(v) <=>
              x \in [cabal : AsStr(Get(v, "cabal")), host : HostReqs(GetOr(v, "host", Map(<<>>)))]
  BY <1>1 DEF BuildSpec
<1>5. \A x : x \in [cabal : {b.cabal}, host : {b.host}] <=> x = b
  BY DEF BuildType
<1> QED BY <1>1, <1>2, <1>3, <1>4, <1>5

\* An Optional is a field of the record it is in, or is left out.
LEMMA OptionalField ==
    ASSUME NEW f, NEW k, NEW v, NEW present \in BOOLEAN, k \notin DOMAIN f
    PROVE  LET g == Optional(f, k, v, present) IN
           /\ \A j \in DOMAIN f : j \in DOMAIN g /\ g[j] = f[j]
           /\ present => k \in DOMAIN g /\ g[k] = v
           /\ ~present => k \notin DOMAIN g
  BY DEF Optional, Put

LEMMA HandoffRead ==
    ASSUME NEW h \in HandoffType
    PROVE  Handoff(RenderHandoff(h)) = {h}
<1> DEFINE r == [up |-> Str(h.up), down |-> Str(h.down)]
<1> DEFINE f == Optional(r, "delete", Str(h.delete), h.delete # None)
<1> DEFINE v == Map(f)
<1>1. RenderHandoff(h) = v /\ AsMap(v) = {v}
  BY Narrows DEF RenderHandoff
<1>2. /\ "up" \in DOMAIN f /\ "down" \in DOMAIN f
      /\ f["up"] = Str(h.up) /\ f["down"] = Str(h.down)
      /\ h.delete # None => "delete" \in DOMAIN f /\ f["delete"] = Str(h.delete)
      /\ h.delete = None => "delete" \notin DOMAIN f
  <2>1. /\ "up" \in DOMAIN r /\ "down" \in DOMAIN r /\ "delete" \notin DOMAIN r
        /\ r["up"] = Str(h.up) /\ r["down"] = Str(h.down)
    OBVIOUS
  <2> HIDE DEF r
  <2>2. /\ \A j \in DOMAIN r : j \in DOMAIN f /\ f[j] = r[j]
        /\ h.delete # None => "delete" \in DOMAIN f /\ f["delete"] = Str(h.delete)
        /\ h.delete = None => "delete" \notin DOMAIN f
    BY <2>1 DEF Optional, Put
  <2> HIDE DEF f
  <2> QED BY <2>1, <2>2
<1> HIDE DEF f
<1>3. AsStr(Get(v, "up")) = {h.up} /\ AsStr(Get(v, "down")) = {h.down}
  BY <1>2, StrField
<1>4. ReadOptional(Get(v, "delete"), AsStr(Get(v, "delete"))) = {h.delete}
  <2>1. CASE h.delete # None
    <3>1. Get(v, "delete") = Str(h.delete)
      BY <1>2, <2>1, Field
    <3> QED BY <3>1, Narrows DEF ReadOptional
  <2>2. CASE h.delete = None
    BY <1>2, <2>2, NoField DEF ReadOptional
  <2> QED BY <2>1, <2>2
<1> HIDE DEF v
<1>5. \A x : x \in Handoff(v) <=> x \in [up : {h.up}, down : {h.down}, delete : {h.delete}]
  BY <1>1, <1>3, <1>4 DEF Handoff
<1>6. \A x : x \in [up : {h.up}, down : {h.down}, delete : {h.delete}] <=> x = h
  BY DEF HandoffType
<1> QED BY <1>1, <1>5, <1>6

LEMMA ArtifactRead ==
    ASSUME NEW a \in ArtifactType
    PROVE  Artifact(RenderArtifact(a)) = {a} /\ RenderArtifact(a) # Null
<1> DEFINE f == [dockerfile |-> Str(a.dockerfile), flavor |-> RenderFlavor[a.flavor]]
<1> DEFINE v == Map(f)
<1>1. RenderArtifact(a) = v /\ AsMap(v) = {v} /\ v # Null
  BY Narrows DEF RenderArtifact
<1>2. /\ AsStr(Get(v, "dockerfile")) = {a.dockerfile}
      /\ Flavor(GetOr(v, "flavor", Str("cpu"))) = {a.flavor}
  <2>1. /\ "dockerfile" \in DOMAIN f /\ "flavor" \in DOMAIN f
        /\ f["dockerfile"] = Str(a.dockerfile) /\ f["flavor"] = RenderFlavor[a.flavor]
    OBVIOUS
  <2>2. a.flavor \in {"cpu", "cuda"}
    BY DEF ArtifactType
  <2>3. Flavor(RenderFlavor[a.flavor]) = {a.flavor}
    BY <2>2, FlavorRead
  <2> HIDE DEF f
  <2>4. GetOr(v, "flavor", Str("cpu")) = RenderFlavor[a.flavor]
    BY <2>1, Field
  <2> QED BY <2>1, <2>3, <2>4, StrField
<1> HIDE DEF v
<1>3. \A x : x \in Artifact(v) <=> x \in [dockerfile : {a.dockerfile}, flavor : {a.flavor}]
  BY <1>1, <1>2 DEF Artifact
<1>4. \A x : x \in [dockerfile : {a.dockerfile}, flavor : {a.flavor}] <=> x = a
  BY DEF ArtifactType
<1> QED BY <1>1, <1>3, <1>4

\* The payload of the Container tag.
LEMMA ContainerRead ==
    ASSUME NEW m \in ContainerType
    PROVE  ContainerModel(Get(RenderModel(m), "container")) = {m}
           /\ Get(RenderModel(m), "tag") = Str("Container")
           /\ AsMap(RenderModel(m)) = {RenderModel(m)}
<1> DEFINE s == List([i \in DOMAIN m.mounts |-> RenderMount(m.mounts[i])])
<1> DEFINE f == [dockerfile |-> Str(m.dockerfile), flavor |-> RenderFlavor[m.flavor],
                 service |-> Bool(m.service), mounts |-> s]
<1> DEFINE v == Map(f)
<1> DEFINE r == [tag |-> Str("Container"), container |-> v]
<1>1. RenderModel(m) = Map(r) /\ AsMap(Map(r)) = {Map(r)} /\ AsMap(v) = {v}
  <2>1. m.kind = "container"
    BY DEF ContainerType
  <2>2. AsMap(Map(r)) = {Map(r)} /\ AsMap(v) = {v}
    BY Narrows, Zenon
  <2> QED BY <2>1, <2>2 DEF RenderModel
<1>2. Mounts(s) = {m.mounts}
  <2>1. m.mounts \in Seq(MountType)
    BY DEF ContainerType
  <2> QED BY <2>1, MountsRead
<1> HIDE DEF s
<1>3. /\ AsStr(Get(v, "dockerfile")) = {m.dockerfile}
      /\ Flavor(GetOr(v, "flavor", Str("cpu"))) = {m.flavor}
      /\ AsBool(GetOr(v, "service", Bool(FALSE))) = {m.service}
      /\ Mounts(GetOr(v, "mounts", List(<<>>))) = {m.mounts}
  <2>1. /\ "dockerfile" \in DOMAIN f /\ "flavor" \in DOMAIN f
        /\ "service" \in DOMAIN f /\ "mounts" \in DOMAIN f
        /\ f["dockerfile"] = Str(m.dockerfile) /\ f["flavor"] = RenderFlavor[m.flavor]
        /\ f["service"] = Bool(m.service) /\ f["mounts"] = s
    OBVIOUS
  <2>2. Flavor(RenderFlavor[m.flavor]) = {m.flavor}
    BY FlavorRead DEF ContainerType
  <2> HIDE DEF f
  <2>3. /\ GetOr(v, "flavor", Str("cpu")) = RenderFlavor[m.flavor]
        /\ GetOr(v, "mounts", List(<<>>)) = s
    BY <2>1, Field
  <2> QED BY <1>2, <2>1, <2>2, <2>3, StrField, BoolField
<1> HIDE DEF v
<1>4. Get(Map(r), "container") = v /\ Get(Map(r), "tag") = Str("Container")
  <2>1. /\ "tag" \in DOMAIN r /\ "container" \in DOMAIN r
        /\ r["tag"] = Str("Container") /\ r["container"] = v
    OBVIOUS
  <2> HIDE DEF r
  <2> QED BY <2>1, Field
<1> HIDE DEF r
<1>5. \A x : x \in ContainerModel(v) <=>
              x \in [kind : {"container"}, dockerfile : {m.dockerfile}, flavor : {m.flavor},
                     service : {m.service}, mounts : {m.mounts}]
  BY <1>1, <1>3 DEF ContainerModel
<1>6. \A x : x \in [kind : {"container"}, dockerfile : {m.dockerfile}, flavor : {m.flavor},
                     service : {m.service}, mounts : {m.mounts}] <=> x = m
  BY DEF ContainerType
<1> QED BY <1>1, <1>4, <1>5, <1>6

\* The Optional counterpart of the two host models.
LEMMA CounterpartRead ==
    ASSUME NEW f, NEW a \in ArtifactType \cup {None}, "container" \notin DOMAIN f
    PROVE  LET v == Map(Optional(f, "container", RenderArtifact(a), a # None)) IN
           /\ ReadOptional(Get(v, "container"), Artifact(Get(v, "container"))) = {a}
           /\ \A j \in DOMAIN f : Get(v, j) = f[j]
           /\ AsMap(v) = {v}
<1> DEFINE g == Optional(f, "container", RenderArtifact(a), a # None)
<1>1. /\ \A j \in DOMAIN f : j \in DOMAIN g /\ g[j] = f[j]
      /\ a # None => "container" \in DOMAIN g /\ g["container"] = RenderArtifact(a)
      /\ a = None => "container" \notin DOMAIN g
  BY OptionalField
<1> HIDE DEF g
<1>2. \A j \in DOMAIN f : Get(Map(g), j) = f[j]
  BY <1>1, Field
<1>3. AsMap(Map(g)) = {Map(g)}
  BY Narrows
<1>4. ReadOptional(Get(Map(g), "container"), Artifact(Get(Map(g), "container"))) = {a}
  <2>1. CASE a # None
    <3>1. Get(Map(g), "container") = RenderArtifact(a)
      BY <1>1, <2>1, Field
    <3>2. Artifact(RenderArtifact(a)) = {a} /\ RenderArtifact(a) # Null
      BY <2>1, ArtifactRead
    <3> QED BY <3>1, <3>2 DEF ReadOptional
  <2>2. CASE a = None
    BY <1>1, <2>2, NoField DEF ReadOptional
  <2> QED BY <2>1, <2>2
<1> QED BY <1>2, <1>3, <1>4 DEF g

\* The payload of the HostBinary tag.
LEMMA HostBinaryRead ==
    ASSUME NEW m \in HostBinaryType
    PROVE  HostBinaryModel(Get(RenderModel(m), "hostBinary")) = {m}
           /\ Get(RenderModel(m), "tag") = Str("HostBinary")
           /\ AsMap(RenderModel(m)) = {RenderModel(m)}
<1> DEFINE f == [build |-> RenderBuild(m.build), handoff |-> RenderHandoff(m.handoff)]
<1> DEFINE v == Map(Optional(f, "container", RenderArtifact(m.container), m.container # None))
<1> DEFINE r == [tag |-> Str("HostBinary"), hostBinary |-> v]
<1>1. RenderModel(m) = Map(r)
  <2>1. m.kind = "host-binary"
    BY DEF HostBinaryType
  <2> QED BY <2>1 DEF RenderModel
<1>2. AsMap(Map(r)) = {Map(r)}
  BY Narrows, Zenon
<1>3. /\ BuildSpec(RenderBuild(m.build)) = {m.build}
      /\ Handoff(RenderHandoff(m.handoff)) = {m.handoff}
      /\ m.container \in ArtifactType \cup {None}
  <2>1. m.build \in BuildType /\ m.handoff \in HandoffType
        /\ m.container \in ArtifactType \cup {None}
    BY DEF HostBinaryType
  <2> QED BY <2>1, BuildRead, HandoffRead
<1>4. /\ ReadOptional(Get(v, "container"), Artifact(Get(v, "container"))) = {m.container}
      /\ Get(v, "build") = RenderBuild(m.build) /\ Get(v, "handoff") = RenderHandoff(m.handoff)
      /\ AsMap(v) = {v}
  <2>1. /\ "build" \in DOMAIN f /\ "handoff" \in DOMAIN f /\ "container" \notin DOMAIN f
        /\ f["build"] = RenderBuild(m.build) /\ f["handoff"] = RenderHandoff(m.handoff)
    OBVIOUS
  <2> HIDE DEF f
  <2> QED BY <1>3, <2>1, CounterpartRead
<1> HIDE DEF v
<1>5. Get(Map(r), "hostBinary") = v /\ Get(Map(r), "tag") = Str("HostBinary")
  <2>1. /\ "tag" \in DOMAIN r /\ "hostBinary" \in DOMAIN r
        /\ r["tag"] = Str("HostBinary") /\ r["hostBinary"] = v
    OBVIOUS
  <2> HIDE DEF r
  <2> QED BY <2>1, Field
<1> HIDE DEF r
<1>6. \A x : x \in HostBinaryModel(v) <=>
              x \in [kind : {"host-binary"}, build : {m.build}, handoff : {m.handoff},
                     container : {m.container}]
  BY <1>3, <1>4 DEF HostBinaryModel
<1>7. \A x : x \in [kind : {"host-binary"}, build : {m.build}, handoff : {m.handoff},
                     container : {m.container}] <=> x = m
  BY DEF HostBinaryType
<1> QED BY <1>1, <1>2, <1>5, <1>6, <1>7

\* The payload of the HostDaemon tag.
LEMMA HostDaemonRead ==
    ASSUME NEW m \in HostDaemonType
    PROVE  HostDaemonModel(Get(RenderModel(m), "hostDaemon")) = {m}
           /\ Get(RenderModel(m), "tag") = Str("HostDaemon")
           /\ AsMap(RenderModel(m)) = {RenderModel(m)}
<1> DEFINE f == [build |-> RenderBuild(m.build), daemon |-> Str(m.daemon)]
<1> DEFINE v == Map(Optional(f, "container", RenderArtifact(m.container), m.container # None))
<1> DEFINE r == [tag |-> Str("HostDaemon"), hostDaemon |-> v]
<1>1. RenderModel(m) = Map(r)
  <2>1. m.kind = "host-daemon"
    BY DEF HostDaemonType
  <2> QED BY <2>1 DEF RenderModel
<1>2. AsMap(Map(r)) = {Map(r)}
  BY Narrows, Zenon
<1>3. /\ BuildSpec(RenderBuild(m.build)) = {m.build}
      /\ m.container \in ArtifactType \cup {None}
  <2>1. m.build \in BuildType /\ m.container \in ArtifactType \cup {None}
    BY DEF HostDaemonType
  <2> QED BY <2>1, BuildRead
<1>4. /\ ReadOptional(Get(v, "container"), Artifact(Get(v, "container"))) = {m.container}
      /\ Get(v, "build") = RenderBuild(m.build) /\ Get(v, "daemon") = Str(m.daemon)
      /\ AsMap(v) = {v}
  <2>1. /\ "build" \in DOMAIN f /\ "daemon" \in DOMAIN f /\ "container" \notin DOMAIN f
        /\ f["build"] = RenderBuild(m.build) /\ f["daemon"] = Str(m.daemon)
    OBVIOUS
  <2> HIDE DEF f
  <2> QED BY <1>3, <2>1, CounterpartRead
<1>5. AsStr(Get(v, "daemon")) = {m.daemon}
  BY <1>4, Narrows, Zenon
<1> HIDE DEF v
<1>6. Get(Map(r), "hostDaemon") = v /\ Get(Map(r), "tag") = Str("HostDaemon")
  <2>1. /\ "tag" \in DOMAIN r /\ "hostDaemon" \in DOMAIN r
        /\ r["tag"] = Str("HostDaemon") /\ r["hostDaemon"] = v
    OBVIOUS
  <2> HIDE DEF r
  <2> QED BY <2>1, Field
<1> HIDE DEF r
<1>7. \A x : x \in HostDaemonModel(v) <=>
              x \in [kind : {"host-daemon"}, build : {m.build}, daemon : {m.daemon},
                     container : {m.container}]
  BY <1>3, <1>4, <1>5 DEF HostDaemonModel
<1>8. \A x : x \in [kind : {"host-daemon"}, build : {m.build}, daemon : {m.daemon},
                     container : {m.container}] <=> x = m
  BY DEF HostDaemonType
<1> QED BY <1>1, <1>2, <1>6, <1>7, <1>8

\* Every model of the package's types is read as what was written.
LEMMA ModelRead ==
    ASSUME NEW m \in ModelType
    PROVE  Model(RenderModel(m)) = {m}
<1>1. Str("Container") # Str("HostBinary") /\ Str("Container") # Str("HostDaemon")
      /\ Str("HostBinary") # Str("HostDaemon")
  BY DEF Str
<1>2. CASE m \in ContainerType
  BY <1>1, <1>2, ContainerRead DEF Model
<1>3. CASE m \in HostBinaryType
  BY <1>1, <1>3, HostBinaryRead DEF Model
<1>4. CASE m \in HostDaemonType
  BY <1>1, <1>4, HostDaemonRead DEF Model
<1> QED BY <1>2, <1>3, <1>4 DEF ModelType

-----------------------------------------------------------------------------
(* load, entry by entry.                                                   *)

\* What a document of the package gives as its entries.
Rendered(config) ==
    [i \in DOMAIN config |->
        Map([substrate |-> Str(config[i].substrate), model |-> RenderModel(config[i].model)])]

\* The file is a config of the package, and evaluates.
Packaged == input.config # None /\ input.json # Unrendered

LEMMA ConfigEntries ==
    ASSUME NEW c \in ConfigType
    PROVE  Len(c) \in Nat /\ DOMAIN c = 1..Len(c) /\ \A i \in DOMAIN c : c[i] \in EntryType
  BY DEF ConfigType

LEMMA EntriesRead ==
    ASSUME input \in Inputs, Packaged
    PROVE  input.config \in ConfigType /\ Entries = {Rendered(input.config)}
<1> DEFINE c == input.config
<1>1. c \in ConfigType /\ input.json = Render(c)
  BY PackageAssumption DEF Packaged
<1> DEFINE f == [project |-> Str("project"), substrates |-> List(Rendered(c))]
<1>2. Render(c) = Map(f)
  BY DEF Render, Rendered
<1>3. AsMap(Map(f)) = {Map(f)}
  BY Narrows, Zenon
<1>4. Get(Map(f), "project") = Str("project") /\ Get(Map(f), "substrates") = List(Rendered(c))
  <2>1. /\ "project" \in DOMAIN f /\ "substrates" \in DOMAIN f
        /\ f["project"] = Str("project") /\ f["substrates"] = List(Rendered(c))
    OBVIOUS
  <2> HIDE DEF f
  <2> QED BY <2>1, Field
<1> HIDE DEF f
<1>5. AsStr(Str("project")) = {"project"} /\ AsList(List(Rendered(c))) = {Rendered(c)}
  BY Narrows, Zenon
<1>6. AsMap(input.json) = {Map(f)}
  BY <1>1, <1>2, <1>3
<1>7. Entries = {Rendered(c)}
  BY <1>4, <1>5, <1>6 DEF Entries
<1> QED BY <1>1, <1>7

\* Every entry is read as what was written.
LEMMA EntryRead ==
    ASSUME input \in Inputs, Packaged, NEW i \in DOMAIN input.config
    PROVE  Entry(i) = {input.config[i]}
<1> DEFINE c == input.config
<1> DEFINE f == [substrate |-> Str(c[i].substrate), model |-> RenderModel(c[i].model)]
<1>1. c[i] \in [substrate : SubstrateName, model : ModelType]
  BY EntriesRead, ConfigEntries DEF EntryType
<1>2. Entries = {Rendered(c)} /\ Rendered(c)[i] = Map(f)
  BY EntriesRead DEF Rendered
<1>3. AsMap(Map(f)) = {Map(f)}
  BY Narrows, Zenon
<1>4. /\ AsStr(Get(Map(f), "substrate")) \cap SubstrateName = {c[i].substrate}
      /\ Model(Get(Map(f), "model")) = {c[i].model}
  <2>1. /\ "substrate" \in DOMAIN f /\ "model" \in DOMAIN f
        /\ f["substrate"] = Str(c[i].substrate) /\ f["model"] = RenderModel(c[i].model)
    OBVIOUS
  <2> HIDE DEF f
  <2>2. AsStr(Get(Map(f), "substrate")) = {c[i].substrate}
    BY <2>1, StrField
  <2>3. Get(Map(f), "model") = RenderModel(c[i].model)
    BY <2>1, Field
  <2>4. Model(RenderModel(c[i].model)) = {c[i].model} /\ c[i].substrate \in SubstrateName
    BY <1>1, ModelRead
  <2> QED BY <2>2, <2>3, <2>4
<1> HIDE DEF f
<1>5. \A x : x \in Entry(i) <=> x \in [substrate : {c[i].substrate}, model : {c[i].model}]
  <2>1. Entry(i) = UNION {
          [substrate : AsStr(Get(e, "substrate")) \cap SubstrateName, model : Model(Get(e, "model"))]
          : e \in AsMap(Rendered(c)[i])}
    BY <1>2 DEF Entry
  <2> QED BY <1>2, <1>3, <1>4, <2>1
<1>6. \A x : x \in [substrate : {c[i].substrate}, model : {c[i].model}] <=> x = c[i]
  BY <1>1
<1> QED BY <1>5, <1>6

\* What refuses a config of the package.
Refusable ==
    \/ \A i \in DOMAIN input.config : input.config[i].substrate # detected
    \/ \E i, j \in DOMAIN input.config :
          i < j /\ input.config[i].substrate = input.config[j].substrate

\* What load has made of the entries it has read.
ReadInv ==
    LET config == input.config IN
    /\ index \in 0..Len(config)
    /\ DOMAIN substrates = {config[i].substrate : i \in 1..index}
    /\ \A i \in 1..index : substrates[config[i].substrate] = config[i].model
    /\ \A i, j \in 1..index : i < j => config[i].substrate # config[j].substrate
    /\ outcome \in {"loaded", "dispatched"} => index = Len(config)
    /\ outcome = "dispatched" => detected \in DOMAIN substrates /\ model = substrates[detected]
    /\ outcome = "SpecError" => Refusable

LoadInv == input \in Inputs /\ (Packaged => ReadInv)

LEMMA LoadInit == Init => LoadInv
<1> SUFFICES ASSUME Init, Packaged PROVE ReadInv
  BY DEF Init, LoadInv
<1>1. input.config \in ConfigType
  BY EntriesRead DEF Init
<1>2. Len(input.config) \in Nat
  BY <1>1 DEF ConfigType
<1> QED BY <1>2 DEF Init, ReadInv

LEMMA LoadStep == LoadInv /\ [Next]_vars => LoadInv'
<1> SUFFICES ASSUME LoadInv, [Next]_vars PROVE LoadInv'
  OBVIOUS
<1>1. UNCHANGED <<input, detected>>
  BY DEF Next, NotRendered, ReadRoot, ReadEntry, RejectEntry, Loaded, ModelFor, vars
<1> SUFFICES ASSUME Packaged PROVE ReadInv'
  BY <1>1 DEF LoadInv, Packaged
<1> DEFINE c == input.config
<1>2. c \in ConfigType /\ Entries = {Rendered(c)} /\ ReadInv
  BY EntriesRead DEF LoadInv
<1>3. /\ Len(c) \in Nat /\ DOMAIN c = 1..Len(c)
      /\ \A i \in 1..Len(c) : c[i].substrate \in SubstrateName
      /\ DOMAIN Rendered(c) = 1..Len(c) /\ Len(Rendered(c)) = Len(c)
  BY <1>2, ConfigEntries DEF Rendered, EntryType
<1>4. index \in Nat /\ index <= Len(c)
  BY <1>2, <1>3 DEF ReadInv
<1>5. More => outcome = "reading" /\ index < Len(c) /\ Entry(index + 1) = {c[index + 1]}
  <2> SUFFICES ASSUME More PROVE outcome = "reading" /\ index < Len(c)
                                 /\ Entry(index + 1) = {c[index + 1]}
    OBVIOUS
  <2>1. outcome = "reading" /\ index < Len(c)
    BY <1>2, <1>3 DEF More
  <2>2. index + 1 \in DOMAIN c
    BY <1>3, <1>4, <2>1
  <2> QED BY <2>1, <2>2, EntryRead DEF LoadInv
<1>6. ASSUME UNCHANGED <<index, substrates>>,
             outcome' \in {"loaded", "dispatched"} => index = Len(c),
             outcome' = "dispatched" =>
                detected \in DOMAIN substrates /\ model' = substrates[detected],
             outcome' = "SpecError" => Refusable
      PROVE  ReadInv'
  BY <1>1, <1>2, <1>6 DEF ReadInv, Refusable
<1>7. CASE NotRendered
  BY <1>7 DEF NotRendered, Packaged
<1>8. CASE ReadRoot
  <2>1. Rendered(c) = <<>> => Refusable
    BY <1>3 DEF Refusable
  <2>2. Entries \in {{}, {<<>>}} => Rendered(c) = <<>>
    BY <1>2
  <2> QED BY <1>6, <1>8, <2>1, <2>2 DEF ReadRoot
<1>9. CASE ReadEntry
  <2>1. PICK e \in Entry(index + 1) :
          Undeclared(e) /\ substrates' = Put(substrates, e.substrate, e.model)
    BY <1>9 DEF ReadEntry
  <2>2. /\ e = c[index + 1] /\ index < Len(c) /\ outcome = "reading"
        /\ index' = index + 1 /\ UNCHANGED <<outcome, model>>
    BY <1>5, <1>9, <2>1 DEF ReadEntry
  <2>3. 1..index' = 1..index \cup {index + 1}
    BY <1>4, <2>2
  <2>4. \A i \in 1..index : c[i].substrate # c[index + 1].substrate
    BY <1>2, <2>1, <2>2 DEF Undeclared, ReadInv
  <2>5. DOMAIN substrates' = {c[i].substrate : i \in 1..index'}
    BY <1>2, <2>1, <2>2, <2>3 DEF Put, ReadInv
  <2>6. \A i \in 1..index' : substrates'[c[i].substrate] = c[i].model
    BY <1>2, <2>1, <2>2, <2>3, <2>4 DEF Put, ReadInv
  <2>7. ASSUME NEW i \in 1..index', NEW j \in 1..index', i < j
        PROVE  c[i].substrate # c[j].substrate
    <3>1. i \in 1..index
      BY <1>4, <2>2, <2>7
    <3>2. CASE j \in 1..index
      BY <1>2, <2>7, <3>1, <3>2 DEF ReadInv
    <3>3. CASE j = index + 1
      BY <2>4, <3>1, <3>3
    <3> QED BY <2>3, <3>2, <3>3
  <2>8. index' \in 0..Len(c)
    BY <1>3, <1>4, <2>2
  <2> QED BY <1>1, <2>2, <2>5, <2>6, <2>7, <2>8 DEF ReadInv
<1>10. CASE RejectEntry
  <2>1. c[index + 1].substrate \in DOMAIN substrates /\ index + 1 \in 1..Len(c)
    BY <1>3, <1>4, <1>5, <1>10 DEF RejectEntry, Undeclared
  <2>2. PICK i \in 1..index : c[i].substrate = c[index + 1].substrate
    BY <1>2, <2>1 DEF ReadInv
  <2>3. i \in DOMAIN c /\ index + 1 \in DOMAIN c /\ i < index + 1
    BY <1>3, <1>4, <2>1, <2>2
  <2>4. Refusable
    BY <2>2, <2>3 DEF Refusable
  <2> QED BY <1>6, <1>10, <2>4 DEF RejectEntry
<1>11. CASE Loaded
  <2>1. index = Len(c)
    BY <1>2, <1>3, <1>4, <1>11 DEF Loaded, More
  <2> QED BY <1>6, <1>11, <2>1 DEF Loaded
<1>12. CASE ModelFor
  <2>1. index = Len(c)
    BY <1>2, <1>12 DEF ModelFor, ReadInv
  <2>2. detected \notin DOMAIN substrates => Refusable
    BY <1>2, <1>3, <2>1 DEF ReadInv, Refusable
  <2> QED BY <1>6, <1>12, <2>1, <2>2 DEF ModelFor
<1>13. CASE UNCHANGED vars
  BY <1>2, <1>6, <1>13 DEF vars, ReadInv
<1> QED BY <1>7, <1>8, <1>9, <1>10, <1>11, <1>12, <1>13 DEF Next

LEMMA LoadInvImplies == LoadInv => DispatchedAsDeclared
<1> SUFFICES ASSUME LoadInv, Packaged PROVE DispatchedAsDeclared
  BY DEF DispatchedAsDeclared, Packaged
<1> DEFINE c == input.config
<1>1. c \in ConfigType /\ ReadInv
  BY EntriesRead DEF LoadInv
<1>2. /\ DOMAIN c = 1..Len(c) /\ Len(c) \in Nat
      /\ \A i \in 1..Len(c) : c[i] \in [substrate : SubstrateName, model : ModelType]
  BY <1>1, ConfigEntries DEF EntryType
<1>3. ASSUME outcome = "dispatched"
      PROVE  {e \in {c[i] : i \in DOMAIN c} : e.substrate = detected}
                 = {[substrate |-> detected, model |-> model]}
  <2>1. index = Len(c)
    BY <1>1, <1>3 DEF ReadInv
  <2>2. PICK i \in 1..Len(c) : c[i].substrate = detected /\ model = c[i].model
    BY <1>1, <1>3, <2>1 DEF ReadInv
  <2>3. c[i] = [substrate |-> detected, model |-> model]
    BY <1>2, <2>2
  <2>4. \A j \in 1..Len(c) : c[j].substrate = detected => j = i
    BY <1>1, <1>2, <2>1, <2>2 DEF ReadInv
  <2> QED BY <1>2, <2>2, <2>3, <2>4
<1>4. outcome = "SpecError" => Refusable
  BY <1>1 DEF ReadInv
<1> QED BY <1>3, <1>4 DEF DispatchedAsDeclared, Refusable

\* Every config of the package's types, however long: what a project declares
\* is what its commands are dispatched on, and the only configs that are
\* refused are those that do not declare the substrate, or declare one twice.
THEOREM DispatchesAsDeclared == Spec => []DispatchedAsDeclared
  BY LoadInit, LoadStep, LoadInvImplies, PTL DEF Spec

-----------------------------------------------------------------------------
(* Types, whatever the document.                                           *)

LEMMA TypeInit == Init => TypeOK
<1> SUFFICES ASSUME Init PROVE TypeOK
  OBVIOUS
<1>1. DOMAIN substrates = {}
  BY DEF Init
<1>2. Cardinality({}) = 0
  BY FS_EmptySet
<1> QED BY <1>1, <1>2 DEF Init, TypeOK

LEMMA TypeStep == TypeOK /\ [Next]_vars => TypeOK'
<1> SUFFICES ASSUME TypeOK, [Next]_vars PROVE TypeOK'
  OBVIOUS
<1>1. CASE ReadEntry
  <2>1. PICK e \in Entry(index + 1) :
          Undeclared(e) /\ substrates' = Put(substrates, e.substrate, e.model)
    BY <1>1 DEF ReadEntry
  <2>2. e.substrate \in SubstrateName
    BY <2>1 DEF Entry
  <2>3. DOMAIN substrates' = DOMAIN substrates \cup {e.substrate}
    BY <2>1 DEF Put
  <2>4. IsFiniteSet(SubstrateName)
    <3>1. SubstrateName = (({} \cup {"apple-silicon"}) \cup {"linux-cpu"}) \cup {"linux-gpu"}
      BY DEF SubstrateName
    <3> QED BY <3>1, FS_EmptySet, FS_AddElement
  <2>5. IsFiniteSet(DOMAIN substrates)
    BY <2>4, FS_Subset DEF TypeOK
  <2>6. Cardinality(DOMAIN substrates \cup {e.substrate}) = Cardinality(DOMAIN substrates) + 1
    BY <2>1, <2>5, FS_AddElement DEF Undeclared
  <2> QED BY <1>1, <2>2, <2>3, <2>6 DEF ReadEntry, TypeOK
<1>2. CASE NotRendered \/ ReadRoot \/ RejectEntry \/ Loaded \/ ModelFor
  BY <1>2 DEF NotRendered, ReadRoot, RejectEntry, Loaded, ModelFor, TypeOK
<1>3. CASE UNCHANGED vars
  BY <1>3 DEF vars, TypeOK
<1> QED BY <1>1, <1>2, <1>3 DEF Next

\* Whatever the document: the mapping that load builds has one of the three
\* substrates for each entry it has read.
THEOREM TypeCorrect == Spec => []TypeOK
  BY TypeInit, TypeStep, PTL DEF Spec

-----------------------------------------------------------------------------
(* What a reader takes out of a document is what the document says.        *)

LEMMA HeldInJSON ==
    ASSUME NEW v \in JSON, v[1] \in {"map", "list"}, NEW k \in DOMAIN v[2]
    PROVE  v[2][k] \in JSON
<1>1. v[2][k] \in Held(v)
  BY DEF Held
<1> QED BY <1>1, JSONAssumption

LEMMA ValueSaid ==
    /\ \A v \in JSON : \A s \in AsStr(v) : SaysValue(v, Str(s))
    /\ \A v \in JSON : \A b \in AsBool(v) : SaysValue(v, Bool(b))
    /\ \A v : \A f \in Flavor(v) : SaysValue(v, RenderFlavor[f])
<1>1. \A v \in JSON : \A s \in AsStr(v) : SaysValue(v, Str(s))
  BY JSONAssumption DEF AsStr, SaysValue
<1>2. \A v \in JSON : \A b \in AsBool(v) : SaysValue(v, Bool(b))
  BY JSONAssumption DEF AsBool, SaysValue
<1>3. \A v : \A f \in Flavor(v) : SaysValue(v, RenderFlavor[f])
  BY DEF Flavor, SaysValue
<1> QED BY <1>1, <1>2, <1>3

\* What is said of a value is said at every depth.
LEMMA LeafSaid ==
    ASSUME NEW v, NEW r, r[1] \notin {"map", "list"}, SaysValue(v, r)
    PROVE  SaysFields(v, r) /\ SaysPart(v, r) /\ SaysPayload(v, r)
  BY DEF SaysFields, SaysPart, SaysPayload, SaysWith

LEMMA LeafType ==
    /\ \A s : Str(s)[1] \notin {"map", "list"}
    /\ \A b : Bool(b)[1] \notin {"map", "list"}
    /\ \A f \in {"cpu", "cuda"} : RenderFlavor[f][1] \notin {"map", "list"}
  BY DEF Str, Bool, RenderFlavor

LEMMA MapSaid ==
    ASSUME NEW v, NEW f, v[1] = "map",
           \A k \in Optionals(f) \ DOMAIN f : Get(v, k) = Null
    PROVE  /\ (\A k \in DOMAIN f \cap DOMAIN v[2] : SaysValue(v[2][k], f[k]))
                => SaysFields(v, Map(f))
           /\ (\A k \in DOMAIN f \cap DOMAIN v[2] : SaysFields(v[2][k], f[k]))
                => SaysPart(v, Map(f))
           /\ (\A k \in DOMAIN f \cap DOMAIN v[2] : SaysPart(v[2][k], f[k]))
                => SaysPayload(v, Map(f))
           /\ (\A k \in DOMAIN f \cap DOMAIN v[2] : SaysPayload(v[2][k], f[k]))
                => Says(v, Map(f))
<1> DEFINE r == Map(f)
<1>1. r[1] = "map" /\ r[2] = f
  BY DEF Map
<1> HIDE DEF r
<1>2. (\A k \in DOMAIN f \cap DOMAIN v[2] : SaysValue(v[2][k], f[k])) => SaysFields(v, r)
  BY <1>1 DEF SaysFields, SaysWith
<1>3. (\A k \in DOMAIN f \cap DOMAIN v[2] : SaysFields(v[2][k], f[k])) => SaysPart(v, r)
  BY <1>1 DEF SaysPart, SaysWith
<1>4. (\A k \in DOMAIN f \cap DOMAIN v[2] : SaysPart(v[2][k], f[k])) => SaysPayload(v, r)
  BY <1>1 DEF SaysPayload, SaysWith
<1>5. (\A k \in DOMAIN f \cap DOMAIN v[2] : SaysPayload(v[2][k], f[k])) => Says(v, r)
  BY <1>1 DEF Says, SaysWith
<1> QED BY <1>2, <1>3, <1>4, <1>5 DEF r

LEMMA NoOptionals ==
    \A f : "up" \notin DOMAIN f /\ "build" \notin DOMAIN f => Optionals(f) = {}
  BY DEF Optionals

\* A field that is there is one of the document's parts.
LEMMA Given ==
    ASSUME NEW v \in JSON, v[1] = "map", NEW k \in DOMAIN v[2]
    PROVE  /\ v[2][k] \in JSON /\ Get(v, k) = v[2][k]
           /\ \A d : GetOr(v, k, d) = v[2][k]
  BY HeldInJSON DEF Get, GetOr

LEMMA StrSaid ==
    ASSUME NEW v \in JSON, v[1] = "map", NEW k \in DOMAIN v[2], NEW s \in AsStr(Get(v, k))
    PROVE  SaysValue(v[2][k], Str(s)) /\ SaysFields(v[2][k], Str(s)) /\ SaysPart(v[2][k], Str(s))
<1>1. SaysValue(v[2][k], Str(s))
  BY Given, ValueSaid
<1> QED BY <1>1, LeafSaid, LeafType

LEMMA BoolSaid ==
    ASSUME NEW v \in JSON, v[1] = "map", NEW k \in DOMAIN v[2], NEW d,
           NEW b \in AsBool(GetOr(v, k, d))
    PROVE  SaysValue(v[2][k], Bool(b)) /\ SaysFields(v[2][k], Bool(b)) /\ SaysPart(v[2][k], Bool(b))
<1>1. SaysValue(v[2][k], Bool(b))
  BY Given, ValueSaid
<1> QED BY <1>1, LeafSaid, LeafType

LEMMA FlavorSaid ==
    ASSUME NEW v \in JSON, v[1] = "map", NEW k \in DOMAIN v[2], NEW d,
           NEW f \in Flavor(GetOr(v, k, d))
    PROVE  SaysFields(v[2][k], RenderFlavor[f]) /\ SaysPart(v[2][k], RenderFlavor[f])
<1>1. SaysValue(v[2][k], RenderFlavor[f])
  BY Given, ValueSaid
<1>2. f \in {"cpu", "cuda"}
  BY DEF Flavor
<1> QED BY <1>1, <1>2, LeafSaid, LeafType

LEMMA MountSaid ==
    ASSUME NEW v \in JSON, NEW x \in Mount(v)
    PROVE  SaysFields(v, RenderMount(x))
<1> DEFINE f == [host |-> Str(x.host), container |-> Str(x.container), ro |-> Bool(x.read_only)]
<1>1. v[1] = "map" /\ AsMap(v) = {v}
  BY DEF Mount, AsMap
<1>2. x \in [host : AsStr(Get(v, "host")), container : AsStr(Get(v, "container")),
             read_only : AsBool(GetOr(v, "ro", Bool(FALSE)))]
  BY <1>1 DEF Mount
<1>3. /\ x.host \in AsStr(Get(v, "host")) /\ x.container \in AsStr(Get(v, "container"))
      /\ x.read_only \in AsBool(GetOr(v, "ro", Bool(FALSE)))
  BY <1>2
<1>4. \A k \in DOMAIN f \cap DOMAIN v[2] : SaysValue(v[2][k], f[k])
  <2>1. "host" \in DOMAIN v[2] => SaysValue(v[2]["host"], Str(x.host))
    BY <1>1, <1>3, StrSaid
  <2>2. "container" \in DOMAIN v[2] => SaysValue(v[2]["container"], Str(x.container))
    BY <1>1, <1>3, StrSaid
  <2>3. "ro" \in DOMAIN v[2] => SaysValue(v[2]["ro"], Bool(x.read_only))
    BY <1>1, <1>3, BoolSaid
  <2> QED BY <2>1, <2>2, <2>3
<1>5. Optionals(f) = {}
  BY NoOptionals
<1>6. RenderMount(x) = Map(f)
  BY DEF RenderMount
<1> HIDE DEF f
<1> QED BY <1>1, <1>4, <1>5, <1>6, MapSaid

LEMMA HostReqsSaid ==
    ASSUME NEW v \in JSON, NEW x \in HostReqs(v)
    PROVE  SaysFields(v, Map([k \in {"ghc", "tart", "metal"} |-> Bool(x[k])]))
<1> DEFINE f == [k \in {"ghc", "tart", "metal"} |-> Bool(x[k])]
<1>1. v[1] = "map" /\ AsMap(v) = {v}
  BY DEF HostReqs, AsMap
<1>2. x \in [ghc : AsBool(GetOr(v, "ghc", Bool(FALSE))),
             tart : AsBool(GetOr(v, "tart", Bool(FALSE))),
             metal : AsBool(GetOr(v, "metal", Bool(FALSE)))]
  BY <1>1 DEF HostReqs
<1>3. /\ x.ghc \in AsBool(GetOr(v, "ghc", Bool(FALSE)))
      /\ x.tart \in AsBool(GetOr(v, "tart", Bool(FALSE)))
      /\ x.metal \in AsBool(GetOr(v, "metal", Bool(FALSE)))
  BY <1>2
<1>4. \A k \in DOMAIN f \cap DOMAIN v[2] : SaysValue(v[2][k], f[k])
  <2>1. "ghc" \in DOMAIN v[2] => SaysValue(v[2]["ghc"], Bool(x.ghc))
    BY <1>1, <1>3, BoolSaid
  <2>2. "tart" \in DOMAIN v[2] => SaysValue(v[2]["tart"], Bool(x.tart))
    BY <1>1, <1>3, BoolSaid
  <2>3. "metal" \in DOMAIN v[2] => SaysValue(v[2]["metal"], Bool(x.metal))
    BY <1>1, <1>3, BoolSaid
  <2> QED BY <2>1, <2>2, <2>3
<1>5. Optionals(f) = {}
  BY NoOptionals
<1> HIDE DEF f
<1>6. SaysFields(v, Map(f))
  BY <1>1, <1>4, <1>5, MapSaid
<1> QED BY <1>6 DEF f

LEMMA BuildSaid ==
    ASSUME NEW v \in JSON, NEW x \in BuildSpec(v)
    PROVE  SaysPart(v, RenderBuild(x))
<1> DEFINE h == Map([k \in {"ghc", "tart", "metal"} |-> Bool(x.host[k])])
<1> DEFINE f == [cabal |-> Str(x.cabal), host |-> h]
<1>1. v[1] = "map" /\ AsMap(v) = {v}
  BY DEF BuildSpec, AsMap
<1>2. x \in [cabal : AsStr(Get(v, "cabal")), host : HostReqs(GetOr(v, "host", Map(<<>>)))]
  BY <1>1 DEF BuildSpec
<1>3. /\ x.cabal \in AsStr(Get(v, "cabal"))
      /\ x.host \in HostReqs(GetOr(v, "host", Map(<<>>)))
  BY <1>2
<1>4. \A k \in DOMAIN f \cap DOMAIN v[2] : SaysFields(v[2][k], f[k])
  <2>1. "cabal" \in DOMAIN v[2] => SaysFields(v[2]["cabal"], Str(x.cabal))
    BY <1>1, <1>3, StrSaid
  <2>2. "host" \in DOMAIN v[2] => SaysFields(v[2]["host"], h)
    BY <1>1, <1>3, Given, HostReqsSaid
  <2> QED BY <2>1, <2>2
<1>5. Optionals(f) = {}
  BY NoOptionals
<1>6. RenderBuild(x) = Map(f)
  BY DEF RenderBuild
<1> HIDE DEF f
<1> QED BY <1>1, <1>4, <1>5, <1>6, MapSaid

LEMMA MountsSaid ==
    ASSUME NEW v \in JSON, NEW x \in Mounts(v)
    PROVE  SaysPart(v, List([i \in DOMAIN x |-> RenderMount(x[i])]))
<1> DEFINE r == [i \in DOMAIN x |-> RenderMount(x[i])]
<1>1. v[1] = "list" /\ x \in MountSeq(v[2])
  BY DEF Mounts, AsList
<1>2. /\ DOMAIN x = DOMAIN v[2]
      /\ \A i \in DOMAIN x : x[i] \in Mount(v[2][i])
  BY <1>1 DEF MountSeq
<1>3. DOMAIN r = DOMAIN v[2] /\ \A i \in DOMAIN r : SaysFields(v[2][i], r[i])
  BY <1>1, <1>2, HeldInJSON, MountSaid
<1> HIDE DEF r
<1>4. SaysPart(v, List(r))
  BY <1>1, <1>3 DEF SaysPart, SaysWith, List
<1> QED BY <1>4 DEF r

LEMMA ArtifactSaid ==
    ASSUME NEW v \in JSON, NEW x \in Artifact(v)
    PROVE  SaysPart(v, RenderArtifact(x))
<1> DEFINE f == [dockerfile |-> Str(x.dockerfile), flavor |-> RenderFlavor[x.flavor]]
<1>1. v[1] = "map" /\ AsMap(v) = {v}
  BY DEF Artifact, AsMap
<1>2. x \in [dockerfile : AsStr(Get(v, "dockerfile")),
             flavor : Flavor(GetOr(v, "flavor", Str("cpu")))]
  BY <1>1 DEF Artifact
<1>3. /\ x.dockerfile \in AsStr(Get(v, "dockerfile"))
      /\ x.flavor \in Flavor(GetOr(v, "flavor", Str("cpu")))
  BY <1>2
<1>4. \A k \in DOMAIN f \cap DOMAIN v[2] : SaysFields(v[2][k], f[k])
  <2>1. "dockerfile" \in DOMAIN v[2] => SaysFields(v[2]["dockerfile"], Str(x.dockerfile))
    BY <1>1, <1>3, StrSaid
  <2>2. "flavor" \in DOMAIN v[2] => SaysFields(v[2]["flavor"], RenderFlavor[x.flavor])
    BY <1>1, <1>3, FlavorSaid
  <2> QED BY <2>1, <2>2
<1>5. Optionals(f) = {}
  BY NoOptionals
<1>6. RenderArtifact(x) = Map(f)
  BY DEF RenderArtifact
<1> HIDE DEF f
<1> QED BY <1>1, <1>4, <1>5, <1>6, MapSaid

LEMMA HandoffSaid ==
    ASSUME NEW v \in JSON, NEW x \in Handoff(v)
    PROVE  SaysPart(v, RenderHandoff(x))
<1> DEFINE r == [up |-> Str(x.up), down |-> Str(x.down)]
<1> DEFINE f == Optional(r, "delete", Str(x.delete), x.delete # None)
<1>1. v[1] = "map" /\ AsMap(v) = {v}
  BY DEF Handoff, AsMap
<1>2. x \in [up : AsStr(Get(v, "up")), down : AsStr(Get(v, "down")),
             delete : ReadOptional(Get(v, "delete"), AsStr(Get(v, "delete")))]
  BY <1>1 DEF Handoff
<1>3. /\ x.up \in AsStr(Get(v, "up")) /\ x.down \in AsStr(Get(v, "down"))
      /\ x.delete \in ReadOptional(Get(v, "delete"), AsStr(Get(v, "delete")))
  BY <1>2
<1>4. /\ DOMAIN f = IF x.delete # None THEN {"up", "down", "delete"} ELSE {"up", "down"}
      /\ f["up"] = Str(x.up) /\ f["down"] = Str(x.down)
      /\ x.delete # None => f["delete"] = Str(x.delete)
  <2>1. DOMAIN r = {"up", "down"} /\ r["up"] = Str(x.up) /\ r["down"] = Str(x.down)
    OBVIOUS
  <2> HIDE DEF r
  <2>2. /\ DOMAIN f = IF x.delete # None THEN DOMAIN r \cup {"delete"} ELSE DOMAIN r
        /\ \A j \in DOMAIN r : f[j] = r[j]
        /\ x.delete # None => f["delete"] = Str(x.delete)
    BY <2>1 DEF Optional, Put
  <2> HIDE DEF f
  <2> QED BY <2>1, <2>2
<1>5. RenderHandoff(x) = Map(f)
  BY DEF RenderHandoff
<1> HIDE DEF f
<1>6. \A k \in DOMAIN f \cap DOMAIN v[2] : SaysFields(v[2][k], f[k])
  <2>1. "up" \in DOMAIN v[2] => SaysFields(v[2]["up"], Str(x.up))
    BY <1>1, <1>3, StrSaid
  <2>2. "down" \in DOMAIN v[2] => SaysFields(v[2]["down"], Str(x.down))
    BY <1>1, <1>3, StrSaid
  <2>3. x.delete # None => x.delete \in AsStr(Get(v, "delete"))
    BY <1>3 DEF ReadOptional
  <2>4. x.delete # None /\ "delete" \in DOMAIN v[2] => SaysFields(v[2]["delete"], Str(x.delete))
    BY <1>1, <2>3, StrSaid
  <2> QED BY <1>4, <2>1, <2>2, <2>4
<1>7. \A k \in Optionals(f) \ DOMAIN f : Get(v, k) = Null
  <2>1. ASSUME Get(v, "delete") # Null PROVE x.delete # None
    <3>1. x.delete \in AsStr(Get(v, "delete"))
      BY <1>3, <2>1 DEF ReadOptional
    <3>2. Get(v, "delete") \in JSON
      BY <1>1, <2>1, Given DEF Get, GetOr
    <3> QED BY <3>1, <3>2, JSONAssumption
  <2>2. Optionals(f) \subseteq {"delete"}
    BY <1>4 DEF Optionals
  <2> QED BY <1>4, <2>1, <2>2
<1> QED BY <1>1, <1>5, <1>6, <1>7, MapSaid

LEMMA ContainerSaid ==
    ASSUME NEW v \in JSON, NEW x \in ContainerModel(v)
    PROVE  x.kind = "container" /\ SaysPayload(v, RenderModel(x)[2].container)
<1> DEFINE l == List([i \in DOMAIN x.mounts |-> RenderMount(x.mounts[i])])
<1> DEFINE f == [dockerfile |-> Str(x.dockerfile), flavor |-> RenderFlavor[x.flavor],
                 service |-> Bool(x.service), mounts |-> l]
<1>1. v[1] = "map" /\ AsMap(v) = {v}
  BY DEF ContainerModel, AsMap
<1>2. x \in [kind : {"container"}, dockerfile : AsStr(Get(v, "dockerfile")),
             flavor : Flavor(GetOr(v, "flavor", Str("cpu"))),
             service : AsBool(GetOr(v, "service", Bool(FALSE))),
             mounts : Mounts(GetOr(v, "mounts", List(<<>>)))]
  BY <1>1 DEF ContainerModel
<1>3. /\ x.kind = "container" /\ x.dockerfile \in AsStr(Get(v, "dockerfile"))
      /\ x.flavor \in Flavor(GetOr(v, "flavor", Str("cpu")))
      /\ x.service \in AsBool(GetOr(v, "service", Bool(FALSE)))
      /\ x.mounts \in Mounts(GetOr(v, "mounts", List(<<>>)))
  BY <1>2
<1>4. \A k \in DOMAIN f \cap DOMAIN v[2] : SaysPart(v[2][k], f[k])
  <2>1. "dockerfile" \in DOMAIN v[2] => SaysPart(v[2]["dockerfile"], Str(x.dockerfile))
    BY <1>1, <1>3, StrSaid
  <2>2. "flavor" \in DOMAIN v[2] => SaysPart(v[2]["flavor"], RenderFlavor[x.flavor])
    BY <1>1, <1>3, FlavorSaid
  <2>3. "service" \in DOMAIN v[2] => SaysPart(v[2]["service"], Bool(x.service))
    BY <1>1, <1>3, BoolSaid
  <2>4. "mounts" \in DOMAIN v[2] => SaysPart(v[2]["mounts"], l)
    BY <1>1, <1>3, Given, MountsSaid
  <2> HIDE DEF l
  <2> QED BY <2>1, <2>2, <2>3, <2>4
<1>5. Optionals(f) = {}
  BY NoOptionals
<1>6. RenderModel(x) = Map([tag |-> Str("Container"), container |-> Map(f)])
  BY <1>3 DEF RenderModel
<1> HIDE DEF f
<1>7. RenderModel(x)[2].container = Map(f)
  BY <1>6 DEF Map
<1> QED BY <1>1, <1>3, <1>4, <1>5, <1>7, MapSaid

\* The container of a host model, an Optional.
LEMMA CounterpartSaid ==
    ASSUME NEW v \in JSON, v[1] = "map",
           NEW x \in ReadOptional(Get(v, "container"), Artifact(Get(v, "container")))
    PROVE  /\ x = None => Get(v, "container") = Null
           /\ x # None /\ "container" \in DOMAIN v[2]
                => SaysPart(v[2]["container"], RenderArtifact(x))
<1>1. ASSUME Get(v, "container") # Null
      PROVE  /\ "container" \in DOMAIN v[2] /\ Get(v, "container") \in JSON
             /\ x \in Artifact(Get(v, "container")) /\ x # None
  <2>1. "container" \in DOMAIN v[2] /\ Get(v, "container") \in JSON
    BY <1>1, Given DEF Get, GetOr
  <2>2. x \in Artifact(Get(v, "container"))
    BY <1>1 DEF ReadOptional
  <2> QED BY <2>1, <2>2, JSONAssumption
<1>2. Get(v, "container") = Null => x = None
  BY DEF ReadOptional
<1>3. ASSUME x # None, "container" \in DOMAIN v[2]
      PROVE  SaysPart(v[2]["container"], RenderArtifact(x))
  <2>1. Get(v, "container") \in JSON /\ x \in Artifact(Get(v, "container"))
    BY <1>1, <1>2, <1>3
  <2>2. SaysPart(Get(v, "container"), RenderArtifact(x))
    BY <2>1, ArtifactSaid
  <2> QED BY <1>3, <2>2, Given
<1> QED BY <1>1, <1>2, <1>3

LEMMA HostBinarySaid ==
    ASSUME NEW v \in JSON, NEW x \in HostBinaryModel(v)
    PROVE  x.kind = "host-binary" /\ SaysPayload(v, RenderModel(x)[2].hostBinary)
<1> DEFINE r == [build |-> RenderBuild(x.build), handoff |-> RenderHandoff(x.handoff)]
<1> DEFINE f == Optional(r, "container", RenderArtifact(x.container), x.container # None)
<1>1. v[1] = "map" /\ AsMap(v) = {v}
  BY DEF HostBinaryModel, AsMap
<1>2. x \in [kind : {"host-binary"}, build : BuildSpec(Get(v, "build")),
             handoff : Handoff(Get(v, "handoff")),
             container : ReadOptional(Get(v, "container"), Artifact(Get(v, "container")))]
  BY <1>1 DEF HostBinaryModel
<1>3. /\ x.kind = "host-binary" /\ x.build \in BuildSpec(Get(v, "build"))
      /\ x.handoff \in Handoff(Get(v, "handoff"))
      /\ x.container \in ReadOptional(Get(v, "container"), Artifact(Get(v, "container")))
  BY <1>2
<1>4. /\ DOMAIN f = IF x.container # None THEN {"build", "handoff", "container"}
                                          ELSE {"build", "handoff"}
      /\ f["build"] = RenderBuild(x.build) /\ f["handoff"] = RenderHandoff(x.handoff)
      /\ x.container # None => f["container"] = RenderArtifact(x.container)
  <2>1. /\ DOMAIN r = {"build", "handoff"}
        /\ r["build"] = RenderBuild(x.build) /\ r["handoff"] = RenderHandoff(x.handoff)
    OBVIOUS
  <2> HIDE DEF r
  <2>2. /\ DOMAIN f = IF x.container # None THEN DOMAIN r \cup {"container"} ELSE DOMAIN r
        /\ \A j \in DOMAIN r : f[j] = r[j]
        /\ x.container # None => f["container"] = RenderArtifact(x.container)
    BY <2>1 DEF Optional, Put
  <2> HIDE DEF f
  <2> QED BY <2>1, <2>2
<1>5. RenderModel(x) = Map([tag |-> Str("HostBinary"), hostBinary |-> Map(f)])
  BY <1>3 DEF RenderModel
<1> HIDE DEF f
<1>6. RenderModel(x)[2].hostBinary = Map(f)
  BY <1>5 DEF Map
<1>7. \A k \in DOMAIN f \cap DOMAIN v[2] : SaysPart(v[2][k], f[k])
  <2>1. "build" \in DOMAIN v[2] => SaysPart(v[2]["build"], RenderBuild(x.build))
    BY <1>1, <1>3, Given, BuildSaid
  <2>2. "handoff" \in DOMAIN v[2] => SaysPart(v[2]["handoff"], RenderHandoff(x.handoff))
    BY <1>1, <1>3, Given, HandoffSaid
  <2>3. x.container # None /\ "container" \in DOMAIN v[2]
          => SaysPart(v[2]["container"], RenderArtifact(x.container))
    BY <1>1, <1>3, CounterpartSaid
  <2> QED BY <1>4, <2>1, <2>2, <2>3
<1>8. \A k \in Optionals(f) \ DOMAIN f : Get(v, k) = Null
  <2>1. Optionals(f) \subseteq {"container"}
    BY <1>4 DEF Optionals
  <2>2. x.container = None => Get(v, "container") = Null
    BY <1>1, <1>3, CounterpartSaid
  <2> QED BY <1>4, <2>1, <2>2
<1> QED BY <1>1, <1>3, <1>6, <1>7, <1>8, MapSaid

LEMMA HostDaemonSaid ==
    ASSUME NEW v \in JSON, NEW x \in HostDaemonModel(v)
    PROVE  x.kind = "host-daemon" /\ SaysPayload(v, RenderModel(x)[2].hostDaemon)
<1> DEFINE r == [build |-> RenderBuild(x.build), daemon |-> Str(x.daemon)]
<1> DEFINE f == Optional(r, "container", RenderArtifact(x.container), x.container # None)
<1>1. v[1] = "map" /\ AsMap(v) = {v}
  BY DEF HostDaemonModel, AsMap
<1>2. x \in [kind : {"host-daemon"}, build : BuildSpec(Get(v, "build")),
             daemon : AsStr(Get(v, "daemon")),
             container : ReadOptional(Get(v, "container"), Artifact(Get(v, "container")))]
  BY <1>1 DEF HostDaemonModel
<1>3. /\ x.kind = "host-daemon" /\ x.build \in BuildSpec(Get(v, "build"))
      /\ x.daemon \in AsStr(Get(v, "daemon"))
      /\ x.container \in ReadOptional(Get(v, "container"), Artifact(Get(v, "container")))
  BY <1>2
<1>4. /\ DOMAIN f = IF x.container # None THEN {"build", "daemon", "container"}
                                          ELSE {"build", "daemon"}
      /\ f["build"] = RenderBuild(x.build) /\ f["daemon"] = Str(x.daemon)
      /\ x.container # None => f["container"] = RenderArtifact(x.container)
  <2>1. /\ DOMAIN r = {"build", "daemon"}
        /\ r["build"] = RenderBuild(x.build) /\ r["daemon"] = Str(x.daemon)
    OBVIOUS
  <2> HIDE DEF r
  <2>2. /\ DOMAIN f = IF x.container # None THEN DOMAIN r \cup {"container"} ELSE DOMAIN r
        /\ \A j \in DOMAIN r : f[j] = r[j]
        /\ x.container # None => f["container"] = RenderArtifact(x.container)
    BY <2>1 DEF Optional, Put
  <2> HIDE DEF f
  <2> QED BY <2>1, <2>2
<1>5. RenderModel(x) = Map([tag |-> Str("HostDaemon"), hostDaemon |-> Map(f)])
  BY <1>3 DEF RenderModel
<1> HIDE DEF f
<1>6. RenderModel(x)[2].hostDaemon = Map(f)
  BY <1>5 DEF Map
<1>7. \A k \in DOMAIN f \cap DOMAIN v[2] : SaysPart(v[2][k], f[k])
  <2>1. "build" \in DOMAIN v[2] => SaysPart(v[2]["build"], RenderBuild(x.build))
    BY <1>1, <1>3, Given, BuildSaid
  <2>2. "daemon" \in DOMAIN v[2] => SaysPart(v[2]["daemon"], Str(x.daemon))
    BY <1>1, <1>3, StrSaid
  <2>3. x.container # None /\ "container" \in DOMAIN v[2]
          => SaysPart(v[2]["container"], RenderArtifact(x.container))
    BY <1>1, <1>3, CounterpartSaid
  <2> QED BY <1>4, <2>1, <2>2, <2>3
<1>8. \A k \in Optionals(f) \ DOMAIN f : Get(v, k) = Null
  <2>1. Optionals(f) \subseteq {"container"}
    BY <1>4 DEF Optionals
  <2>2. x.container = None => Get(v, "container") = Null
    BY <1>1, <1>3, CounterpartSaid
  <2> QED BY <1>4, <2>1, <2>2
<1> QED BY <1>1, <1>3, <1>6, <1>7, <1>8, MapSaid

\* The tag and the payload that it names.
LEMMA TaggedSaid ==
    ASSUME NEW v \in JSON, v[1] = "map", NEW tag, NEW f, "up" \notin DOMAIN f, "build" \notin DOMAIN f,
           NEW k \in DOMAIN f, DOMAIN f = {"tag", k}, k # "tag", f["tag"] = Str(tag), Get(v, "tag") = Str(tag),
           SaysPayload(Get(v, k), f[k])
    PROVE  Says(v, Map(f))
<1>1. Optionals(f) = {}
  BY NoOptionals
<1>2. "tag" \in DOMAIN v[2] => SaysPayload(v[2]["tag"], f["tag"])
  <2>1. Get(v, "tag") = v[2]["tag"] \/ "tag" \notin DOMAIN v[2]
    BY DEF Get, GetOr
  <2>2. SaysValue(Str(tag), Str(tag))
    BY DEF SaysValue
  <2> QED BY <2>1, <2>2, LeafSaid, LeafType
<1>3. k \in DOMAIN v[2] => SaysPayload(v[2][k], f[k])
  BY DEF Get, GetOr
<1> QED BY <1>1, <1>2, <1>3, MapSaid

LEMMA ModelSaid ==
    ASSUME NEW v \in JSON, NEW x \in Model(v)
    PROVE  Says(v, RenderModel(x))
<1>1. v[1] = "map" /\ AsMap(v) = {v}
  BY DEF Model, AsMap
<1>2. CASE Get(v, "tag") = Str("Container") /\ x \in ContainerModel(Get(v, "container"))
  <2>1. Get(v, "container") \in JSON
    BY <1>1, <1>2, Given DEF ContainerModel, AsMap, Get, GetOr, Null
  <2>2. /\ x.kind = "container"
        /\ SaysPayload(Get(v, "container"), RenderModel(x)[2].container)
    BY <1>2, <2>1, ContainerSaid
  <2>3. PICK c : RenderModel(x) = Map([tag |-> Str("Container"), container |-> c])
    BY <2>2 DEF RenderModel
  <2> DEFINE f == [tag |-> Str("Container"), container |-> c]
  <2>4. RenderModel(x)[2].container = f["container"]
    BY <2>3 DEF Map
  <2>5. /\ DOMAIN f = {"tag", "container"} /\ f["tag"] = Str("Container")
        /\ SaysPayload(Get(v, "container"), f["container"])
    BY <2>2, <2>4
  <2> HIDE DEF f
  <2>6. Says(v, Map(f))
    BY <1>1, <1>2, <2>5, TaggedSaid
  <2> QED BY <2>3, <2>6 DEF f
<1>3. CASE Get(v, "tag") = Str("HostBinary") /\ x \in HostBinaryModel(Get(v, "hostBinary"))
  <2>1. Get(v, "hostBinary") \in JSON
    BY <1>1, <1>3, Given DEF HostBinaryModel, AsMap, Get, GetOr, Null
  <2>2. /\ x.kind = "host-binary"
        /\ SaysPayload(Get(v, "hostBinary"), RenderModel(x)[2].hostBinary)
    BY <1>3, <2>1, HostBinarySaid
  <2>3. PICK c : RenderModel(x) = Map([tag |-> Str("HostBinary"), hostBinary |-> c])
    BY <2>2 DEF RenderModel
  <2> DEFINE f == [tag |-> Str("HostBinary"), hostBinary |-> c]
  <2>4. RenderModel(x)[2].hostBinary = f["hostBinary"]
    BY <2>3 DEF Map
  <2>5. /\ DOMAIN f = {"tag", "hostBinary"} /\ f["tag"] = Str("HostBinary")
        /\ SaysPayload(Get(v, "hostBinary"), f["hostBinary"])
    BY <2>2, <2>4
  <2> HIDE DEF f
  <2>6. Says(v, Map(f))
    BY <1>1, <1>3, <2>5, TaggedSaid
  <2> QED BY <2>3, <2>6 DEF f
<1>4. CASE Get(v, "tag") = Str("HostDaemon") /\ x \in HostDaemonModel(Get(v, "hostDaemon"))
  <2>1. Get(v, "hostDaemon") \in JSON
    BY <1>1, <1>4, Given DEF HostDaemonModel, AsMap, Get, GetOr, Null
  <2>2. /\ x.kind = "host-daemon"
        /\ SaysPayload(Get(v, "hostDaemon"), RenderModel(x)[2].hostDaemon)
    BY <1>4, <2>1, HostDaemonSaid
  <2>3. PICK c : RenderModel(x) = Map([tag |-> Str("HostDaemon"), hostDaemon |-> c])
    BY <2>2 DEF RenderModel
  <2> DEFINE f == [tag |-> Str("HostDaemon"), hostDaemon |-> c]
  <2>4. RenderModel(x)[2].hostDaemon = f["hostDaemon"]
    BY <2>3 DEF Map
  <2>5. /\ DOMAIN f = {"tag", "hostDaemon"} /\ f["tag"] = Str("HostDaemon")
        /\ SaysPayload(Get(v, "hostDaemon"), f["hostDaemon"])
    BY <2>2, <2>4
  <2> HIDE DEF f
  <2>6. Says(v, Map(f))
    BY <1>1, <1>4, <2>5, TaggedSaid
  <2> QED BY <2>3, <2>6 DEF f
<1>5. \/ Get(v, "tag") = Str("Container") /\ x \in ContainerModel(Get(v, "container"))
      \/ Get(v, "tag") = Str("HostBinary") /\ x \in HostBinaryModel(Get(v, "hostBinary"))
      \/ Get(v, "tag") = Str("HostDaemon") /\ x \in HostDaemonModel(Get(v, "hostDaemon"))
  <2>1. x \in CASE Get(v, "tag") = Str("Container") -> ContainerModel(Get(v, "container"))
                [] Get(v, "tag") = Str("HostBinary") -> HostBinaryModel(Get(v, "hostBinary"))
                [] Get(v, "tag") = Str("HostDaemon") -> HostDaemonModel(Get(v, "hostDaemon"))
                [] OTHER -> {}
    BY <1>1 DEF Model
  <2>2. \A a, b : Str(a) = Str(b) => a = b
    BY DEF Str
  <2> QED BY <2>1, <2>2
<1> QED BY <1>2, <1>3, <1>4, <1>5

\* The entry that is read next says what is read.
LEMMA EntrySaid ==
    ASSUME input \in Inputs, index \in Nat, More, NEW e \in Entry(index + 1),
           NEW entries \in Entries
    PROVE  /\ e.substrate = Get(entries[index + 1], "substrate")[2]
           /\ Says(Get(entries[index + 1], "model"), RenderModel(e.model))
<1> DEFINE d == entries[index + 1]
<1>1. /\ input.json[1] = "map" /\ entries = Get(input.json, "substrates")[2]
      /\ Get(input.json, "substrates")[1] = "list" /\ Entries = {entries}
  <2>1. AsMap(input.json) = {input.json} /\ input.json[1] = "map"
    BY DEF Entries, AsMap
  <2>2. entries \in AsList(Get(input.json, "substrates"))
    BY <2>1 DEF Entries
  <2>3. Get(input.json, "substrates")[1] = "list" /\ entries = Get(input.json, "substrates")[2]
    BY <2>2 DEF AsList
  <2>4. Entries = {entries}
    BY <2>1, <2>3 DEF Entries, AsList
  <2> QED BY <2>1, <2>3, <2>4
<1>2. index + 1 \in DOMAIN entries /\ d \in JSON
  <2>1. input.json \in JSON
    BY <1>1, JSONAssumption DEF Unrendered
  <2>2. Get(input.json, "substrates") \in JSON
    BY <1>1, <2>1, Given DEF Get, GetOr, Null
  <2>3. \E S : entries \in Seq(S)
    BY <1>1, <2>2, JSONAssumption
  <2>4. index < Len(entries)
    BY <1>1 DEF More
  <2>5. index + 1 \in DOMAIN entries
    BY <2>3, <2>4
  <2> QED BY <1>1, <2>2, <2>5, HeldInJSON
<1>3. /\ d[1] = "map" /\ e.substrate \in AsStr(Get(d, "substrate"))
      /\ e.model \in Model(Get(d, "model"))
  <2>1. e \in UNION {[substrate : AsStr(Get(m, "substrate")) \cap SubstrateName,
                      model : Model(Get(m, "model"))] : m \in AsMap(d)}
    BY <1>1 DEF Entry
  <2>2. d[1] = "map" /\ AsMap(d) = {d}
    BY <2>1 DEF AsMap
  <2>3. e \in [substrate : AsStr(Get(d, "substrate")) \cap SubstrateName,
               model : Model(Get(d, "model"))]
    BY <2>1, <2>2
  <2> QED BY <2>2, <2>3
<1>4. Get(d, "model") \in JSON
  BY <1>2, <1>3, Given DEF Get, GetOr, Null, Model, AsMap
<1>5. e.substrate = Get(d, "substrate")[2]
  BY <1>3 DEF AsStr
<1> QED BY <1>3, <1>4, <1>5, ModelSaid

\* What has been read is declared, and stays as it was read.
SaidInv ==
    /\ input \in Inputs
    /\ index \in Nat
    /\ \A entries \in Entries : \A i \in 1..index :
          Get(entries[i], "substrate")[2] \in DOMAIN substrates
    /\ NothingMisread

LEMMA SaidInit == Init => SaidInv
  BY DEF Init, SaidInv, NothingMisread

LEMMA SaidStep == SaidInv /\ [Next]_vars => SaidInv'
<1> SUFFICES ASSUME SaidInv, [Next]_vars PROVE SaidInv'
  OBVIOUS
<1>1. CASE ReadEntry
  <2>1. PICK e \in Entry(index + 1) :
          Undeclared(e) /\ substrates' = Put(substrates, e.substrate, e.model)
    BY <1>1 DEF ReadEntry
  <2>2. More /\ index' = index + 1 /\ input' = input /\ Entries' = Entries
    BY <1>1 DEF ReadEntry, Entries
  <2>3. /\ e.substrate \in DOMAIN substrates' /\ substrates'[e.substrate] = e.model
        /\ \A n \in DOMAIN substrates : n \in DOMAIN substrates' /\ substrates'[n] = substrates[n]
    BY <2>1 DEF Put, Undeclared
  <2>4. ASSUME NEW entries \in Entries, NEW i \in 1..index'
        PROVE  LET n == Get(entries[i], "substrate")[2]
               IN n \in DOMAIN substrates'
                  /\ Says(Get(entries[i], "model"), RenderModel(substrates'[n]))
    <3>1. CASE i = index + 1
      <4>1. /\ e.substrate = Get(entries[i], "substrate")[2]
            /\ Says(Get(entries[i], "model"), RenderModel(e.model))
        BY <2>2, <3>1, EntrySaid DEF SaidInv
      <4> QED BY <2>3, <4>1
    <3>2. CASE i # index + 1
      <4>1. i \in 1..index
        BY <2>2, <3>2 DEF SaidInv
      <4>2. /\ Get(entries[i], "substrate")[2] \in DOMAIN substrates
            /\ Says(Get(entries[i], "model"),
                    RenderModel(substrates[Get(entries[i], "substrate")[2]]))
        BY <4>1 DEF SaidInv, NothingMisread
      <4> QED BY <2>3, <4>2
    <3> QED BY <3>1, <3>2
  <2>5. input' \in Inputs /\ index' \in Nat
    BY <2>2 DEF SaidInv
  <2> QED BY <2>2, <2>4, <2>5 DEF SaidInv, NothingMisread
<1>2. CASE NotRendered \/ ReadRoot \/ RejectEntry \/ Loaded \/ ModelFor \/ UNCHANGED vars
  <2>1. UNCHANGED <<input, index, substrates>>
    BY <1>2 DEF NotRendered, ReadRoot, RejectEntry, Loaded, ModelFor, vars
  <2>2. Entries' = Entries
    BY <2>1 DEF Entries
  <2> QED BY <2>1, <2>2 DEF SaidInv, NothingMisread
<1> QED BY <1>1, <1>2 DEF Next

\* Whatever the document, hand-written ones of no type included: no model is
\* read from it with a field that it does not say, and no field that it gives
\* is dropped (the narrowers of spec.py).
THEOREM MisreadsNothing == Spec => []NothingMisread
<1>1. SaidInv => NothingMisread
  BY DEF SaidInv
<1> QED BY <1>1, SaidInit, SaidStep, PTL DEF Spec
=============================================================================
