----------------------------- MODULE MCSpecLoad -----------------------------
(* SpecLoad for TLC: what a project may have written, and what it may have *)
(* written by hand: a rendered document with one place of it changed.      *)
EXTENDS SpecLoad

MountLists == {<<>>} \cup {<<m>> : m \in {x \in MountType : x.read_only}}

Models ==
    [kind : {"container"}, dockerfile : Text, flavor : {"cpu", "cuda"}, service : BOOLEAN,
     mounts : MountLists]
    \cup {m \in HostBinaryType \cup HostDaemonType :
            m.build.host = [ghc |-> TRUE, tart |-> FALSE, metal |-> TRUE]}

EntrySet == [substrate : SubstrateName, model : Models]

Configs == {<<>>} \cup {<<e>> : e \in EntrySet} \cup (EntrySet \X EntrySet)

Junk == {Null, <<"num", 0>>, Str("junk"), Str("CUDA"), Bool(FALSE), List(<<>>), Map(<<>>)}

RECURSIVE Mangled(_)
Mangled(v) == Junk \cup
    CASE v[1] = "map" ->
            UNION {{Map(Put(v[2], k, w)) : w \in Mangled(v[2][k])} : k \in DOMAIN v[2]}
            \cup {Map([k \in DOMAIN v[2] \ {gone} |-> v[2][k]]) : gone \in DOMAIN v[2]}
            \cup {Map(Put(v[2], "container", w)) : w \in Junk}
      [] v[1] = "list" ->
            UNION {{List(Put(v[2], i, w)) : w \in Mangled(v[2][i])} : i \in DOMAIN v[2]}
      [] OTHER -> {}

\* Entries to change: models that leave nothing out, two at a time.
Full(m) ==
    CASE m.kind = "container" -> m.mounts # <<>> /\ m.service /\ m.flavor = "cuda"
      [] m.kind = "host-binary" -> m.container # None /\ m.handoff.delete # None
      [] OTHER -> m.container # None

Samples == {<<[substrate |-> "linux-cpu", model |-> m], [substrate |-> "linux-gpu", model |-> n]>> :
            m \in {x \in Models : Full(x) /\ x.kind # "host-daemon"},
            n \in {x \in Models : Full(x) /\ x.kind = "host-daemon"}}

MCInputs ==
    {[config |-> <<>>, json |-> Unrendered]}
    \cup {[config |-> c, json |-> Render(c)] : c \in Configs}
    \cup {[config |-> None, json |-> w] : w \in UNION {Mangled(Render(c)) : c \in Samples}}

RECURSIVE Parts(_)
Parts(S) == IF S = {} THEN {} ELSE S \cup Parts({v \in UNION {Held(w) : w \in S} : TRUE})

MCJSON == Parts({in.json : in \in MCInputs})
=============================================================================
