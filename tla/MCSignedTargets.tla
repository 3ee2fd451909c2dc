--------------------------- MODULE MCSignedTargets ---------------------------
(* Documents for TLC: sound ones, and each with one field gone wrong.      *)
EXTENDS SignedTargets

SomeStrings == {"", " ", "a", "b"}
BlankStrings == {"", " "}
SomeHosts == {"a", "b", " "}
AllPaths == {"p", "q", "r", "bad"}
GoodPaths == {"p", "q", "r"}
SomeSystems == {"x86_64-linux", "aarch64-linux"}
SomeVersions == {<<2, 8>>, <<2, 8, 1>>, <<3, 0>>}

Medium == [artifact |-> "q", sound |-> TRUE, image |-> "b"]
Rescue == [Medium EXCEPT !.artifact = "r", !.image = None]
Managed == [mode |-> "managed", primary |-> Medium, nixrescue |-> Rescue]

System ==
    [backend |-> "nixos", identity |-> None, target |-> "p", sound |-> TRUE,
     system |-> "x86_64-linux", minimum |-> <<2, 8>>, boot |-> Managed]
Home ==
    [System EXCEPT !.backend = "home-manager", !.identity = "a", !.boot = [mode |-> "absent"]]

(* One host with one plane, by its name and under its entry.               *)
One(host, plane, e) ==
    [revision |-> "a", dated |-> TRUE, hosts |-> {host},
     planes |-> [l \in Leaves |-> IF l = <<host, plane>> THEN e ELSE None]]

With(d, leaf, e) ==
    [d EXCEPT !.hosts = @ \union {leaf[1]},
              !.planes = [l \in Leaves |-> IF l = leaf THEN e ELSE d.planes[l]]]

Whole == With(One("a", "nixos", System), <<"a", "home-manager">>, Home)
Fleet == With(Whole, <<"b", "nixos">>,
              [System EXCEPT !.boot = [mode |-> "none"], !.minimum = <<2, 8, 1>>])

WrongSystems ==
    {[System EXCEPT !.boot = [mode |-> "absent"]], [System EXCEPT !.target = "bad"],
     [System EXCEPT !.identity = "a"], [System EXCEPT !.system = "aarch64-linux"],
     [System EXCEPT !.sound = FALSE],
     [System EXCEPT !.boot.primary.image = None],
     [System EXCEPT !.boot.primary.image = ""],
     [System EXCEPT !.boot.nixrescue = None],
     [System EXCEPT !.boot.nixrescue.artifact = "bad"]}

WrongHomes == {[Home EXCEPT !.identity = s] : s \in {None, "", " "}}

SomeDocuments ==
    {Whole, Fleet, [Fleet EXCEPT !.hosts = @ \union {" "}]}
    \union {[Whole EXCEPT !.revision = s] : s \in BlankStrings}
    \union {One("a", "nixos", e) : e \in WrongSystems}
    \union {One("a", "home-manager", e) : e \in WrongHomes}
    \union {One("a", "another", System), One(" ", "nixos", System),
            [Whole EXCEPT !.dated = FALSE], One("a", "system-manager", System)}

Receiver(host, backend, identity, reconcile, reimage) ==
    [host |-> host, system |-> "x86_64-linux", plane |-> backend, backend |-> backend,
     identity |-> identity, reconcile |-> reconcile, reimage |-> reimage]

SomeConfigs ==
    {Receiver("a", "nixos", None, "nixrescue", "primary"),
     Receiver("b", "nixos", None, "primary", "primary"),
     Receiver("a", "home-manager", "a", None, None),
     [Receiver("a", "nixos", None, None, None) EXCEPT !.backend = "system-manager"]}
=============================================================================
