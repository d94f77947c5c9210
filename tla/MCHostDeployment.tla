--------------------------- MODULE MCHostDeployment ---------------------------
(***************************************************************************)
(* Two places for eight checks, of which in every world some are well and  *)
(* some are not, or one hangs; two applies of one profile for two nodes.   *)
(***************************************************************************)
EXTENDS HostDeployment, TLC

CONSTANTS svc, a1, a2, s1, s2, n1, n2

Symmetry == Permutations(Node)

Replicas(n, ready) == << [replicas |-> n, ready |-> ready] >>

Good == [c \in Check |->
    CASE c = "network"   -> <<"en0">>
      [] c = "dns"       -> <<1>>
      [] c = "docker"    -> <<TRUE>>
      [] c = "kind"      -> << <<TRUE, TRUE>> >>
      [] c = "registry"  -> <<200>>
      [] c = "disk"      -> <<2>>
      [] c = "resources" -> << << <<84, 40>>, <<10, 84>> >> >>
      [] OTHER           -> Replicas(<<>>, 1)]

MCWorld ==
    {Good,
     [Good EXCEPT !["network"] = <<"utun">>, !["disk"] = Hangs, ![svc] = Replicas(<<2>>, 1)],
     [Good EXCEPT !["resources"] = << << <<10, 95>>, <<>> >> >>, !["kind"] = << <<TRUE, FALSE>> >>,
                  !["dns"] = <<0>>, !["docker"] = <<FALSE>>, ![svc] = Replicas(<<0>>, 0)],
     [Good EXCEPT !["network"] = <<"none">>, !["kind"] = << <<>> >>, !["registry"] = <<302>>,
                  !["disk"] = <<1>>, !["resources"] = << << <<85, 94>> >> >>]}

MCAsked == {<<"network", svc>>, <<"disk", "ghost">>}
=============================================================================
