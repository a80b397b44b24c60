---------------------------- MODULE MCAppStatus -----------------------------
(* A small instance of module AppStatus for TLC. *)
EXTENDS AppStatus

CONSTANTS a1, a2, f1, f2, d1, d2, t1, t2

\* Two apps whose versions are in one file, so that either may be picked.
SameFile == [a \in Apps |-> f1]

Dep(f, d, s, u) == [file |-> f, dep |-> d, datasource |-> s, updates |-> u]

OneTarget == {[chart |-> t1, images |-> <<>>]}

\* Two charts and two images in one file; what no app or no case takes; none.
SomeReports ==
  {[flux       |-> <<Dep(f1, d1, "helm", <<t1>>), Dep(f1, d2, "helm", <<t2, t1>>)>>,
    helmValues |-> <<Dep(f1, d1, "docker", <<t1, t2>>), Dep(f2, d2, "docker", <<t2>>)>>,
    regex      |-> <<Dep(f1, d2, "docker", <<t2>>), Dep(f1, d1, "docker", <<>>)>>],
   [flux       |-> <<Dep(f1, d1, "helm", <<>>)>>,
    helmValues |-> <<>>,
    regex      |-> <<Dep(f1, d2, "other", <<t1>>)>>],
   NoUpdates}
=============================================================================
