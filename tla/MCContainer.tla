----------------------------- MODULE MCContainer -----------------------------
(* Instances of Container for TLC: the repository and the service the         *)
(* generator writes, two bean definitions, and a request bean.                *)
EXTENDS Container

CONSTANTS repo, service, beanA, beanB, form, boot, g1, g2, tRepo, tService, tA, tB, tForm

MCBeans == {repo, service, beanA, beanB, form}
MCTypes == {tRepo, tService, tA, tB, tForm}
MCThreads == {g1, g2}
MCScope == [x \in MCBeans |-> IF x = form THEN "request" ELSE "singleton"]
Prototype == [MCScope EXCEPT ![beanB] = "prototype"]
MCTypeOf == [x \in MCBeans |-> CASE x = repo -> tRepo [] x = service -> tService
                               [] x = beanA -> tA [] x = beanB -> tB [] x = form -> tForm]
MCNamed == [y \in MCTypes |-> Nil]

Name(x) == [by |-> "name", on |-> x]
Type(y) == [by |-> "type", on |-> y]
Deps(ofA, ofB, ofForm) ==
  [x \in MCBeans |-> CASE x = beanA -> ofA [] x = beanB -> ofB [] x = form -> ofForm
                       [] x = service -> <<Name(repo)>> [] OTHER -> <<>>]
MCGraphs == {
  [acyclic |-> TRUE, scope |-> MCScope,
   deps |-> Deps(<<Name(beanB), Type(tService)>>, <<Type(tRepo)>>, <<Type(tB)>>)],
  [acyclic |-> TRUE, scope |-> Prototype, deps |-> Deps(<<Type(tB)>>, <<>>, <<Name(beanA), Name(beanB)>>)],
  [acyclic |-> FALSE, scope |-> MCScope, deps |-> Deps(<<Type(tB)>>, <<Name(beanA)>>, <<Type(tA)>>)],
  [acyclic |-> TRUE, scope |-> [x \in MCBeans |-> IF x \in {repo, service} THEN "singleton" ELSE "prototype"],
   deps |-> [Deps(<<>>, <<>>, <<>>) EXCEPT ![repo] = <<Name(service)>>, ![service] = <<>>]],
  [acyclic |-> FALSE, scope |-> MCScope, deps |-> [Deps(<<>>, <<>>, <<>>) EXCEPT ![repo] = <<Name(service)>>]],
  [acyclic |-> FALSE, scope |-> MCScope,
   deps |-> [Deps(<<Name(service)>>, <<>>, <<>>) EXCEPT ![service] = <<Name(beanA)>>]]}
=============================================================================
