------------------------------ MODULE MCIntake ------------------------------
(* Instances of Intake for TLC: two identities; a path "item" that refers  *)
(* to an object, a flat path "list" that does by its query only, an asset, *)
(* and a DELETE of the item, which openapi.parse leaves out.               *)
EXTENDS Intake, FiniteSets

CONSTANTS alice, bob, carol, item, list, asset, delete, q1

TwoIdentities == <<alice, bob>>
Requests == [owner : {alice, bob, carol}, target : {item, list, asset, delete}, query : {NoQuery, q1}]
Configs == {<<>>} \cup {<<[owner |-> o, target |-> item, query |-> NoQuery]>> : o \in {bob, carol}}

Ask(target, query) == [kind |-> "request", target |-> target, query |-> query]
Bare(target) == Ask(target, NoQuery)
Other(kind) == [kind |-> kind]
Folder(items) == [kind |-> "folder", items |-> items]
Inner == Folder(<<Bare(item)>>)
Outer == Folder(<<Inner, Bare(list)>>)

References == {Bare(list), Ask(list, q1), Bare(item)}
AllItems == References \cup
  {Bare(asset), Bare(delete), Bare(NoUrl), Other("nothing"), Other("broken"), Inner, Outer}

(* Lists of at most n items.                                               *)
UpTo(n, items) == UNION {[1..k -> items] : k \in 0..n}

Captured(owners, bodies) ==
  UNION {[owner : owners, format : {f}, items : bodies[f]] : f \in DOMAIN bodies}

Files == Captured({alice, bob},
  [har |-> UpTo(2, References) \cup
     {<<Bare(asset), Bare(item)>>, <<Bare(NoUrl)>>, <<Bare(item), Other("broken")>>},
   openapi |-> {<<Bare(delete), Bare(list)>>, <<Bare(item), Bare(item)>>},
   postman |-> {<<Outer, Ask(list, q1)>>, <<Other("nothing"), Bare(asset)>>, <<Bare(NoUrl)>>},
   unknown |-> {<<>>}])
  \cup Captured({carol}, [har |-> {<<Bare(item)>>}])

ManyRuns ==
  [config : Configs, inputs : UpTo(2, Files)]

=============================================================================
