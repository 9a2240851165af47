--------------------------- MODULE MCKindVersions ---------------------------
(* KindVersions for TLC.  For the cap: four shards, two reapers with two   *)
(* shards each, and three pods whose ranges lie inside the reapers', two   *)
(* of them overlapping, as during a reshard.  For the versions: two of     *)
(* them, with editions over the keywords that the linter knows, and some   *)
(* that it does not.                                                       *)
EXTENDS KindVersions, SchemaLint, TLC

CONSTANTS t1, t2, t3, p1, p2, p3, r1, r2, c1, c2, a1, a2, b1

Spread == [t \in Tasks |-> IF t = t1 THEN 0 ELSE IF t = t2 THEN 1 ELSE 2]
Nested == [p \in Pods |-> IF p = p1 THEN <<0, 1>>
                          ELSE IF p = p2 THEN <<1, 1>> ELSE <<2, 3>>]
Tiles  == [r \in Reapers |-> IF r = r1 THEN <<0, 1>> ELSE <<2, 3>>]

OneEach == [c \in Callers |-> IF c = c1 THEN a1 ELSE a2]

Integer(k) == [type |-> "integer"] @@ k
Object(req, props) == [type |-> "object", required |-> req, properties |-> props, additionalProperties |-> FALSE]
Edition(s) == [spec |-> s, config |-> NoSchema, status |-> NoSchema]

Items(x) == [type |-> "array", items |-> x]
Optional(x) == Edition(Object({}, [a |-> x]))
Needed(x) == Edition(Object({"a"}, [a |-> x]))
Loose(x) == Edition([type |-> "object", properties |-> [a |-> x]])

Number   == Integer(<<>>)
Positive == Integer([minimum |-> 1])
Bit      == Integer([minimum |-> 0, maximum |-> 1])
Even     == Integer([enum |-> {0, 2}])

SomeEditions ==
    <<(* 1 widens to 2 and to 3; 4 and 5, with another field, break them all *)
      Needed(Positive), Edition(Object({"a"}, [a |-> Positive, b |-> Number])), Optional(Integer([minimum |-> 0])),
      Edition(Object({"b"}, [b |-> Integer([maximum |-> 1])])), Edition(Object({"b"}, [b |-> Integer([maximum |-> 2])])),
      (* what the linter knows *)
      Optional(Number), Optional(Positive), Optional(Bit), Optional(Even), Optional(Integer([enum |-> {2}])),
      Needed(Number), Needed(Bit), Needed(Even), Edition(Object({}, [a |-> Number, b |-> Number])), Edition(NoSchema),
      [Edition(NoSchema) EXCEPT !.config = Number, !.status = Object({"a"}, [a |-> Number])],
      [Edition(NoSchema) EXCEPT !.status = Object({"a"}, [a |-> Positive])],
      (* and what it does not *)
      Loose(Number), Loose(Positive), Optional([minimum |-> 1]), Optional(Items(Number)), Optional(Items(Positive))>>

IntDoc(k) == [type |-> "integer", n |-> k, fields |-> <<>>]
Doc(fields) == [type |-> "object", n |-> 0, fields |-> fields]
Array(k) == [type |-> "array", n |-> 0, fields |-> <<IntDoc(k)>>]
SomeDocuments == <<Doc([a |-> IntDoc(1)]), Doc([b |-> IntDoc(1)]), Doc([a |-> IntDoc(0)]), Doc([a |-> IntDoc(2)]),
                   Doc([a |-> IntDoc(1), b |-> IntDoc(1)]), Doc([a |-> Array(0)]), Doc(<<>>)>>

Open == [cap |-> 0, retired |-> FALSE]
Ask(op, v) == [op |-> op, v |-> v, spec |-> 0, edition |-> 0, row |-> Open]
Apply(v, d) == [Ask("apply", v) EXCEPT !.spec = d]
Put(v, e) == [Ask("publish", v) EXCEPT !.edition = e]
Set(v, n, ret) == [Ask("config", v) EXCEPT !.row = [cap |-> n, retired |-> ret]]

Base == [manifest |-> <<1, 4>>, boot |-> <<1, 4>>, row |-> Open, calls |-> 0, faults |-> 0, menu |-> {},
         callers |-> Callers, running |-> {}, tasks |-> {}]

SomeDeployments ==
    <<(* the cap, with faults, and with edits of it *)
     [Base EXCEPT !.row.cap = 2, !.tasks = {t1, t2, t3}, !.faults = 1],
     [Base EXCEPT !.row.cap = 1, !.tasks = {t1, t2}, !.calls = 1,
                  !.menu = {Set(1, 2, FALSE), Set(1, 0, FALSE)}],
     [Base EXCEPT !.manifest = <<0, 4>>, !.tasks = {t1, t2, t3}, !.calls = 1,
                  !.menu = {Set(1, 1, FALSE), [Put(1, 1) EXCEPT !.row.cap = 1]}],
     (* one resource, its versions, and what is written to it *)
     [Base EXCEPT !.boot = <<1, 0>>, !.calls = 3, !.faults = 1,
                  !.menu = {Apply(v, d) : v \in {1, 2}, d \in {1, 2}}
                              \cup {Ask("rollback", 0), Ask("remove", 0), Set(2, 0, TRUE)}],
     [Base EXCEPT !.calls = 4, !.menu = {Apply(1, 1), Apply(2, 2), Ask("rollback", 0), Ask("remove", 0)}],
     (* a version whose editions widen under the specs *)
     [Base EXCEPT !.boot = <<1, 0>>, !.calls = 4,
                  !.menu = {Apply(1, 1), Apply(1, 3), Put(1, 2), Put(1, 3), Ask("rollback", 0)}],
     (* any edition after any other, under any document *)
     [Base EXCEPT !.manifest = <<0, 0>>, !.boot = <<0, 0>>, !.calls = 3, !.callers = {c1},
                  !.menu = {Apply(1, d) : d \in {1, 3, 4, 5, 6, 7}} \cup {Put(1, e) : e \in 1..22}],
     (* publishing and deleting *)
     [Base EXCEPT !.manifest = <<1, 0>>, !.boot = <<1, 0>>, !.calls = 3,
                  !.menu = {Put(2, e) : e \in {1, 2, 3}} \cup {Ask("delete", 2), Apply(2, 1)}],
     [Base EXCEPT !.calls = 3,
                  !.menu = {Put(2, 5), Ask("delete", 2), Ask("bind", 2), Ask("unbind", 2), Set(2, 0, FALSE)}],
     (* the copies of the manifests *)
     [Base EXCEPT !.calls = 1, !.faults = 1, !.running = {a1}, !.menu = {Put(1, 2)}],
     [Base EXCEPT !.calls = 2, !.running = {a1}, !.menu = {Put(1, 2), Ask("delete", 1)}],
     [Base EXCEPT !.calls = 2, !.faults = 1, !.running = {b1}, !.menu = {Put(1, 2), Ask("delete", 1)}]>>

(* TLC evaluates a plain constant definition once, and one that a cfg      *)
(* substitutes at each use: the cfg substitutes these.                     *)
MCShardOf == Spread
MCPodRange == Nested
MCReaperRange == Tiles
MCHome == OneEach
MCEditions == SomeEditions
MCDocuments == SomeDocuments
MCDeployments == SomeDeployments
=============================================================================
