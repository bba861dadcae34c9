----------------------------- MODULE NodeFilters ------------------------------
(***************************************************************************)
(* Node filters, the `@server:0;agent:*` part of an option, and which      *)
(* nodes they select.  A node is its role and its index, from which the    *)
(* program builds its name; a list of nodes is a sequence, in the order    *)
(* the caller has them.  A call that can fail is the set of its outcomes,  *)
(* empty when it returns an error.                                         *)
(***************************************************************************)
EXTENDS Integers, SequencesExt

Open == -1        \* the missing end of a range
NoSuffix == "nosuffix"

\* The text of a filter, as its regular expression takes it apart; bracketed is
\* the syntax of v1alpha2, server[0], which the expression does not match.
Filter(group, subset, suffix) ==
  [group |-> group, subset |-> subset, suffix |-> suffix, bracketed |-> FALSE]
None == [kind |-> "none"]
Blank == Filter("", None, NoSuffix)   \* what follows an @ at the end of a flag
Every == [kind |-> "wildcard"]
These(s) == [kind |-> "list", of |-> s]
Between(i, j) == [kind |-> "range", from |-> i, to |-> j]

Lb == [role |-> "loadbalancer", idx |-> 0]
Server(i) == [role |-> "server", idx |-> i]
Agent(i) == [role |-> "agent", idx |-> i]

Groups == {"server", "agent", "loadbalancer", "all"}
Parses(f) ==
  /\ f.group \in Groups /\ ~(f.bracketed /\ f.subset # None)
  /\ f.subset.kind = "list" => f.subset.of # <<>>

Group(nodes, role) == FlattenSeq([i \in DOMAIN nodes |-> IF nodes[i].role = role THEN <<nodes[i]>> ELSE <<>>])
Distinct(s) == FlattenSeq([i \in DOMAIN s |-> IF \E j \in 1..(i - 1) : s[j] = s[i] THEN <<>> ELSE <<s[i]>>])

\* Which indices a subset names in a group of so many nodes, and when it may.
RangeStart(s) == IF s.from = Open THEN 0 ELSE s.from
RangeEnd(s, len) == IF s.to = Open THEN len - 1 ELSE s.to
SubsetFits(s, len) ==
  \/ s.kind = "list" /\ \A i \in Range(s.of) : i < len
  \/ /\ s.kind = "range"
     /\ s.from # Open => s.from < len
     /\ s.to # Open => RangeStart(s) <= s.to /\ s.to < len
  \/ s.kind = "wildcard"
Indices(s, len) ==
  CASE s.kind = "list" -> s.of
    [] s.kind = "range" -> [i \in 1..(RangeEnd(s, len) - RangeStart(s) + 1) |-> RangeStart(s) + i - 1]
    [] s.kind = "wildcard" -> [i \in 1..len |-> i - 1]

\* Mutated form of Picked: the indices are those of the whole list.
PickedFromAll(nodes, f) ==
  LET indices == Indices(f.subset, Len(Group(nodes, f.group)))
  IN  [i \in DOMAIN indices |-> nodes[indices[i] + 1]]

Picked(nodes, f) ==
  LET group == Group(nodes, f.group)
      indices == Indices(f.subset, Len(group))
  IN  [i \in DOMAIN indices |-> group[indices[i] + 1]]

Unfiltered(filters) == filters = <<>> \/ filters[1] = Blank

\* The filters are gone through in order; the first of these ends the loop.
IsError(nodes, f) ==
  \/ ~Parses(f) \/ f.suffix # NoSuffix
  \/ f.group = "loadbalancer" /\ Group(nodes, "loadbalancer") = <<>>
  \/ f.group \in {"server", "agent"} /\ ~SubsetFits(f.subset, Len(Group(nodes, f.group)))
Ends(nodes, f) == IsError(nodes, f) \/ f.group \in {"all", "loadbalancer"}

EndOf(nodes, filters) ==
  LET enders == {i \in DOMAIN filters : Ends(nodes, filters[i])}
  IN  IF enders = {} THEN Len(filters) + 1 ELSE CHOOSE i \in enders : \A j \in enders : i <= j
PickedBefore(nodes, filters, end) == Distinct(FlattenSeq([i \in 1..(end - 1) |-> Picked(nodes, filters[i])]))

FilterNodes(nodes, filters) ==
  LET end == EndOf(nodes, filters)
      before == PickedBefore(nodes, filters, end)
  IN  CASE Unfiltered(filters) -> {nodes}
        [] ~Unfiltered(filters) /\ end = Len(filters) + 1 -> {before}
        [] ~Unfiltered(filters) /\ end # Len(filters) + 1 ->
             CASE IsError(nodes, filters[end]) -> {}
               [] ~IsError(nodes, filters[end]) /\ filters[end].group = "all" -> {nodes}
               [] ~IsError(nodes, filters[end]) /\ filters[end].group = "loadbalancer" ->
                    {before \o Group(nodes, "loadbalancer")}

\* Nodes by suffix.  "all" is a key of the result besides the allowed suffixes, so that
\* it passes for a suffix.
FilterNodesWithSuffix(nodes, filters, allowed) ==
  LET suffixes == allowed \cup {NoSuffix, "all"}
      plain(f) == [f EXCEPT !.suffix = NoSuffix]
      of(i) == FilterNodes(nodes, <<plain(filters[i])>>)
      ok == /\ ~Unfiltered(filters)
            /\ \A i \in DOMAIN filters : filters[i].suffix \in suffixes /\ of(i) # {}
      list(i, s) == IF filters[i].suffix = s THEN CHOOSE l \in of(i) : TRUE ELSE <<>>
  IN  IF ok THEN {[s \in suffixes |-> (IF s = "all" THEN nodes ELSE <<>>)
                                      \o FlattenSeq([i \in DOMAIN filters |-> list(i, s)])]}
      ELSE {}
===============================================================================
