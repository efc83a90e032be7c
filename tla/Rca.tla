-------------------------------- MODULE Rca --------------------------------
(***************************************************************************)
(* Relational concept analysis: the loop of RCACommand.java over the steps *)
(* of ExploRCA.java, which share a family of contexts (RCAFamily.java).    *)
(* A step adds to each context an attribute for every relation that leaves *)
(* it and every concept that the step before has found in the context the  *)
(* relation leads to, and then builds all the orders again.  A concept is  *)
(* known by its extent across the steps; its number names its attributes.  *)
(*                                                                         *)
(* The builders are taken at their word: the concepts of the lattice or of *)
(* the AOC-poset, numbered from 0, in any order.  Attributes are numbered  *)
(* from 1 here.                                                            *)
(***************************************************************************)
EXTENDS AocPoset, ConceptLattice

CONSTANT Families   (* what is analysed, with the options of the command    *)

\* The command refuses -clean without a limit.
ASSUME FamiliesAssumption ==
  \A f \in Families :
    /\ Len(f.ctxs) \in Nat \ {0} /\ DOMAIN f.ctxs = 1 .. Len(f.ctxs)
    /\ \A c \in DOMAIN f.ctxs :
         /\ IsFiniteSet(f.ctxs[c].objs)
         /\ Len(f.ctxs[c].cols) \in Nat /\ DOMAIN f.ctxs[c].cols = 1 .. Len(f.ctxs[c].cols)
         /\ \A k \in DOMAIN f.ctxs[c].cols : f.ctxs[c].cols[k] \subseteq f.ctxs[c].objs
    /\ Len(f.rels) \in Nat /\ DOMAIN f.rels = 1 .. Len(f.rels)
    /\ \A r \in DOMAIN f.rels :
         /\ f.rels[r].source \in DOMAIN f.ctxs /\ f.rels[r].target \in DOMAIN f.ctxs
         /\ DOMAIN f.rels[r].links = f.ctxs[f.rels[r].source].objs
    /\ f.maxStep \in Nat
    /\ f.clean \in BOOLEAN /\ (f.clean => f.maxStep > 0)

VARIABLES
  family,       (* one of Families: contexts ctxs, relations rels, builder
                   algo, and the options clean and maxStep (0: no limit)    *)
  attrs,        (* the attributes of each context: column ext, name of      *)
  relationalAttributes,     (* of each context: by number, the name         *)
  relAttrsIndex,            (* the names given so far                       *)
  conceptExtentsList,       (* of each context: extents to numbers          *)
  conceptExtentsNumStep,    (* of each context: extents to steps            *)
  maxRegisteredConcept, newConcept,
  order,        (* of each context, the concepts of its current order       *)
  conceptOrderFamilies,     (* the orders of the steps before               *)
  step,         (* "extend", "build", "decide" or "end"                     *)
  at            (* the context whose order is built next                    *)

registers == <<conceptExtentsList, conceptExtentsNumStep, maxRegisteredConcept, newConcept>>
names == <<attrs, relationalAttributes, relAttrsIndex>>
vars == <<family, names, registers, order, conceptOrderFamilies, step, at>>

Ctxs == DOMAIN family.ctxs
Rels == DOMAIN family.rels

\* Steps that are complete.
numstep == Len(conceptOrderFamilies)

\* The name of an attribute of the context as it was given, and of the one for
\* relation r and concept id.
Native == [rel |-> 0, concept |-> 0]
Name(r, id) == [rel |-> r, concept |-> id]

-----------------------------------------------------------------------------
(* Scaling, and what a builder finds.                                      *)

\* Does an object with these links have the attribute of a concept whose
\* extent is X?
Scale(operator, links, X) ==
  CASE operator = "exist"         -> links \cap X # {}
    [] operator = "existForall"   -> X # {} /\ links # {} /\ links \subseteq X
    [] operator = "existContains" -> X # {} /\ links # {} /\ X \subseteq links
    [] operator = "equality"      -> X # {} /\ links = X

Column(r, X) ==
  LET rc == family.rels[r]
  IN  {o \in DOMAIN rc.links : Scale(rc.operator, rc.links[o], X)}

\* The extents of the concepts of objects objs with these columns.
Extents(objs, cols) ==
  LET ctx == [objs |-> objs, cols |-> [X \in cols |-> X]]
  IN  IF family.algo = "lattice" THEN ExtentsUpTo(ctx, cols) ELSE IntroducerExtents(ctx)

-----------------------------------------------------------------------------
Init ==
  /\ family \in Families
  /\ attrs = [c \in Ctxs |-> [k \in DOMAIN family.ctxs[c].cols |->
                                [ext |-> family.ctxs[c].cols[k], of |-> Native]]]
  /\ relationalAttributes = [c \in Ctxs |-> << >>]
  /\ relAttrsIndex = {}
  /\ conceptExtentsList = [c \in Ctxs |-> << >>]
  /\ conceptExtentsNumStep = [c \in Ctxs |-> << >>]
  /\ maxRegisteredConcept = -1
  /\ newConcept = FALSE
  /\ order = [c \in Ctxs |-> {}]
  /\ conceptOrderFamilies = << >>
  /\ step = "extend" /\ at = 1

\* The concepts created by the last step that relation r has no attribute for.
Recent(r) ==
  LET target == family.rels[r].target
  IN  {c \in order[target] : /\ conceptExtentsNumStep[target][c.ext] = numstep - 1
                             /\ Name(r, c.id) \notin relAttrsIndex}

\* The attributes relation r adds, in the order the concepts were found in.
Added(r) ==
  LET ids == Increasing({c.id : c \in Recent(r)})
      ext(id) == (CHOOSE c \in Recent(r) : c.id = id).ext
  IN  [k \in DOMAIN ids |-> [ext |-> Column(r, ext(ids[k])), of |-> Name(r, ids[k])]]

AddedTo(c) ==
  FlattenSeq([r \in Rels |-> IF family.rels[r].source = c THEN Added(r) ELSE << >>])

\* The attribute's concept has disappeared from the order it belongs to.
Unused(name) ==
  /\ name # Native
  /\ \A c \in order[family.rels[name.rel].target] : c.id # name.concept

\* extendContexts.  The attributes removed are taken out of the context, where
\* those after them are renumbered, and out of relationalAttributes, where
\* they are not.
Extend ==
  LET longer  == [c \in Ctxs |-> attrs[c] \o AddedTo(c)]
      kept(c) == {k \in DOMAIN longer[c] : family.clean => ~ Unused(longer[c][k].of)}
      added(c) == Len(attrs[c]) + 1 .. Len(longer[c])
      index(c) == [k \in added(c) \cup DOMAIN relationalAttributes[c] |->
                     IF k \in added(c) THEN longer[c][k].of ELSE relationalAttributes[c][k]]
      gone(c) == DOMAIN longer[c] \ kept(c)
  IN  /\ step = "extend" /\ step' = "build" /\ at' = 1
      /\ newConcept' = FALSE
      /\ IF numstep = 0 THEN UNCHANGED names
         ELSE /\ attrs' = [c \in Ctxs |-> Pick(longer[c], kept(c))]
              /\ relationalAttributes' =
                   [c \in Ctxs |-> [k \in DOMAIN index(c) \ gone(c) |-> index(c)[k]]]
              /\ relAttrsIndex' = relAttrsIndex \cup UNION {{a.of : a \in ToSet(AddedTo(c))} : c \in Ctxs}
      /\ UNCHANGED <<family, conceptExtentsList, conceptExtentsNumStep, maxRegisteredConcept,
                     order, conceptOrderFamilies>>

\* Mutant: the numbers of other contexts and steps are forgotten.
NumbersFromOrder(count) == count - 1

\* The last number in use before the concepts of an order are registered.
LastNumber(count) == IF maxRegisteredConcept > count - 1 THEN maxRegisteredConcept ELSE count - 1

\* Mutants: only what the context at hand has found counts; whatever it finds
\* counts.
NewOfContext(new, found) == new # {}

NewWhateverFound(new, found) == newConcept \/ found # {}

NewConcept(new, found) == newConcept \/ new # {}

\* One turn of generateConceptOrders: the order of one context, its concepts
\* renamed (renamedConceptOrder), extents that are gone forgotten.
BuildOrder ==
  LET c == at
      found == Extents(family.ctxs[c].objs, {a.ext : a \in ToSet(attrs[c])})
      new == found \ DOMAIN conceptExtentsList[c]
  IN  /\ step = "build"
      /\ \E s \in SetToSeqs(new) :
           LET position(X) == CHOOSE k \in DOMAIN s : s[k] = X
               number(X) == IF X \in new THEN LastNumber(Cardinality(found)) + position(X)
                            ELSE conceptExtentsList[c][X]
           IN  /\ conceptExtentsList' =
                    [conceptExtentsList EXCEPT ![c] =
                       [X \in (IF family.clean THEN found ELSE new \cup DOMAIN @) |-> number(X)]]
               /\ order' = [order EXCEPT ![c] = {[id |-> number(X), ext |-> X] : X \in found}]
               /\ maxRegisteredConcept' = IF new = {} THEN maxRegisteredConcept
                                          ELSE LastNumber(Cardinality(found)) + Len(s)
      /\ conceptExtentsNumStep' =
           [conceptExtentsNumStep EXCEPT ![c] =
              [X \in new \cup DOMAIN @ |-> IF X \in new THEN numstep ELSE @[X]]]
      /\ newConcept' = NewConcept(new, found)
      /\ at' = at + 1 /\ step' = IF at + 1 \in Ctxs THEN "build" ELSE "decide"
      /\ UNCHANGED <<family, names, conceptOrderFamilies>>

\* The step is complete; it is the last one when it has found nothing, or at
\* the limit.
Decide ==
  /\ step = "decide"
  /\ conceptOrderFamilies' = Append(conceptOrderFamilies, order)
  /\ step' = IF ~ newConcept \/ numstep + 1 = family.maxStep THEN "end" ELSE "extend"
  /\ UNCHANGED <<family, names, registers, order, at>>

Ended == step = "end" /\ UNCHANGED vars

Next == Extend \/ BuildOrder \/ Decide \/ Ended

Spec == Init /\ [][Next]_vars

-----------------------------------------------------------------------------
(***************************************************************************)
(* Properties.                                                             *)
(***************************************************************************)

BetweenSteps == step \in {"extend", "end"}

\* The concept of that number in the last step whose order has it (GhostFinder).
Finder(c, id) ==
  LET steps == {k \in DOMAIN conceptOrderFamilies :
                  \E x \in conceptOrderFamilies[k][c] : x.id = id}
  IN  IF steps = {} THEN {}
      ELSE {x \in conceptOrderFamilies[Max(steps)][c] : x.id = id}

\* Whatever has been found, forgotten or removed since, the number in the name
\* of an attribute leads to one concept, in the last step that had it, and the
\* attribute's column is the scaling of that concept's extent ("assign a
\* unique identifier to concepts through the whole process").
NamesLeadToConcepts ==
  BetweenSteps =>
    \A c \in Ctxs : \A k \in {j \in DOMAIN attrs[c] : attrs[c][j].of # Native} :
      LET name == attrs[c][k].of
          concepts == Finder(family.rels[name.rel].target, name.concept)
      IN  /\ Cardinality(concepts) = 1
          /\ \A x \in concepts : attrs[c][k].ext = Column(name.rel, x.ext)

\* One step by the definition of relational concept analysis: every concept of
\* each context is scaled by the relations that lead there.
Widened(before) ==
  [c \in Ctxs |->
     before[c] \cup UNION {{Column(r, X) : X \in LET t == family.rels[r].target
                                               IN  Extents(family.ctxs[t].objs, before[t])} :
                           r \in {s \in Rels : family.rels[s].source = c}}]

\* The columns of the contexts after n steps.
Cols(n) ==
  LET cols[k \in 0 .. n] == IF k = 0 THEN [c \in Ctxs |-> ToSet(family.ctxs[c].cols)]
                           ELSE Widened(cols[k - 1])
  IN  cols[n]

\* Scaling only the concepts the step before has created loses nothing: after
\* each step the orders are those of the definition; and when a step has found
\* nothing new, one more would add nothing.  With -clean too, every concept of
\* the last orders has its attributes then, each once.
StepsFollowDefinition ==
  BetweenSteps /\ numstep > 0 =>
    /\ ~ family.clean =>
         \A c \in Ctxs : {x.ext : x \in order[c]} = Extents(family.ctxs[c].objs, Cols(numstep - 1)[c])
    /\ step = "end" /\ ~ newConcept =>
         /\ ~ family.clean => Cols(numstep) = Cols(numstep - 1)
         /\ \A r \in Rels : \A x \in order[family.rels[r].target] :
              Cardinality({k \in DOMAIN attrs[family.rels[r].source] :
                             attrs[family.rels[r].source][k].of = Name(r, x.id)}) = 1

\* "Checks if is relational attribute.": isRelationalAttribute says so of the
\* attributes that are, and getRelationalAttribute has the right one for each.
RelationalAttributesRight ==
  BetweenSteps =>
    \A c \in Ctxs : \A k \in DOMAIN attrs[c] :
      IF k \in DOMAIN relationalAttributes[c]
      THEN relationalAttributes[c][k] = attrs[c][k].of
      ELSE attrs[c][k].of = Native

\* Without -clean the loop cannot go on for ever: every step but the last has
\* registered an extent no step has registered before, and there are finitely
\* many.  With it an extent may be registered again, and there is the limit.
EveryStepFinds ==
  /\ family.maxStep # 0 => numstep <= family.maxStep
  /\ ~ family.clean =>
       /\ \A k \in 0 .. numstep - 2 :
            \E c \in Ctxs : \E X \in DOMAIN conceptExtentsNumStep[c] : conceptExtentsNumStep[c][X] = k
       /\ \A c \in Ctxs : DOMAIN conceptExtentsNumStep[c] = DOMAIN conceptExtentsList[c]
=============================================================================
