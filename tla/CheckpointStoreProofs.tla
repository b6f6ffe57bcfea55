----------------------- MODULE CheckpointStoreProofs -----------------------
(***************************************************************************)
(* Theorems about CheckpointStore.  The invariant StoreInv keeps track of  *)
(* the archive of every record, of what each call knows of it and of the   *)
(* owner of each temporary file.  What the archive of a capture is taken   *)
(* for is a matter of the encoder and its readers alone, and is proved of  *)
(* every capture that save accepts: the layout the encoder writes is the   *)
(* one the parser asks for (Laid), the components carry what the binding   *)
(* rules compare (LoadsEncoded), a tensor is found under each of its names *)
(* (Restores), and a comparison that finds nothing has compared everything *)
(* (ExactIsSame).                                                          *)
(***************************************************************************)
EXTENDS CheckpointStore, SequenceTheorems, FiniteSetTheorems, WellFoundedInduction, TLAPS

----------------------------------------------------------------------------
(* Lists, and the comparison of two descriptors.                           *)

(* A list is a function on 1..n.                                           *)
IsList(s) == s \in Seq(Range(s))

(* A function on 1..n is a list.                                           *)
LEMMA ListOf ==
    ASSUME NEW n \in Nat, NEW s, s = [i \in 1 .. n |-> s[i]]
    PROVE  /\ IsList(s)
           /\ Len(s) = n
           /\ s = <<>> <=> n = 0
<1>1. \A i \in 1 .. n : s[i] \in Range(s)
  <2>1. DOMAIN s = 1 .. n
    OBVIOUS
  <2>. QED  BY <2>1 DEF Range
<1>2. s \in [1 .. n -> Range(s)]
  BY <1>1
<1>3. s \in Seq(Range(s))
  BY <1>2, SeqDef
<1>4. Len(s) = n
  BY <1>2, LenProperties, <1>3
<1>. QED  BY <1>3, <1>4, EmptySeq, LenProperties DEF IsList

(* Joining lists.                                                          *)
LEMMA ListConcat ==
    ASSUME NEW s, NEW t, IsList(s), IsList(t)
    PROVE  /\ IsList(s \o t)
           /\ s \o t = <<>> <=> s = <<>> /\ t = <<>>
<1>. DEFINE S == Range(s) \cup Range(t)
<1>1. s \in Seq(S) /\ t \in Seq(S)
  BY SeqMonotonic DEF IsList
<1>. HIDE DEF S
<1>2. s \o t \in Seq(S) /\ Len(s \o t) \in Nat
  BY <1>1, ConcatProperties, LenProperties
<1>3. s \o t = [i \in 1 .. Len(s \o t) |-> (s \o t)[i]]
  <2>. DEFINE u == s \o t
  <2>1. u \in Seq(S)
    BY <1>2
  <2>. HIDE DEF u
  <2>2. u = [i \in 1 .. Len(u) |-> u[i]]
    BY <2>1
  <2>. QED  BY <2>2 DEF u
<1>4. IsList(s \o t)
  <2>. DEFINE u == s \o t
  <2>. HIDE DEF u
  <2>1. u = [i \in 1 .. Len(u) |-> u[i]] /\ Len(u) \in Nat
    BY <1>2, <1>3 DEF u
  <2>2. IsList(u)
    BY <2>1, ListOf
  <2>. QED  BY <2>2 DEF u
<1>5. s \o t = <<>> <=> s = <<>> /\ t = <<>>
  BY <1>1, ConcatEmptySeq, ConcatProperties, EmptySeq
<1>. QED  BY <1>4, <1>5

(* Found reports its condition.                                            *)
LEMMA FoundList ==
    ASSUME NEW cond \in BOOLEAN, NEW component, NEW code
    PROVE  /\ IsList(Found(cond, component, code))
           /\ Found(cond, component, code) = <<>> <=> ~cond
<1>. DEFINE x == <<Component[component], <<-1>>, code>>
<1>. HIDE DEF x
<1>1. Found(cond, component, code) = IF cond THEN <<x>> ELSE <<>>
  BY DEF Found, x
<1>2. <<x>> = [i \in 1 .. 1 |-> <<x>>[i]]
  OBVIOUS
<1>3. IsList(<<x>>) /\ <<x>> # <<>>
  BY <1>2, ListOf
<1>4. IsList(<<>>)
  BY EmptySeq DEF IsList
<1>. QED  BY <1>1, <1>3, <1>4

(* InOrder has one place for each path.                                    *)
LEMMA Ordered ==
    ASSUME NEW S, IsFiniteSet(S)
    PROVE  /\ Cardinality(S) \in Nat
           /\ DOMAIN InOrder(S) = 1 .. Cardinality(S)
           /\ Cardinality(S) = 0 <=> S = {}
BY FS_CardinalityType, FS_EmptySet DEF InOrder

(* One mismatch for each path: none exactly if there is no path.           *)
LEMMA FoundAtList ==
    ASSUME NEW S, IsFiniteSet(S), NEW component, NEW code
    PROVE  /\ IsList(FoundAt(S, component, code))
           /\ FoundAt(S, component, code) = <<>> <=> S = {}
<1>. DEFINE n == Cardinality(S)
            s == FoundAt(S, component, code)
<1>1. s = [i \in 1 .. n |-> <<Component[component], InOrder(S)[i], code>>]
  BY Ordered DEF FoundAt
<1>2. n \in Nat /\ (n = 0 <=> S = {})
  BY Ordered
<1>. HIDE DEF n, s
<1>3. s = [i \in 1 .. n |-> s[i]]
  BY <1>1
<1>. QED  BY <1>2, <1>3, ListOf DEF s

(* The image of a finite set is finite.                                    *)
LEMMA ImageFinite ==
    ASSUME NEW f, IsFiniteSet(DOMAIN f)
    PROVE  IsFiniteSet({f[x] : x \in DOMAIN f})
<1>. DEFINE T == {f[x] : x \in DOMAIN f}
            g == [x \in DOMAIN f |-> f[x]]
<1>1. g \in Surjection(DOMAIN f, T)
  BY DEF Surjection
<1>. QED  BY <1>1, FS_Surjection

(* Finitely many things have finitely many names.                          *)
LEMMA FiniteNames ==
    ASSUME NEW S, IsFiniteSet(S)
    PROVE  IsFiniteSet(NamesIn(S))
<1>. DEFINE f == [x \in S |-> x.name]
<1>1. NamesIn(S) = {f[x] : x \in DOMAIN f}
  BY DEF NamesIn
<1>. HIDE DEF f
<1>2. DOMAIN f = S
  BY DEF f
<1>. QED  BY <1>1, <1>2, ImageFinite

(* Finitely many alias groups have finitely many canonical names.          *)
LEMMA FiniteCanonical ==
    ASSUME NEW S, IsFiniteSet(S)
    PROVE  IsFiniteSet({g.canonical : g \in S})
<1>. DEFINE f == [g \in S |-> g.canonical]
<1>1. {g.canonical : g \in S} = {f[x] : x \in DOMAIN f}
  OBVIOUS
<1>. HIDE DEF f
<1>2. DOMAIN f = S
  BY DEF f
<1>. QED  BY <1>1, <1>2, ImageFinite

(* Each name is a path of its own.                                         *)
LEMMA FiniteAt ==
    ASSUME NEW S, IsFiniteSet(S)
    PROVE  /\ IsFiniteSet(At(S))
           /\ At(S) = {} <=> S = {}
<1>. DEFINE f == [x \in S |-> <<x>>]
<1>1. At(S) = {f[x] : x \in DOMAIN f}
  BY DEF At
<1>2. At(S) = {} <=> S = {}
  BY DEF At
<1>. HIDE DEF f
<1>3. DOMAIN f = S
  BY DEF f
<1>. QED  BY <1>1, <1>2, <1>3, ImageFinite

(* One mismatch for each name: none exactly if there is no name.           *)
LEMMA AtList ==
    ASSUME NEW S, IsFiniteSet(S), NEW component, NEW code
    PROVE  /\ IsList(FoundAt(At(S), component, code))
           /\ FoundAt(At(S), component, code) = <<>> <=> S = {}
BY FiniteAt, FoundAtList

(* The fields of an accepted descriptor.                                   *)
LEMMA DescriptorTyped ==
    ASSUME NEW d, DescriptorAccepted(d)
    PROVE  /\ IsFiniteSet(Declared(d)) /\ IsFiniteSet(d.alias) /\ IsFiniteSet(d.slots)
           /\ IsFiniteSet(d.rng.adapters) /\ IsFiniteSet(DOMAIN d.rng.versions)
           /\ Declared(d) \subseteq ModelParameterDescriptor
           /\ \A p, q \in Declared(d) : p.name = q.name => p = q
           /\ d.alias \subseteq AliasGroup
           /\ \A g, h \in d.alias : g.canonical = h.canonical => g = h
           /\ d.slots \subseteq OptimizerStateSlot
           /\ \A s, t \in d.slots : s.group = t.group /\ s.param = t.param => s = t
           /\ d.groups \in Seq(OptimizerParamGroup)
           /\ d.scheduler \in [type : Nat, active : BOOLEAN, shape : Nat]
           /\ d.data \in [identity : Nat, length : Nat, contract : Nat]
           /\ d.rng = [adapters |-> d.rng.adapters, versions |-> d.rng.versions,
                       schema |-> d.rng.schema]
           /\ d.rng.versions = [v \in DOMAIN d.rng.versions |-> d.rng.versions[v]]
           /\ d = [spec |-> d.spec, ranks |-> d.ranks, params |-> d.params,
                   buffers |-> d.buffers, alias |-> d.alias, slots |-> d.slots,
                   groups |-> d.groups, type |-> d.type, scheduler |-> d.scheduler,
                   scaler |-> d.scaler, rng |-> d.rng, data |-> d.data]
<1>1. DescriptorFields(d)
  BY DEF DescriptorAccepted
<1>2. /\ IsFiniteSet(d.params) /\ IsFiniteSet(d.buffers)
      /\ d.params \subseteq ModelParameterDescriptor
      /\ d.buffers \subseteq ModelParameterDescriptor
      /\ \A p, q \in d.params : p.name = q.name => p = q
      /\ \A p, q \in d.buffers : p.name = q.name => p = q
  BY <1>1 DEF DescriptorFields, DescriptorAccepted
<1>3. IsFiniteSet(Declared(d))
  BY <1>2, FS_Union, FS_Subset DEF Declared
<1>4. Declared(d) \subseteq ModelParameterDescriptor
  BY <1>2 DEF Declared
<1>5. \A p, q \in Declared(d) : p.name = q.name => p = q
  BY <1>2 DEF Declared, NamesIn
<1>6. \A g, h \in d.alias : g.canonical = h.canonical => g = h
  <2>1. \A g, h \in d.alias :
           g # h => (g.names \cup {g.canonical}) \cap (h.names \cup {h.canonical}) = {}
    BY DEF DescriptorAccepted
  <2>. QED  BY <2>1
<1>7. \A s, t \in d.slots : s.group = t.group /\ s.param = t.param => s = t
  BY DEF DescriptorAccepted
<1>8. /\ d.rng.versions = [v \in DOMAIN d.rng.versions |-> d.rng.versions[v]]
      /\ d.rng \in [adapters : SUBSET Nat, versions : {d.rng.versions}, schema : Nat]
  BY <1>1 DEF DescriptorFields
<1>9. d.rng = [adapters |-> d.rng.adapters, versions |-> d.rng.versions,
               schema |-> d.rng.schema]
  BY <1>8
<1>10. /\ d.groups \in Seq(OptimizerParamGroup)
       /\ d.scheduler \in [type : Nat, active : BOOLEAN, shape : Nat]
       /\ d.data \in [identity : Nat, length : Nat, contract : Nat]
       /\ d.alias \subseteq AliasGroup
       /\ d.slots \subseteq OptimizerStateSlot
       /\ IsFiniteSet(d.alias) /\ IsFiniteSet(d.slots)
       /\ IsFiniteSet(d.rng.adapters) /\ IsFiniteSet(DOMAIN d.rng.versions)
  BY <1>1 DEF DescriptorFields
<1>11. d = [spec |-> d.spec, ranks |-> d.ranks, params |-> d.params,
            buffers |-> d.buffers, alias |-> d.alias, slots |-> d.slots,
            groups |-> d.groups, type |-> d.type, scheduler |-> d.scheduler,
            scaler |-> d.scaler, rng |-> d.rng, data |-> d.data]
  BY <1>1 DEF DescriptorFields
<1>. QED  BY <1>3, <1>4, <1>5, <1>6, <1>7, <1>8, <1>9, <1>10, <1>11

(* Two sets of records that agree on their keys and on the rest are equal. *)
LEMMA SameParameters ==
    ASSUME NEW S \in SUBSET ModelParameterDescriptor,
           NEW T \in SUBSET ModelParameterDescriptor,
           NamesIn(S) = NamesIn(T),
           \A p \in S, q \in T : q.name = p.name => q.shape = p.shape /\ q.dtype = p.dtype
    PROVE  S = T
<1>1. \A p \in S, q \in T : q.name = p.name => p = q
  BY DEF ModelParameterDescriptor
<1>2. \A p \in S : \E q \in T : q.name = p.name
  BY DEF NamesIn
<1>3. \A q \in T : \E p \in S : q.name = p.name
  BY DEF NamesIn
<1>4. S \subseteq T
  BY <1>1, <1>2
<1>5. T \subseteq S
  BY <1>1, <1>3
<1>. QED  BY <1>4, <1>5

(* Two sets of alias groups with the same canonical names, each standing   *)
(* for the same aliases, are equal.                                        *)
LEMMA SameGroups ==
    ASSUME NEW S \in SUBSET AliasGroup, NEW T \in SUBSET AliasGroup,
           \A g \in S : \E h \in T : h.canonical = g.canonical,
           \A h \in T : \E g \in S : h.canonical = g.canonical,
           \A g \in S, h \in T : h.canonical = g.canonical => h.names = g.names
    PROVE  S = T
<1>1. \A g \in S, h \in T : h.canonical = g.canonical => g = h
  BY DEF AliasGroup
<1>2. S \subseteq T
  BY <1>1
<1>3. T \subseteq S
  BY <1>1
<1>. QED  BY <1>2, <1>3

(* The comparison of the models (store.py _check_param_names,              *)
(* _check_param_shapes, _check_param_dtypes, _check_alias_groups) finds    *)
(* nothing exactly if the declared tensors and the alias groups are the    *)
(* same.                                                                   *)
LEMMA ModelSame ==
    ASSUME NEW a, NEW e, DescriptorAccepted(a), DescriptorAccepted(e)
    PROVE  /\ IsList(ModelMismatches(a, e))
           /\ ModelMismatches(a, e) = <<>>
                 <=> /\ Declared(a) = Declared(e)
                     /\ a.alias = e.alias
<1>. DEFINE as == Declared(a)
            es == Declared(e)
            an == NamesIn(as)
            en == NamesIn(es)
            Differ(field) == NamesIn({p \in as :
                \E q \in es : q.name = p.name /\ q[field] # p[field]})
            ac == {g.canonical : g \in a.alias}
            ec == {g.canonical : g \in e.alias}
            regrouped == {g.canonical : g \in {x \in a.alias :
                \E h \in e.alias : h.canonical = x.canonical /\ h.names # x.names}}
<1>1. ModelMismatches(a, e) =
          FoundAt(At(en \ an), "model_names", 1) \o FoundAt(At(an \ en), "model_names", 2)
        \o FoundAt(At(Differ("shape")), "model_shapes", 1)
        \o FoundAt(At(Differ("dtype")), "model_dtypes", 1)
        \o FoundAt(At(ec \ ac), "model_alias_groups", 2)
        \o FoundAt(At(ac \ ec), "model_alias_groups", 3)
        \o FoundAt(At(regrouped), "model_alias_groups", 1)
  BY DEF ModelMismatches
<1>. HIDE DEF as, es
<1>2. /\ IsFiniteSet(an) /\ IsFiniteSet(en)
      /\ as \subseteq ModelParameterDescriptor /\ es \subseteq ModelParameterDescriptor
      /\ \A p, q \in as : p.name = q.name => p = q
      /\ \A p, q \in es : p.name = q.name => p = q
  BY DescriptorTyped, FiniteNames DEF as, es
<1>3. IsFiniteSet(as)
  BY DescriptorTyped DEF as
<1>4. \A field : IsFiniteSet(Differ(field))
  BY <1>3, FS_Subset, FiniteNames
<1>5. IsFiniteSet(ac) /\ IsFiniteSet(ec) /\ regrouped \subseteq ac
  BY DescriptorTyped, FiniteCanonical
<1>6. /\ IsFiniteSet(en \ an)
      /\ IsFiniteSet(an \ en)
      /\ IsFiniteSet(ec \ ac)
      /\ IsFiniteSet(ac \ ec)
      /\ IsFiniteSet(regrouped)
  BY <1>2, <1>5, FS_Subset
<1>7. as = es <=> en \ an = {} /\ an \ en = {} /\ Differ("shape") = {} /\ Differ("dtype") = {}
  <2>1. Differ("shape") = {} <=> \A p \in as, q \in es : q.name = p.name => q.shape = p.shape
    BY DEF NamesIn
  <2>2. Differ("dtype") = {} <=> \A p \in as, q \in es : q.name = p.name => q.dtype = p.dtype
    BY DEF NamesIn
  <2>. HIDE DEF Differ
  <2>3. ASSUME as = es
        PROVE  en \ an = {} /\ an \ en = {} /\ Differ("shape") = {} /\ Differ("dtype") = {}
    <3>1. an = en
      BY <2>3
    <3>2. \A p \in as, q \in es : q.name = p.name => p = q
      BY <1>2, <2>3
    <3>. QED  BY <2>1, <2>2, <3>1, <3>2
  <2>4. ASSUME en \ an = {}, an \ en = {}, Differ("shape") = {}, Differ("dtype") = {}
        PROVE  as = es
    <3>1. an = en
      BY <2>4
    <3>2. \A p \in as, q \in es : q.name = p.name => q.shape = p.shape /\ q.dtype = p.dtype
      BY <2>1, <2>2, <2>4
    <3>3. as \in SUBSET ModelParameterDescriptor /\ es \in SUBSET ModelParameterDescriptor
      BY <1>2
    <3>. QED  BY <3>1, <3>2, <3>3, SameParameters
  <2>. QED  BY <2>3, <2>4
<1>8. a.alias = e.alias <=> ec \ ac = {} /\ ac \ ec = {} /\ regrouped = {}
  <2>1. regrouped = {}
           <=> \A g \in a.alias, h \in e.alias : h.canonical = g.canonical => h.names = g.names
    OBVIOUS
  <2>. HIDE DEF regrouped
  <2>2. ASSUME a.alias = e.alias
        PROVE  ec \ ac = {} /\ ac \ ec = {} /\ regrouped = {}
    <3>1. ac = ec
      BY <2>2
    <3>2. \A g \in a.alias, h \in e.alias : h.canonical = g.canonical => g = h
      BY <2>2, DescriptorTyped
    <3>. QED  BY <2>1, <3>1, <3>2
  <2>3. ASSUME ec \ ac = {}, ac \ ec = {}, regrouped = {}
        PROVE  a.alias = e.alias
    <3>1. ac = ec
      BY <2>3
    <3>2. a.alias \in SUBSET AliasGroup /\ e.alias \in SUBSET AliasGroup
      BY DescriptorTyped
    <3>3. \A g \in a.alias, h \in e.alias : h.canonical = g.canonical => h.names = g.names
      BY <2>1, <2>3
    <3>4. \A g \in a.alias : \E h \in e.alias : h.canonical = g.canonical
      BY <3>1
    <3>5. \A h \in e.alias : \E g \in a.alias : h.canonical = g.canonical
      BY <3>1
    <3>. HIDE DEF ac, ec, regrouped
    <3>. QED  BY <3>2, <3>3, <3>4, <3>5, SameGroups
  <2>. QED  BY <2>2, <2>3
<1>. HIDE DEF Differ, regrouped, an, en, ac, ec
<1>. DEFINE f1 == FoundAt(At(en \ an), "model_names", 1)
            f2 == FoundAt(At(an \ en), "model_names", 2)
            f3 == FoundAt(At(Differ("shape")), "model_shapes", 1)
            f4 == FoundAt(At(Differ("dtype")), "model_dtypes", 1)
            f5 == FoundAt(At(ec \ ac), "model_alias_groups", 2)
            f6 == FoundAt(At(ac \ ec), "model_alias_groups", 3)
            f7 == FoundAt(At(regrouped), "model_alias_groups", 1)
<1>9. /\ IsList(f1) /\ (f1 = <<>> <=> en \ an = {})
      /\ IsList(f2) /\ (f2 = <<>> <=> an \ en = {})
      /\ IsList(f3) /\ (f3 = <<>> <=> Differ("shape") = {})
      /\ IsList(f4) /\ (f4 = <<>> <=> Differ("dtype") = {})
      /\ IsList(f5) /\ (f5 = <<>> <=> ec \ ac = {})
      /\ IsList(f6) /\ (f6 = <<>> <=> ac \ ec = {})
      /\ IsList(f7) /\ (f7 = <<>> <=> regrouped = {})
  BY <1>4, <1>6, AtList
<1>. HIDE DEF f1, f2, f3, f4, f5, f6, f7
<1>10. ModelMismatches(a, e) = f1 \o f2 \o f3 \o f4 \o f5 \o f6 \o f7
  BY <1>1 DEF f1, f2, f3, f4, f5, f6, f7
<1>11. /\ IsList(f1 \o f2 \o f3 \o f4 \o f5 \o f6 \o f7)
       /\ f1 \o f2 \o f3 \o f4 \o f5 \o f6 \o f7 = <<>>
             <=> /\ f1 = <<>> /\ f2 = <<>> /\ f3 = <<>> /\ f4 = <<>>
                 /\ f5 = <<>> /\ f6 = <<>> /\ f7 = <<>>
  BY <1>9, ListConcat
<1>. QED  BY <1>7, <1>8, <1>9, <1>10, <1>11 DEF as, es

(* The paths of differing parameter groups: finitely many, none if no      *)
(* group differs.                                                          *)
LEMMA FiniteIndices ==
    ASSUME NEW n \in Nat, NEW I \in SUBSET (1 .. n), NEW J \in SUBSET (1 .. n)
    PROVE  LET S == {<<i, 0>> : i \in I} \cup {<<i, 1>> : i \in J}
           IN  /\ IsFiniteSet(S)
               /\ S = {} <=> I = {} /\ J = {}
<1>. DEFINE f == [i \in I |-> <<i, 0>>]
            g == [i \in J |-> <<i, 1>>]
<1>1. IsFiniteSet(I) /\ IsFiniteSet(J)
  <2>1. IsFiniteSet(1 .. n)
    BY FS_Interval
  <2>. QED  BY <2>1, FS_Subset
<1>2. IsFiniteSet({<<i, 0>> : i \in I})
  <2>1. {<<i, 0>> : i \in I} = {f[x] : x \in DOMAIN f}
    OBVIOUS
  <2>2. DOMAIN f = I
    OBVIOUS
  <2>. HIDE DEF f
  <2>. QED  BY <1>1, <2>1, <2>2, ImageFinite
<1>3. IsFiniteSet({<<i, 1>> : i \in J})
  <2>1. {<<i, 1>> : i \in J} = {g[x] : x \in DOMAIN g}
    OBVIOUS
  <2>2. DOMAIN g = J
    OBVIOUS
  <2>. HIDE DEF g
  <2>. QED  BY <1>1, <2>1, <2>2, ImageFinite
<1>4. {<<i, 0>> : i \in I} = {} <=> I = {}
  OBVIOUS
<1>5. {<<i, 1>> : i \in J} = {} <=> J = {}
  OBVIOUS
<1>. QED  BY <1>2, <1>3, <1>4, <1>5, FS_Union

(* The comparison of the parameter groups finds nothing exactly if they    *)
(* are the same.                                                           *)
LEMMA GroupsSame ==
    ASSUME NEW a, NEW e, DescriptorAccepted(a), DescriptorAccepted(e)
    PROVE  /\ IsList(GroupMismatches(a, e))
           /\ GroupMismatches(a, e) = <<>> <=> a.groups = e.groups
<1>. DEFINE n == Len(a.groups)
            differ(field) == {i \in DOMAIN a.groups : a.groups[i][field] # e.groups[i][field]}
            S == {<<i, 0>> : i \in differ("params")} \cup {<<i, 1>> : i \in differ("options")}
            sorted == InOrder(S)
            list == [k \in DOMAIN sorted |->
                IF sorted[k][2] = 0
                THEN <<Component["optimizer_groups"], <<sorted[k][1]>>, 2>>
                ELSE <<Component["optimizer_options"], <<sorted[k][1]>>, 1>>]
            found == Found(TRUE, "optimizer_groups", 1)
<1>1. GroupMismatches(a, e) = IF Len(a.groups) # Len(e.groups) THEN found ELSE list
  BY DEF GroupMismatches
<1>2. /\ a.groups \in Seq(OptimizerParamGroup)
      /\ e.groups \in Seq(OptimizerParamGroup)
  BY DescriptorTyped
<1>3. n \in Nat /\ DOMAIN a.groups = 1 .. n
  BY <1>2
<1>. HIDE DEF n
<1>4. IsFiniteSet(S) /\ (S = {} <=> differ("params") = {} /\ differ("options") = {})
  <2>1. differ("params") \in SUBSET (1 .. n) /\ differ("options") \in SUBSET (1 .. n)
    BY <1>3
  <2>. HIDE DEF differ
  <2>. QED  BY <2>1, <1>3, FiniteIndices
<1>5. ASSUME Len(a.groups) = Len(e.groups)
      PROVE  a.groups = e.groups <=> differ("params") = {} /\ differ("options") = {}
  <2>1. \A i \in 1 .. n : /\ a.groups[i] \in OptimizerParamGroup
                          /\ e.groups[i] \in OptimizerParamGroup
    BY <1>2, <1>3, <1>5, ElementOfSeq DEF n
  <2>6. \A g, h \in OptimizerParamGroup :
           g = h <=> g.params = h.params /\ g.options = h.options
    BY DEF OptimizerParamGroup
  <2>2. \A i \in 1 .. n : a.groups[i] = e.groups[i]
           <=> /\ a.groups[i].params = e.groups[i].params
               /\ a.groups[i].options = e.groups[i].options
    BY <2>1, <2>6
  <2>3. a.groups = e.groups <=> \A i \in 1 .. n : a.groups[i] = e.groups[i]
    BY <1>2, <1>3, <1>5, SeqEqual DEF n
  <2>4. differ("params") = {} <=> \A i \in 1 .. n : a.groups[i].params = e.groups[i].params
    BY <1>3
  <2>5. differ("options") = {} <=> \A i \in 1 .. n : a.groups[i].options = e.groups[i].options
    BY <1>3
  <2>. QED  BY <2>2, <2>3, <2>4, <2>5
<1>. HIDE DEF differ, S
<1>6. DOMAIN sorted = 1 .. Cardinality(S)
  BY <1>4, Ordered
<1>7. Cardinality(S) \in Nat /\ (Cardinality(S) = 0 <=> S = {})
  BY <1>4, Ordered
<1>. HIDE DEF sorted
<1>8. IsList(list) /\ (list = <<>> <=> S = {})
  <2>1. list = [k \in 1 .. Cardinality(S) |-> list[k]]
    BY <1>6
  <2>. HIDE DEF list
  <2>. QED  BY <2>1, <1>7, ListOf
<1>9. IsList(found) /\ found # <<>>
  BY FoundList
<1>. HIDE DEF list, found
<1>. QED  BY <1>1, <1>4, <1>5, <1>8, <1>9

(* The comparison of the optimizer's slots finds nothing exactly if they   *)
(* are the same.                                                           *)
LEMMA SlotsSame ==
    ASSUME NEW a, NEW e, DescriptorAccepted(a), DescriptorAccepted(e)
    PROVE  /\ IsList(SlotMismatches(a, e))
           /\ SlotMismatches(a, e) = <<>> <=> a.slots = e.slots
<1>. DEFINE Key(s) == <<s.group, s.param>>
            ak == {Key(s) : s \in a.slots}
            ek == {Key(s) : s \in e.slots}
            differ(field) == {s \in a.slots : \E t \in e.slots :
                                 Key(s) = Key(t) /\ s[field] # t[field]}
            shapes == {<<s.group, s.param, 0>> : s \in differ("shape")}
            dtypes == {<<s.group, s.param, 1>> : s \in differ("dtype")}
            S == shapes \cup dtypes
            sorted == InOrder(S)
            list == [k \in DOMAIN sorted |->
              <<Component["optimizer_slots"], <<sorted[k][1], sorted[k][2]>>,
                IF sorted[k][3] = 0 THEN 3 ELSE 1>>]
            f1 == FoundAt(ek \ ak, "optimizer_slots", 2)
            f2 == FoundAt(ak \ ek, "optimizer_slots", 4)
<1>1. SlotMismatches(a, e) = f1 \o f2 \o list
  BY DEF SlotMismatches
<1>2. /\ a.slots \subseteq [group : Nat, param : Nat, shape : Nat, dtype : Nat]
      /\ e.slots \subseteq [group : Nat, param : Nat, shape : Nat, dtype : Nat]
      /\ \A s, t \in a.slots : s.group = t.group /\ s.param = t.param => s = t
      /\ IsFiniteSet(a.slots)
      /\ IsFiniteSet(e.slots)
  BY DescriptorTyped DEF OptimizerStateSlot
<1>3. \A T : IsFiniteSet(T) => IsFiniteSet({Key(s) : s \in T})
  <2>. SUFFICES ASSUME NEW T, IsFiniteSet(T) PROVE IsFiniteSet({Key(s) : s \in T})
    OBVIOUS
  <2>. DEFINE f == [s \in T |-> Key(s)]
  <2>1. {Key(s) : s \in T} = {f[x] : x \in DOMAIN f} /\ DOMAIN f = T
    OBVIOUS
  <2>. HIDE DEF f, Key
  <2>. QED  BY <2>1, ImageFinite
<1>4. IsFiniteSet(ek \ ak) /\ IsFiniteSet(ak \ ek)
  BY <1>2, <1>3, FS_Subset
<1>5. \A T, i : IsFiniteSet(T) => IsFiniteSet({<<s.group, s.param, i>> : s \in T})
  <2>. SUFFICES ASSUME NEW T, NEW i, IsFiniteSet(T)
                PROVE  IsFiniteSet({<<s.group, s.param, i>> : s \in T})
    OBVIOUS
  <2>. DEFINE f == [s \in T |-> <<s.group, s.param, i>>]
  <2>1. {<<s.group, s.param, i>> : s \in T} = {f[x] : x \in DOMAIN f} /\ DOMAIN f = T
    OBVIOUS
  <2>. HIDE DEF f
  <2>. QED  BY <2>1, ImageFinite
<1>6. IsFiniteSet(S)
  <2>1. \A field : IsFiniteSet(differ(field))
    BY <1>2, FS_Subset
  <2>. HIDE DEF differ
  <2>. QED  BY <1>5, <2>1, FS_Union
<1>7. S = {} <=> differ("shape") = {} /\ differ("dtype") = {}
  <2>. HIDE DEF differ
  <2>1. shapes = {} <=> differ("shape") = {}
    OBVIOUS
  <2>2. dtypes = {} <=> differ("dtype") = {}
    OBVIOUS
  <2>. QED  BY <2>1, <2>2
<1>8. differ("shape") = {} <=> \A s \in a.slots, t \in e.slots : Key(s) = Key(t) => s.shape = t.shape
  OBVIOUS
<1>9. differ("dtype") = {} <=> \A s \in a.slots, t \in e.slots : Key(s) = Key(t) => s.dtype = t.dtype
  OBVIOUS
<1>. HIDE DEF differ
<1>10. a.slots = e.slots
          <=> ek \ ak = {} /\ ak \ ek = {} /\ differ("shape") = {} /\ differ("dtype") = {}
  <2>1. ASSUME a.slots = e.slots
        PROVE  ek \ ak = {} /\ ak \ ek = {} /\ differ("shape") = {} /\ differ("dtype") = {}
    <3>1. ak = ek
      BY <2>1
    <3>2. \A s \in a.slots, t \in e.slots : Key(s) = Key(t) => s = t
      BY <1>2, <2>1
    <3>. QED  BY <1>8, <1>9, <3>1, <3>2
  <2>2. ASSUME ek \ ak = {}, ak \ ek = {}, differ("shape") = {}, differ("dtype") = {}
        PROVE  a.slots = e.slots
    <3>1. ak = ek
      BY <2>2
    <3>2. \A s \in a.slots, t \in e.slots : Key(s) = Key(t) => s = t
      <4>1. \A s \in a.slots, t \in e.slots :
               Key(s) = Key(t) => s.group = t.group /\ s.param = t.param
        OBVIOUS
      <4>2. \A s \in a.slots, t \in e.slots : Key(s) = Key(t) => s.shape = t.shape /\ s.dtype = t.dtype
        BY <1>8, <1>9, <2>2
      <4>. HIDE DEF Key
      <4>. QED  BY <1>2, <4>1, <4>2
    <3>3. \A s \in a.slots : \E t \in e.slots : Key(s) = Key(t)
      <4>. HIDE DEF Key
      <4>. QED  BY <3>1
    <3>4. \A t \in e.slots : \E s \in a.slots : Key(s) = Key(t)
      <4>. HIDE DEF Key
      <4>. QED  BY <3>1
    <3>. HIDE DEF Key
    <3>5. a.slots \subseteq e.slots
      BY <3>2, <3>3
    <3>6. e.slots \subseteq a.slots
      BY <3>2, <3>4
    <3>. QED  BY <3>5, <3>6
  <2>. QED  BY <2>1, <2>2
<1>. HIDE DEF S, ak, ek
<1>11. DOMAIN sorted = 1 .. Cardinality(S)
  BY <1>6, Ordered
<1>12. Cardinality(S) \in Nat /\ (Cardinality(S) = 0 <=> S = {})
  BY <1>6, Ordered
<1>. HIDE DEF sorted
<1>13. IsList(list) /\ (list = <<>> <=> S = {})
  <2>1. list = [k \in 1 .. Cardinality(S) |-> list[k]]
    BY <1>11
  <2>. HIDE DEF list
  <2>. QED  BY <2>1, <1>12, ListOf
<1>14. /\ IsList(f1) /\ (f1 = <<>> <=> ek \ ak = {})
       /\ IsList(f2) /\ (f2 = <<>> <=> ak \ ek = {})
  BY <1>4, FoundAtList
<1>. HIDE DEF list, f1, f2
<1>15. /\ IsList(f1 \o f2 \o list)
       /\ f1 \o f2 \o list = <<>> <=> f1 = <<>> /\ f2 = <<>> /\ list = <<>>
  BY <1>13, <1>14, ListConcat
<1>. QED  BY <1>1, <1>7, <1>10, <1>13, <1>14, <1>15

(* The comparison of the optimizers finds nothing exactly if type, groups  *)
(* and slots are the same.                                                 *)
LEMMA OptimizerSame ==
    ASSUME NEW a, NEW e, DescriptorAccepted(a), DescriptorAccepted(e)
    PROVE  /\ IsList(OptimizerMismatches(a, e))
           /\ OptimizerMismatches(a, e) = <<>>
                 <=> a.type = e.type /\ a.groups = e.groups /\ a.slots = e.slots
<1>. DEFINE f1 == Found(a.type # e.type, "optimizer_type", 1)
            f2 == GroupMismatches(a, e)
            f3 == SlotMismatches(a, e)
<1>1. OptimizerMismatches(a, e) = f1 \o f2 \o f3
  BY DEF OptimizerMismatches
<1>2. /\ IsList(f1) /\ (f1 = <<>> <=> a.type = e.type)
      /\ IsList(f2) /\ (f2 = <<>> <=> a.groups = e.groups)
      /\ IsList(f3) /\ (f3 = <<>> <=> a.slots = e.slots)
  BY FoundList, GroupsSame, SlotsSame
<1>. HIDE DEF f1, f2, f3
<1>3. /\ IsList(f1 \o f2 \o f3)
      /\ f1 \o f2 \o f3 = <<>> <=> f1 = <<>> /\ f2 = <<>> /\ f3 = <<>>
  BY <1>2, ListConcat
<1>. QED  BY <1>1, <1>2, <1>3

(* The comparison of the random number managers finds nothing exactly if   *)
(* adapters, versions and schema are the same.                             *)
LEMMA RngSame ==
    ASSUME NEW a, NEW e, DescriptorAccepted(a), DescriptorAccepted(e)
    PROVE  /\ IsList(RngMismatches(a.rng, e.rng))
           /\ RngMismatches(a.rng, e.rng) = <<>> <=> a.rng = e.rng
<1>. DEFINE r == a.rng
            s == e.rng
            rv == DOMAIN r.versions
            sv == DOMAIN s.versions
            other == {v \in rv \cap sv : r.versions[v] # s.versions[v]}
            f1 == FoundAt(At(s.adapters \ r.adapters), "rng_adapter_set", 1)
            f2 == FoundAt(At(r.adapters \ s.adapters), "rng_adapter_set", 2)
            f3 == Found(r.schema # s.schema, "rng_schema", 1)
            f4 == FoundAt(At(sv \ rv), "rng_schema", 1)
            f5 == FoundAt(At(rv \ sv), "rng_schema", 1)
            f6 == FoundAt(At(other), "rng_schema", 1)
<1>1. RngMismatches(r, s) = f1 \o f2 \o f3 \o f4 \o f5 \o f6
  BY DEF RngMismatches
<1>2. /\ IsFiniteSet(r.adapters) /\ IsFiniteSet(s.adapters)
      /\ IsFiniteSet(rv) /\ IsFiniteSet(sv)
      /\ r = [adapters |-> r.adapters, versions |-> r.versions, schema |-> r.schema]
      /\ s = [adapters |-> s.adapters, versions |-> s.versions, schema |-> s.schema]
      /\ r.versions = [v \in rv |-> r.versions[v]]
      /\ s.versions = [v \in sv |-> s.versions[v]]
  BY DescriptorTyped
<1>. HIDE DEF r, s
<1>3. /\ IsFiniteSet(s.adapters \ r.adapters)
      /\ IsFiniteSet(r.adapters \ s.adapters)
      /\ IsFiniteSet(sv \ rv)
      /\ IsFiniteSet(rv \ sv)
      /\ IsFiniteSet(other)
  BY <1>2, FS_Subset
<1>4. r.versions = s.versions <=> sv \ rv = {} /\ rv \ sv = {} /\ other = {}
  <2>1. ASSUME sv \ rv = {}, rv \ sv = {}, other = {}
        PROVE  r.versions = s.versions
    <3>1. rv = sv
      BY <2>1
    <3>2. \A v \in rv : r.versions[v] = s.versions[v]
      BY <2>1, <3>1
    <3>. QED  BY <1>2, <3>1, <3>2
  <2>2. ASSUME r.versions = s.versions
        PROVE  sv \ rv = {} /\ rv \ sv = {} /\ other = {}
    BY <2>2
  <2>. QED  BY <2>1, <2>2
<1>5. r = s <=> r.adapters = s.adapters /\ r.versions = s.versions /\ r.schema = s.schema
  BY <1>2
<1>6. /\ IsList(f1) /\ (f1 = <<>> <=> s.adapters \ r.adapters = {})
      /\ IsList(f2) /\ (f2 = <<>> <=> r.adapters \ s.adapters = {})
      /\ IsList(f3) /\ (f3 = <<>> <=> r.schema = s.schema)
      /\ IsList(f4) /\ (f4 = <<>> <=> sv \ rv = {})
      /\ IsList(f5) /\ (f5 = <<>> <=> rv \ sv = {})
      /\ IsList(f6) /\ (f6 = <<>> <=> other = {})
  BY <1>3, AtList, FoundList
<1>7. r.adapters = s.adapters <=> s.adapters \ r.adapters = {} /\ r.adapters \ s.adapters = {}
  OBVIOUS
<1>. HIDE DEF f1, f2, f3, f4, f5, f6, rv, sv, other
<1>8. /\ IsList(f1 \o f2 \o f3 \o f4 \o f5 \o f6)
      /\ f1 \o f2 \o f3 \o f4 \o f5 \o f6 = <<>>
            <=> f1 = <<>> /\ f2 = <<>> /\ f3 = <<>> /\ f4 = <<>> /\ f5 = <<>> /\ f6 = <<>>
  BY <1>6, ListConcat
<1>. QED  BY <1>1, <1>4, <1>5, <1>6, <1>7, <1>8 DEF r, s

(* The comparison of the schedulers finds nothing exactly if they are the  *)
(* same.                                                                   *)
LEMMA SchedulerSame ==
    ASSUME NEW a \in [type : Nat, active : BOOLEAN, shape : Nat],
           NEW e \in [type : Nat, active : BOOLEAN, shape : Nat]
    PROVE  /\ IsList(SchedulerMismatches(a, e))
           /\ SchedulerMismatches(a, e) = <<>> <=> a = e
<1>. DEFINE f1 == Found(a.type # e.type, "scheduler_identity", 2)
            f2 == Found(a.active # e.active, "scheduler_identity", 1)
            f3 == Found(a.shape # e.shape, "scheduler_state_shape", 1)
<1>1. SchedulerMismatches(a, e) = f1 \o f2 \o f3
  BY DEF SchedulerMismatches
<1>2. /\ IsList(f1) /\ (f1 = <<>> <=> a.type = e.type)
      /\ IsList(f2) /\ (f2 = <<>> <=> a.active = e.active)
      /\ IsList(f3) /\ (f3 = <<>> <=> a.shape = e.shape)
  BY FoundList
<1>. HIDE DEF f1, f2, f3
<1>3. /\ IsList(f1 \o f2 \o f3)
      /\ f1 \o f2 \o f3 = <<>> <=> f1 = <<>> /\ f2 = <<>> /\ f3 = <<>>
  BY <1>2, ListConcat
<1>4. a = e <=> a.type = e.type /\ a.active = e.active /\ a.shape = e.shape
  OBVIOUS
<1>. QED  BY <1>1, <1>2, <1>3, <1>4

(* The comparison of the data positions finds nothing exactly if identity, *)
(* length and contract are the same.                                       *)
LEMMA DataSame ==
    ASSUME NEW a \in [identity : Nat, length : Nat, contract : Nat],
           NEW e \in [identity : Nat, length : Nat, contract : Nat]
    PROVE  /\ IsList(DataMismatches(a, e))
           /\ DataMismatches(a, e) = <<>> <=> a = e
<1>. DEFINE f1 == Found(a.identity # e.identity \/ a.length # e.length, "data_identity", 1)
            f2 == Found(a.contract # e.contract, "data_cursor_contract", 1)
<1>1. DataMismatches(a, e) = f1 \o f2
  BY DEF DataMismatches
<1>2. /\ IsList(f1) /\ (f1 = <<>> <=> a.identity = e.identity /\ a.length = e.length)
      /\ IsList(f2) /\ (f2 = <<>> <=> a.contract = e.contract)
  BY FoundList
<1>. HIDE DEF f1, f2
<1>3. /\ IsList(f1 \o f2)
      /\ f1 \o f2 = <<>> <=> f1 = <<>> /\ f2 = <<>>
  BY <1>2, ListConcat
<1>4. a = e <=> a.identity = e.identity /\ a.length = e.length /\ a.contract = e.contract
  OBVIOUS
<1>. QED  BY <1>1, <1>2, <1>3, <1>4

(* check_compatibility answers exact for two accepted descriptors exactly  *)
(* if they describe the same contract.                                     *)
LEMMA ExactIsSame ==
    ASSUME NEW a, NEW e, DescriptorAccepted(a), DescriptorAccepted(e)
    PROVE  Compatibility(a, e) = "exact" <=> SameContract(a, e)
<1>. DEFINE f1 == Found(a.spec # e.spec, "specification_fingerprint", 1)
            f2 == Found(a.ranks # e.ranks, "topology", 1)
            f3 == ModelMismatches(a, e)
            f4 == OptimizerMismatches(a, e)
            f5 == SchedulerMismatches(a.scheduler, e.scheduler)
            f6 == Found((a.scaler = <<>>) # (e.scaler = <<>>), "scaler_active", 1)
            f7 == RngMismatches(a.rng, e.rng)
            f8 == DataMismatches(a.data, e.data)
<1>1. Mismatches(a, e) = f1 \o f2 \o f3 \o f4 \o f5 \o f6 \o f7 \o f8
  BY DEF Mismatches
<1>2. /\ IsList(f1) /\ (f1 = <<>> <=> a.spec = e.spec)
      /\ IsList(f2) /\ (f2 = <<>> <=> a.ranks = e.ranks)
      /\ IsList(f6) /\ (f6 = <<>> <=> (a.scaler = <<>>) = (e.scaler = <<>>))
  BY FoundList
<1>3. /\ IsList(f3) /\ (f3 = <<>> <=> Declared(a) = Declared(e) /\ a.alias = e.alias)
      /\ IsList(f4) /\ (f4 = <<>> <=> a.type = e.type /\ a.groups = e.groups /\ a.slots = e.slots)
      /\ IsList(f7) /\ (f7 = <<>> <=> a.rng = e.rng)
  BY ModelSame, OptimizerSame, RngSame
<1>4. /\ IsList(f5) /\ (f5 = <<>> <=> a.scheduler = e.scheduler)
      /\ IsList(f8) /\ (f8 = <<>> <=> a.data = e.data)
  BY DescriptorTyped, SchedulerSame, DataSame
<1>. HIDE DEF f1, f2, f3, f4, f5, f6, f7, f8
<1>5. f1 \o f2 \o f3 \o f4 \o f5 \o f6 \o f7 \o f8 = <<>>
         <=> /\ f1 = <<>> /\ f2 = <<>> /\ f3 = <<>> /\ f4 = <<>>
             /\ f5 = <<>> /\ f6 = <<>> /\ f7 = <<>> /\ f8 = <<>>
  BY <1>2, <1>3, <1>4, ListConcat
<1>6. Compatibility(a, e) = "exact" <=> Mismatches(a, e) = <<>>
  BY DEF Compatibility
<1>7. (\A field \in DOMAIN a \ {"params", "buffers", "scaler"} : a[field] = e[field])
         <=> /\ a.spec = e.spec /\ a.ranks = e.ranks /\ a.alias = e.alias /\ a.slots = e.slots
             /\ a.groups = e.groups /\ a.type = e.type /\ a.scheduler = e.scheduler
             /\ a.rng = e.rng /\ a.data = e.data
  <2>1. DOMAIN a \ {"params", "buffers", "scaler"}
           = {"spec", "ranks", "alias", "slots", "groups", "type", "scheduler", "rng", "data"}
    BY DEF DescriptorAccepted, DescriptorFields
  <2>. QED  BY <2>1
<1>. QED  BY <1>1, <1>2, <1>3, <1>4, <1>5, <1>6, <1>7 DEF SameContract

----------------------------------------------------------------------------
(* Least elements, and lists of things that have a name.                   *)

(* The least member of a set of numbers.                                   *)
LEMMA Least ==
    ASSUME NEW S \in SUBSET Nat, S # {}
    PROVE  Min(S) \in S
<1>1. IsWellFoundedOn(OpToRel(<, Nat), Nat)
  BY NatLessThanWellFounded
<1>2. PICK n \in S : \A m \in S : ~ (<<m, n>> \in OpToRel(<, Nat))
  BY <1>1, WFMin
<1>3. \A m \in S : ~ (m < n)
  BY <1>2 DEF OpToRel
<1>4. \A m \in S : n <= m
  BY <1>3
<1>. QED  BY <1>4 DEF Min

(* What two lists hold end to end.                                         *)
LEMMA RangeConcat ==
    ASSUME NEW S, NEW s \in Seq(S), NEW t \in Seq(S)
    PROVE  /\ Range(s \o t) = Range(s) \cup Range(t)
           /\ s \o t \in Seq(S)
           /\ Len(s \o t) = Len(s) + Len(t)
<1>. DEFINE u == s \o t
            m == Len(s)
            n == Len(t)
<1>1. /\ u \in Seq(S)
      /\ Len(u) = m + n
      /\ \A i \in 1 .. m + n : u[i] = IF i <= m THEN s[i] ELSE t[i - m]
  BY ConcatProperties
<1>2. /\ m \in Nat /\ n \in Nat
      /\ DOMAIN s = 1 .. m
      /\ DOMAIN t = 1 .. n
      /\ DOMAIN u = 1 .. m + n
  BY <1>1, LenProperties
<1>. HIDE DEF u, m, n
<1>3. \A i \in 1 .. m : i \in 1 .. m + n /\ u[i] = s[i]
  BY <1>1, <1>2
<1>4. \A i \in 1 .. n : i + m \in 1 .. m + n /\ u[i + m] = t[i]
  <2>1. \A i \in 1 .. n : i + m \in 1 .. m + n /\ ~(i + m <= m) /\ (i + m) - m = i
    BY <1>2
  <2>. QED  BY <1>1, <2>1
<1>5. \A i \in 1 .. m + n : \/ i \in 1 .. m /\ u[i] = s[i]
                            \/ i - m \in 1 .. n /\ u[i] = t[i - m]
  BY <1>1, <1>2
<1>6. Range(u) \subseteq Range(s) \cup Range(t)
  BY <1>2, <1>5 DEF Range
<1>7. Range(s) \cup Range(t) \subseteq Range(u)
  BY <1>2, <1>3, <1>4 DEF Range
<1>. QED  BY <1>1, <1>6, <1>7 DEF u, m, n

(* Names is about what a list holds, not about its order.                  *)
LEMMA NamesRange ==
    ASSUME NEW ts
    PROVE  Names(ts) = NamesIn(Range(ts))
BY DEF Names, NamesIn, Range

(* The names in two lists end to end.                                      *)
LEMMA JoinedNames ==
    ASSUME NEW S, NEW s \in Seq(S), NEW t \in Seq(S)
    PROVE  Names(s \o t) = Names(s) \cup Names(t)
<1>1. Range(s \o t) = Range(s) \cup Range(t)
  BY RangeConcat
<1>. DEFINE u == s \o t
<1>2. Names(u) = NamesIn(Range(u))
  BY NamesRange
<1>3. Names(u) = NamesIn(Range(s) \cup Range(t))
  BY <1>1, <1>2
<1>. QED  BY <1>3, NamesRange DEF NamesIn

(* Distinct says that no two have the same name.                           *)
LEMMA DistinctNames ==
    ASSUME NEW S, NEW ts \in Seq(S)
    PROVE  /\ IsFiniteSet(Names(ts))
           /\ Distinct(ts)
                 <=> \A i, j \in DOMAIN ts : ts[i].name = ts[j].name => i = j
<1>. DEFINE n == Len(ts)
            f == [i \in 1 .. n |-> ts[i].name]
<1>1. n \in Nat /\ DOMAIN ts = 1 .. n
  BY LenProperties
<1>. HIDE DEF n
<1>2. f \in Surjection(1 .. n, Names(ts))
  BY <1>1 DEF Surjection, Names
<1>3. IsFiniteSet(1 .. n) /\ Cardinality(1 .. n) = n
  BY <1>1, FS_Interval
<1>4. /\ IsFiniteSet(Names(ts))
      /\ Cardinality(Names(ts)) = n <=> f \in Injection(1 .. n, Names(ts))
  BY <1>2, <1>3, FS_Surjection
<1>5. f \in Injection(1 .. n, Names(ts))
         <=> \A i, j \in 1 .. n : ts[i].name = ts[j].name => i = j
  <2>1. f \in [1 .. n -> Names(ts)]
    BY <1>2 DEF Surjection
  <2>2. \A i \in 1 .. n : f[i] = ts[i].name
    OBVIOUS
  <2>. HIDE DEF f
  <2>. QED  BY <2>1, <2>2 DEF Injection, IsInjective
<1>. QED  BY <1>1, <1>4, <1>5 DEF Distinct, n

(* Two lists end to end have distinct names if each has, and none in       *)
(* common.                                                                 *)
LEMMA DistinctConcat ==
    ASSUME NEW S, NEW s \in Seq(S), NEW t \in Seq(S)
    PROVE  Distinct(s \o t) <=> /\ Distinct(s)
                                /\ Distinct(t)
                                /\ Names(s) \cap Names(t) = {}
<1>. DEFINE u == s \o t
            m == Len(s)
            n == Len(t)
<1>1. /\ u \in Seq(S)
      /\ Len(u) = m + n
      /\ \A i \in 1 .. m + n : u[i] = IF i <= m THEN s[i] ELSE t[i - m]
  BY ConcatProperties
<1>2. /\ m \in Nat /\ n \in Nat
      /\ DOMAIN s = 1 .. m
      /\ DOMAIN t = 1 .. n
      /\ DOMAIN u = 1 .. m + n
  BY <1>1, LenProperties
<1>3. /\ Distinct(u) <=> \A i, j \in 1 .. m + n : u[i].name = u[j].name => i = j
      /\ Distinct(s) <=> \A i, j \in 1 .. m : s[i].name = s[j].name => i = j
      /\ Distinct(t) <=> \A i, j \in 1 .. n : t[i].name = t[j].name => i = j
  BY <1>1, <1>2, DistinctNames
<1>. HIDE DEF u, m, n
<1>4. \A i \in 1 .. m : i \in 1 .. m + n /\ u[i] = s[i]
  BY <1>1, <1>2
<1>5. \A i \in 1 .. n : i + m \in 1 .. m + n /\ u[i + m] = t[i]
  <2>1. \A i \in 1 .. n : i + m \in 1 .. m + n /\ ~(i + m <= m) /\ (i + m) - m = i
    BY <1>2
  <2>. QED  BY <1>1, <2>1
<1>6. \A i \in 1 .. m + n : \/ i \in 1 .. m /\ u[i] = s[i]
                            \/ i - m \in 1 .. n /\ u[i] = t[i - m]
  BY <1>1, <1>2
<1>7. Names(s) \cap Names(t) = {} <=> \A i \in 1 .. m, j \in 1 .. n : s[i].name # t[j].name
  BY <1>2 DEF Names
<1>8. ASSUME Distinct(u)
      PROVE  Distinct(s) /\ Distinct(t) /\ Names(s) \cap Names(t) = {}
  <2>1. \A i, j \in 1 .. m : s[i].name = s[j].name => i = j
    BY <1>3, <1>4, <1>8
  <2>2. \A i, j \in 1 .. n : t[i].name = t[j].name => i = j
    <3>. SUFFICES ASSUME NEW i \in 1 .. n, NEW j \in 1 .. n, t[i].name = t[j].name
                  PROVE  i = j
      OBVIOUS
    <3>1. i + m = j + m
      BY <1>3, <1>5, <1>8
    <3>. QED  BY <1>2, <3>1
  <2>3. \A i \in 1 .. m, j \in 1 .. n : s[i].name # t[j].name
    <3>. SUFFICES ASSUME NEW i \in 1 .. m, NEW j \in 1 .. n, s[i].name = t[j].name
                  PROVE  FALSE
      OBVIOUS
    <3>1. i = j + m
      BY <1>3, <1>4, <1>5, <1>8
    <3>. QED  BY <1>2, <3>1
  <2>. QED  BY <1>3, <1>7, <2>1, <2>2, <2>3
<1>9. ASSUME Distinct(s), Distinct(t), Names(s) \cap Names(t) = {}
      PROVE  Distinct(u)
  <2>. SUFFICES ASSUME NEW i \in 1 .. m + n, NEW j \in 1 .. m + n, u[i].name = u[j].name
                PROVE  i = j
    BY <1>3
  <2>1. CASE i \in 1 .. m /\ j \in 1 .. m
    BY <1>3, <1>4, <1>9, <2>1
  <2>2. CASE i - m \in 1 .. n /\ u[i] = t[i - m] /\ j - m \in 1 .. n /\ u[j] = t[j - m]
    <3>1. i - m = j - m
      BY <1>3, <1>9, <2>2
    <3>. QED  BY <1>2, <3>1
  <2>3. CASE i \in 1 .. m /\ u[i] = s[i] /\ j - m \in 1 .. n /\ u[j] = t[j - m]
    BY <1>7, <1>9, <2>3
  <2>4. CASE j \in 1 .. m /\ u[j] = s[j] /\ i - m \in 1 .. n /\ u[i] = t[i - m]
    BY <1>7, <1>9, <2>4
  <2>. QED  BY <1>6, <2>1, <2>2, <2>3, <2>4
<1>. QED  BY <1>8, <1>9 DEF u

(* What a list has under a name.                                           *)
LEMMA TheOne ==
    ASSUME NEW S, NEW ts \in Seq(S), Distinct(ts)
    PROVE  /\ \A x \in Range(ts) : The(ts, x.name) = x
           /\ \A n \in Names(ts) : The(ts, n) \in Range(ts) /\ The(ts, n).name = n
<1>1. \A i, j \in DOMAIN ts : ts[i].name = ts[j].name => i = j
  BY DistinctNames
<1>2. \A i \in DOMAIN ts : (CHOOSE j \in DOMAIN ts : ts[j].name = ts[i].name) = i
  BY <1>1
<1>3. \A i \in DOMAIN ts : The(ts, ts[i].name) = ts[i]
  BY <1>2 DEF The
<1>. QED  BY <1>3 DEF Range, Names

----------------------------------------------------------------------------
(* The tensors of a capture and the names they are stored by.              *)

(* A capture save takes.                                                   *)
Taken(c) == CaptureAccepted(c) /\ Encodable(c)

(* The tensors of the model: the parameters, then the buffers.             *)
Model(c) == c.params \o c.buffers

(* The tensors in the order in which the components refer to them.         *)
Referring(c) == Model(c) \o c.optimizer \o c.slots \o c.scheduler \o c.scaler

(* The fields of an accepted capture.                                      *)
LEMMA CaptureTyped ==
    ASSUME NEW c, CaptureAccepted(c)
    PROVE  /\ c.params \in Seq(CapturedTensor) /\ c.buffers \in Seq(CapturedTensor)
           /\ c.optimizer \in Seq(CapturedTensor) /\ c.scheduler \in Seq(CapturedTensor)
           /\ c.scaler \in Seq(CapturedTensor) /\ c.slots \in Seq(CapturedTensor)
           /\ c.alias \in SUBSET SUBSET Nat
           /\ c.scalars = [optimizer |-> c.scalars.optimizer, scheduler |-> c.scalars.scheduler]
           /\ DescriptorAccepted(c.desc)
BY DEF CaptureAccepted, CaptureFields

(* The captured tensors and the parts they consist of: the model's tensors *)
(* share no name with those of another component.                          *)
LEMMA CapturedParts ==
    ASSUME NEW c, Taken(c)
    PROVE  /\ Captured(c) \in Seq(CapturedTensor)
           /\ Distinct(Captured(c))
           /\ Range(Captured(c)) =
                 Range(Model(c)) \cup Range(c.optimizer) \cup Range(c.scheduler)
                     \cup Range(c.scaler) \cup Range(c.slots)
           /\ Model(c) \in Seq(CapturedTensor)
           /\ Distinct(Model(c))
           /\ Range(Model(c)) = Range(c.params) \cup Range(c.buffers)
           /\ Names(c.optimizer) \cap Names(Model(c)) = {}
           /\ Names(c.scheduler) \cap Names(Model(c)) = {}
           /\ Names(c.scaler) \cap Names(Model(c)) = {}
           /\ Names(c.slots) \cap Names(Model(c)) = {}
           /\ Referring(c) \in Seq(CapturedTensor)
           /\ Distinct(Referring(c))
           /\ Range(Referring(c)) = Range(Captured(c))
<1>. DEFINE m == Model(c)
            o == c.optimizer
            d == c.scheduler
            a == c.scaler
            s == c.slots
            X == CapturedTensor
<1>1. /\ m \in Seq(X) /\ o \in Seq(X) /\ d \in Seq(X) /\ a \in Seq(X) /\ s \in Seq(X)
      /\ Range(m) = Range(c.params) \cup Range(c.buffers)
  <2>1. /\ c.params \in Seq(X) /\ c.buffers \in Seq(X)
        /\ o \in Seq(X) /\ d \in Seq(X) /\ a \in Seq(X) /\ s \in Seq(X)
    BY CaptureTyped DEF Taken
  <2>. HIDE DEF X
  <2>2. /\ c.params \o c.buffers \in Seq(X)
        /\ Range(c.params \o c.buffers) = Range(c.params) \cup Range(c.buffers)
    BY <2>1, RangeConcat
  <2>. QED  BY <2>1, <2>2 DEF Model
<1>2. Captured(c) = m \o o \o d \o a \o s
  BY DEF Captured, Model
<1>3. Referring(c) = m \o o \o s \o d \o a
  BY DEF Referring
<1>4. Distinct(Captured(c))
  BY DEF Taken, Encodable
<1>. HIDE DEF m, o, d, a, s, X
<1>. DEFINE mo == m \o o
            mod == mo \o d
            moda == mod \o a
            mos == mo \o s
            mosd == mos \o d
<1>5. /\ mo \in Seq(X)
      /\ Range(mo) = Range(m) \cup Range(o)
      /\ Names(mo) = Names(m) \cup Names(o)
  BY <1>1, RangeConcat, JoinedNames
<1>. HIDE DEF mo
<1>6. /\ mod \in Seq(X)
      /\ Range(mod) = Range(mo) \cup Range(d)
      /\ Names(mod) = Names(mo) \cup Names(d)
      /\ mos \in Seq(X)
      /\ Range(mos) = Range(mo) \cup Range(s)
      /\ Names(mos) = Names(mo) \cup Names(s)
  BY <1>1, <1>5, RangeConcat, JoinedNames
<1>. HIDE DEF mod, mos
<1>7. /\ moda \in Seq(X)
      /\ Range(moda) = Range(mod) \cup Range(a)
      /\ Names(moda) = Names(mod) \cup Names(a)
      /\ mosd \in Seq(X)
      /\ Range(mosd) = Range(mos) \cup Range(d)
      /\ Names(mosd) = Names(mos) \cup Names(d)
  BY <1>1, <1>6, RangeConcat, JoinedNames
<1>. HIDE DEF moda, mosd
<1>8. /\ moda \o s \in Seq(X)
      /\ Range(moda \o s) = Range(moda) \cup Range(s)
      /\ mosd \o a \in Seq(X)
      /\ Range(mosd \o a) = Range(mosd) \cup Range(a)
  BY <1>1, <1>7, RangeConcat
<1>9. /\ Distinct(moda)
      /\ Distinct(s)
      /\ Names(moda) \cap Names(s) = {}
  <2>1. Distinct(moda \o s)
    BY <1>2, <1>4 DEF moda, mod, mo
  <2>. QED  BY <1>1, <1>7, <2>1, DistinctConcat
<1>10. /\ Distinct(mod)
       /\ Distinct(a)
       /\ Names(mod) \cap Names(a) = {}
  <2>1. Distinct(mod \o a)
    BY <1>9 DEF moda
  <2>. QED  BY <1>1, <1>6, <2>1, DistinctConcat
<1>11. /\ Distinct(mo)
       /\ Distinct(d)
       /\ Names(mo) \cap Names(d) = {}
  <2>1. Distinct(mo \o d)
    BY <1>10 DEF mod
  <2>. QED  BY <1>1, <1>5, <2>1, DistinctConcat
<1>12. /\ Distinct(m)
       /\ Distinct(o)
       /\ Names(m) \cap Names(o) = {}
  <2>1. Distinct(m \o o)
    BY <1>11 DEF mo
  <2>. QED  BY <1>1, <2>1, DistinctConcat
<1>13. Distinct(mos)
  <2>1. Names(mo) \cap Names(s) = {}
    BY <1>6, <1>7, <1>9
  <2>. QED  BY <1>1, <1>5, <1>9, <1>11, <2>1, DistinctConcat DEF mos
<1>14. Distinct(mosd)
  <2>1. Names(mos) \cap Names(d) = {}
    BY <1>6, <1>7, <1>9, <1>11
  <2>. QED  BY <1>1, <1>6, <1>11, <1>13, <2>1, DistinctConcat DEF mosd
<1>15. Distinct(mosd \o a)
  <2>1. Names(mosd) \cap Names(a) = {}
    BY <1>6, <1>7, <1>9, <1>10
  <2>. QED  BY <1>1, <1>7, <1>10, <1>14, <2>1, DistinctConcat
<1>16. /\ Names(o) \cap Names(m) = {}
       /\ Names(d) \cap Names(m) = {}
       /\ Names(a) \cap Names(m) = {}
       /\ Names(s) \cap Names(m) = {}
  BY <1>5, <1>6, <1>7, <1>9, <1>10, <1>11, <1>12
<1>17. Captured(c) = moda \o s /\ Referring(c) = mosd \o a
  BY <1>2, <1>3 DEF mo, mod, moda, mos, mosd
<1>18. /\ Captured(c) \in Seq(X)
       /\ Referring(c) \in Seq(X)
       /\ Distinct(Referring(c))
       /\ Range(Captured(c)) = Range(m) \cup Range(o) \cup Range(d) \cup Range(a) \cup Range(s)
       /\ Range(Referring(c)) = Range(Captured(c))
  BY <1>5, <1>6, <1>7, <1>8, <1>15, <1>17
<1>. QED  BY <1>1, <1>4, <1>12, <1>16, <1>18 DEF m, o, d, a, s, X

(* Names of the captured tensors are numbers, finitely many.               *)
LEMMA CapturedNames ==
    ASSUME NEW c, Taken(c)
    PROVE  /\ IsFiniteSet(Names(Captured(c)))
           /\ Names(Captured(c)) \subseteq Nat
           /\ Names(Model(c)) \subseteq Names(Captured(c))
           /\ \A n \in Names(Captured(c)) : /\ The(Captured(c), n) \in Range(Captured(c))
                                            /\ The(Captured(c), n).name = n
           /\ \A t \in Range(Captured(c)) : /\ The(Captured(c), t.name) = t
                                            /\ t.name \in Names(Captured(c))
           /\ \A n \in Names(Model(c)) : The(Model(c), n) = The(Captured(c), n)
<1>1. IsFiniteSet(Names(Captured(c)))
  BY CapturedParts, DistinctNames
<1>2. Range(Captured(c)) \subseteq CapturedTensor
  <2>1. Captured(c) \in Seq(CapturedTensor)
    BY CapturedParts
  <2>2. \A i \in DOMAIN Captured(c) : Captured(c)[i] \in CapturedTensor
    BY <2>1, ElementOfSeq, LenProperties
  <2>. QED  BY <2>2 DEF Range
<1>3. Names(Captured(c)) \subseteq Nat
  BY <1>2, NamesRange DEF NamesIn, CapturedTensor
<1>4. Names(Model(c)) \subseteq Names(Captured(c))
  BY CapturedParts, NamesRange DEF NamesIn
<1>5. /\ \A n \in Names(Captured(c)) : /\ The(Captured(c), n) \in Range(Captured(c))
                                       /\ The(Captured(c), n).name = n
      /\ \A t \in Range(Captured(c)) : The(Captured(c), t.name) = t
  BY CapturedParts, TheOne
<1>6. \A t \in Range(Captured(c)) : t.name \in Names(Captured(c))
  BY NamesRange DEF NamesIn
<1>7. \A n \in Names(Model(c)) : The(Model(c), n) = The(Captured(c), n)
  <2>1. \A n \in Names(Model(c)) : The(Model(c), n) \in Range(Model(c)) /\ The(Model(c), n).name = n
    BY CapturedParts, TheOne
  <2>2. Range(Model(c)) \subseteq Range(Captured(c))
    BY CapturedParts
  <2>. QED  BY <1>5, <2>1, <2>2
<1>. QED  BY <1>1, <1>3, <1>4, <1>5, <1>6, <1>7

(* The names stored together are those of one alias group, of one tensor,  *)
(* and stay within the model.                                              *)
LEMMA Grouped ==
    ASSUME NEW c, Taken(c), NEW n \in Names(Captured(c))
    PROVE  /\ n \in Group(c, n)
           /\ Group(c, n) \subseteq Names(Captured(c))
           /\ \A m \in Group(c, n) : Group(c, m) = Group(c, n)
           /\ \A m \in Group(c, n) :
                 /\ The(Captured(c), m).shape = The(Captured(c), n).shape
                 /\ The(Captured(c), m).dtype = The(Captured(c), n).dtype
                 /\ The(Captured(c), m).data = The(Captured(c), n).data
           /\ n \in Names(Model(c)) => Group(c, n) \subseteq Names(Model(c))
           /\ n \notin Names(Model(c)) => Group(c, n) = {n}
           /\ Min(Group(c, n)) \in Group(c, n)
<1>. DEFINE Same(m) == /\ The(Captured(c), m).shape = The(Captured(c), n).shape
                       /\ The(Captured(c), m).dtype = The(Captured(c), n).dtype
                       /\ The(Captured(c), m).data = The(Captured(c), n).data
<1>0. AliasesAgree(c)
  BY DEF Taken, CaptureAccepted
<1>1. /\ \A g \in c.alias : g \subseteq Names(Model(c))
      /\ \A g, h \in c.alias : g # h => g \cap h = {}
  BY <1>0 DEF AliasesAgree, Model
<1>2. \A g \in c.alias : \A m, k \in g :
         /\ The(Model(c), m).shape = The(Model(c), k).shape
         /\ The(Model(c), m).dtype = The(Model(c), k).dtype
         /\ The(Model(c), m).data = The(Model(c), k).data
  BY <1>0 DEF AliasesAgree, Model, Kind
<1>3. \A m \in Names(Model(c)) : The(Model(c), m) = The(Captured(c), m) /\ m \in Names(Captured(c))
  BY CapturedNames
<1>4. CASE n \in UNION c.alias
  <2>1. PICK g \in c.alias : n \in g
    BY <1>4
  <2>2. \A m \in g : Group(c, m) = g
    <3>1. \A m \in g, h \in c.alias : m \in h <=> h = g
      BY <1>1
    <3>2. \A m \in g : m \in UNION c.alias /\ (CHOOSE h \in c.alias : m \in h) = g
      BY <3>1
    <3>. QED  BY <3>2 DEF Group
  <2>3. \A m \in g : Same(m)
    BY <1>1, <1>2, <1>3, <2>1
  <2>4. g \subseteq Names(Model(c)) /\ g \subseteq Names(Captured(c))
    BY <1>1, <1>3
  <2>5. Min(g) \in g
    BY <2>1, <2>4, Least, CapturedNames
  <2>. QED  BY <2>1, <2>2, <2>3, <2>4, <2>5
<1>5. CASE n \notin UNION c.alias
  <2>1. Group(c, n) = {n}
    BY <1>5 DEF Group
  <2>2. Min({n}) \in {n}
    BY CapturedNames, Least
  <2>. QED  BY <2>1, <2>2
<1>. QED  BY <1>4, <1>5

(* The name that stands for the names stored with n.                       *)
Leader(c, n) == Min(Group(c, n))

(* Each stored name stands for its group, and each captured name is stood  *)
(* for by exactly one.                                                     *)
LEMMA Stores ==
    ASSUME NEW c, Taken(c)
    PROVE  /\ Storage(c) \subseteq Names(Captured(c))
           /\ IsFiniteSet(Storage(c))
           /\ Cardinality(Storage(c)) \in Nat
           /\ \A n \in Names(Captured(c)) : Leader(c, n) \in Storage(c)
           /\ \A s \in Storage(c) : Leader(c, s) = s
           /\ \A n \in Names(Captured(c)), s \in Storage(c) : Leader(c, n) = s <=> n \in Group(c, s)
<1>1. \A n \in Names(Captured(c)) : /\ Leader(c, n) \in Group(c, n)
                                    /\ Group(c, n) \subseteq Names(Captured(c))
                                    /\ \A m \in Group(c, n) : Group(c, m) = Group(c, n)
                                    /\ n \in Group(c, n)
  BY Grouped DEF Leader
<1>2. Storage(c) = {Leader(c, n) : n \in Names(Captured(c))}
  BY DEF Storage, Leader
<1>3. Storage(c) \subseteq Names(Captured(c))
  BY <1>1, <1>2
<1>4. IsFiniteSet(Storage(c)) /\ Cardinality(Storage(c)) \in Nat
  BY <1>3, CapturedNames, FS_Subset, FS_CardinalityType
<1>5. \A s \in Storage(c) : Leader(c, s) = s
  <2>. SUFFICES ASSUME NEW n \in Names(Captured(c)) PROVE Leader(c, Leader(c, n)) = Leader(c, n)
    BY <1>2
  <2>1. Group(c, Leader(c, n)) = Group(c, n)
    BY <1>1
  <2>. QED  BY <2>1 DEF Leader
<1>6. \A n \in Names(Captured(c)), s \in Storage(c) : Leader(c, n) = s => n \in Group(c, s)
  BY <1>1
<1>7. \A n \in Names(Captured(c)), s \in Storage(c) : n \in Group(c, s) => Leader(c, n) = s
  <2>. SUFFICES ASSUME NEW n \in Names(Captured(c)), NEW s \in Storage(c), n \in Group(c, s)
                PROVE  Leader(c, n) = s
    OBVIOUS
  <2>1. Group(c, n) = Group(c, s)
    BY <1>1, <1>3
  <2>2. Leader(c, n) = Leader(c, s)
    BY <2>1 DEF Leader
  <2>. QED  BY <1>5, <2>2
<1>. QED  BY <1>2, <1>3, <1>4, <1>5, <1>6, <1>7

(* The index numbers the stored tensors from zero.                         *)
LEMMA Indexed ==
    ASSUME NEW c, Taken(c)
    PROVE  LET T == Cardinality(Storage(c))
           IN  /\ \A s \in Storage(c) : Index(c, s) \in 0 .. T - 1
               /\ \A s, t \in Storage(c) : Index(c, s) = Index(c, t) => s = t
               /\ \A k \in 0 .. T - 1 : \E s \in Storage(c) : Index(c, s) = k
               /\ \A n \in Names(Captured(c)) : Index(c, n) = Index(c, Leader(c, n))
<1>. DEFINE S == Storage(c)
            T == Cardinality(S)
            Below(s) == {t \in S : t < s}
<1>1. /\ IsFiniteSet(S)
      /\ T \in Nat
      /\ S \subseteq Nat
      /\ \A s \in S : Leader(c, s) = s
      /\ \A n \in Names(Captured(c)) : Leader(c, n) \in S
  BY Stores, CapturedNames
<1>2. \A n \in Names(Captured(c)) : Index(c, n) = Cardinality(Below(Leader(c, n)))
  BY DEF Index, Leader
<1>3. \A s \in S : Index(c, s) = Cardinality(Below(s))
  BY <1>1, <1>2, Stores
<1>4. \A n \in Names(Captured(c)) : Index(c, n) = Index(c, Leader(c, n))
  BY <1>1, <1>2, <1>3
<1>. HIDE DEF S, T
<1>5. \A s \in S : IsFiniteSet(Below(s)) /\ Cardinality(Below(s)) \in Nat
  <2>1. \A s \in S : IsFiniteSet(Below(s))
    BY <1>1, FS_Subset
  <2>. HIDE DEF Below
  <2>. QED  BY <2>1, FS_CardinalityType
<1>6. \A s \in S : Cardinality(Below(s)) \in 0 .. T - 1
  <2>. SUFFICES ASSUME NEW s \in S PROVE Cardinality(Below(s)) \in 0 .. T - 1
    OBVIOUS
  <2>1. s \notin Below(s) /\ Below(s) \in SUBSET S
    BY <1>1
  <2>2. Cardinality(Below(s)) <= T /\ Cardinality(Below(s)) # T
    <3>. HIDE DEF Below
    <3>. QED  BY <1>1, <2>1, FS_Subset DEF T
  <2>. HIDE DEF Below
  <2>. QED  BY <1>1, <1>5, <2>2
<1>7. \A s, t \in S : s < t => Cardinality(Below(s)) # Cardinality(Below(t))
  <2>. SUFFICES ASSUME NEW s \in S, NEW t \in S, s < t
                PROVE  Cardinality(Below(s)) # Cardinality(Below(t))
    OBVIOUS
  <2>1. Below(s) \in SUBSET Below(t) /\ s \in Below(t) /\ s \notin Below(s)
    <3>1. \A u \in S : u < s => u < t
      BY <1>1
    <3>2. ~ (s < s)
      BY <1>1
    <3>3. Below(s) \in SUBSET Below(t)
      BY <3>1
    <3>. QED  BY <3>2, <3>3
  <2>. HIDE DEF Below
  <2>2. IsFiniteSet(Below(t))
    BY <1>5
  <2>. QED  BY <2>1, <2>2, FS_Subset
<1>8. \A s, t \in S : Index(c, s) = Index(c, t) => s = t
  <2>. SUFFICES ASSUME NEW s \in S, NEW t \in S, Index(c, s) = Index(c, t) PROVE s = t
    OBVIOUS
  <2>1. ~(s < t) /\ ~(t < s)
    BY <1>3, <1>7
  <2>. QED  BY <1>1, <2>1
<1>9. \A k \in 0 .. T - 1 : \E s \in S : Index(c, s) = k
  <2>. DEFINE f == [s \in S |-> Index(c, s)]
  <2>1. f \in Injection(S, 0 .. T - 1)
    BY <1>3, <1>6, <1>8 DEF Injection, IsInjective
  <2>2. IsFiniteSet(0 .. T - 1) /\ Cardinality(0 .. T - 1) = T
    BY <1>1, FS_Interval
  <2>3. f \in Surjection(S, 0 .. T - 1)
    <3>. HIDE DEF f
    <3>. QED  BY <2>1, <2>2, FS_Injection DEF T
  <2>4. \A k \in 0 .. T - 1 : \E s \in S : f[s] = k
    BY <2>3 DEF Surjection
  <2>. QED  BY <2>4
<1>. QED  BY <1>3, <1>4, <1>6, <1>8, <1>9 DEF S, T

----------------------------------------------------------------------------
(* The layout of an archive.                                               *)

(* Two lists end to end, place by place.                                   *)
LEMMA ListJoin ==
    ASSUME NEW s, NEW t, IsList(s), IsList(t)
    PROVE  /\ IsList(s \o t)
           /\ Len(s) \in Nat /\ Len(t) \in Nat
           /\ Len(s \o t) = Len(s) + Len(t)
           /\ \A i \in 1 .. Len(s) : (s \o t)[i] = s[i]
           /\ \A i \in 1 .. Len(t) : (s \o t)[Len(s) + i] = t[i]
<1>. DEFINE S == Range(s) \cup Range(t)
            u == s \o t
            m == Len(s)
            n == Len(t)
<1>1. s \in Seq(S) /\ t \in Seq(S)
  BY SeqMonotonic DEF IsList
<1>. HIDE DEF S
<1>2. m \in Nat /\ n \in Nat
  BY <1>1, LenProperties
<1>3. /\ Len(u) = m + n
      /\ \A i \in 1 .. m + n : u[i] = IF i <= m THEN s[i] ELSE t[i - m]
  BY <1>1, ConcatProperties
<1>4. IsList(u)
  BY ListConcat
<1>. HIDE DEF u, m, n
<1>5. \A i \in 1 .. m : u[i] = s[i]
  BY <1>2, <1>3
<1>6. \A i \in 1 .. n : u[m + i] = t[i]
  <2>1. \A i \in 1 .. n : m + i \in 1 .. m + n /\ ~(m + i <= m) /\ (m + i) - m = i
    BY <1>2
  <2>. QED  BY <1>3, <2>1
<1>. QED  BY <1>2, <1>3, <1>4, <1>5, <1>6 DEF u, m, n

(* The required components, with and without the optional one behind them. *)
LEMMA Nine ==
    ASSUME NEW x1, NEW x2, NEW x3, NEW x4, NEW x5, NEW x6, NEW x7, NEW x8, NEW x9, NEW y
    PROVE  LET n == <<x1, x2, x3, x4, x5, x6, x7, x8, x9>>
               m == n \o <<y>>
           IN  /\ IsList(n) /\ Len(n) = 9 /\ n \o <<>> = n
               /\ IsList(m) /\ Len(m) = 10 /\ m[10] = y
               /\ \A i \in 1 .. 9 : m[i] = n[i]
<1>. DEFINE n == <<x1, x2, x3, x4, x5, x6, x7, x8, x9>>
            one == <<y>>
<1>1. n = [i \in 1 .. 9 |-> n[i]]
  OBVIOUS
<1>2. one = [i \in 1 .. 1 |-> one[i]] /\ one[1] = y
  OBVIOUS
<1>. HIDE DEF n, one
<1>3. IsList(n) /\ Len(n) = 9 /\ IsList(one) /\ Len(one) = 1
  BY <1>1, <1>2, ListOf
<1>4. n \o <<>> = n
  BY <1>3, ConcatEmptySeq DEF IsList
<1>. QED  BY <1>2, <1>3, <1>4, ListJoin DEF n, one

(* The archive of a manifest: the order in which its members are laid out. *)
Laid(ms, m) ==
    /\ IsList(ms)
    /\ Len(m.components) \in {Required, Required + 1}
    /\ DOMAIN m.components = 1 .. Len(m.components)
    /\ Len(m.tensors) \in Nat
    /\ DOMAIN m.tensors = 1 .. Len(m.tensors)
    /\ Len(ms) = 1 + Len(m.components) + Len(m.tensors)
    /\ ms[1] = Member(ManifestName, ManifestSize(m), m)
    /\ \A k \in 1 .. Len(m.components) : ms[1 + k] = Member(StateName(k), 1, m.components[k])
    /\ \A i \in 1 .. Len(m.tensors) :
          /\ m.tensors[i].name = TensorName(i - 1)
          /\ ms[1 + Len(m.components) + i]
                = Member(TensorName(i - 1), m.tensors[i].size, m.tensors[i].data)

(* The names of members.                                                   *)
LEMMA MemberNames ==
    /\ ManifestName[1] = 0
    /\ \A k : StateName(k)[1] = 1
    /\ \A k : TensorName(k)[1] = 2
    /\ \A j, k : StateName(j) = StateName(k) => j = k
    /\ \A j, k : TensorName(j) = TensorName(k) => j = k
    /\ \A j, k : StateName(j) # TensorName(k)
    /\ \A k : ManifestName # StateName(k) /\ ManifestName # TensorName(k)
BY DEF ManifestName, StateName, TensorName

(* The name of each member so laid out.                                    *)
LEMMA LaidNames ==
    ASSUME NEW ms, NEW m, Laid(ms, m)
    PROVE  LET K == Len(m.components)
               T == Len(m.tensors)
           IN  /\ K \in Nat /\ T \in Nat
               /\ DOMAIN ms = 1 .. 1 + K + T
               /\ \A j \in DOMAIN ms : ms[j].canonical = TRUE
               /\ \A j \in DOMAIN ms :
                     ms[j].name = IF j = 1 THEN ManifestName
                                  ELSE IF j <= 1 + K THEN StateName(j - 1)
                                  ELSE TensorName(j - 2 - K)
<1>. DEFINE K == Len(m.components)
            T == Len(m.tensors)
<1>1. K \in Nat /\ T \in Nat /\ DOMAIN ms = 1 .. 1 + K + T
  BY LenProperties DEF Laid, IsList, Required
<1>2. /\ ms[1] = Member(ManifestName, ManifestSize(m), m)
      /\ \A k \in 1 .. K : ms[1 + k] = Member(StateName(k), 1, m.components[k])
      /\ \A i \in 1 .. T : ms[1 + K + i]
            = Member(TensorName(i - 1), m.tensors[i].size, m.tensors[i].data)
  BY DEF Laid
<1>3. \A n, z, d : Member(n, z, d).name = n /\ Member(n, z, d).canonical = TRUE
  BY DEF Member
<1>. HIDE DEF K, T
<1>4. ASSUME NEW j \in DOMAIN ms
      PROVE  /\ ms[j].canonical = TRUE
             /\ ms[j].name = IF j = 1 THEN ManifestName
                             ELSE IF j <= 1 + K THEN StateName(j - 1)
                             ELSE TensorName(j - 2 - K)
  <2>1. CASE j = 1
    BY <1>2, <1>3, <2>1
  <2>2. CASE j # 1 /\ j <= 1 + K
    <3>1. j - 1 \in 1 .. K /\ 1 + (j - 1) = j
      BY <1>1, <1>4, <2>2
    <3>. QED  BY <1>2, <1>3, <2>2, <3>1
  <2>3. CASE j # 1 /\ ~ (j <= 1 + K)
    <3>1. j - 1 - K \in 1 .. T /\ 1 + K + (j - 1 - K) = j /\ (j - 1 - K) - 1 = j - 2 - K
      BY <1>1, <1>4, <2>3
    <3>. QED  BY <1>2, <1>3, <2>3, <3>1
  <2>. QED  BY <2>1, <2>2, <2>3
<1>. QED  BY <1>1, <1>4 DEF K, T

(* No two members so laid out have the same name.                          *)
LEMMA LaidDistinct ==
    ASSUME NEW ms, NEW m, Laid(ms, m)
    PROVE  Distinct(ms)
<1>. DEFINE K == Len(m.components)
            T == Len(m.tensors)
<1>1. ms \in Seq(Range(ms))
  BY DEF Laid, IsList
<1>2. /\ K \in Nat /\ T \in Nat
      /\ DOMAIN ms = 1 .. 1 + K + T
      /\ \A j \in DOMAIN ms :
            ms[j].name = IF j = 1 THEN ManifestName
                         ELSE IF j <= 1 + K THEN StateName(j - 1)
                         ELSE TensorName(j - 2 - K)
  BY LaidNames
<1>. HIDE DEF K, T
<1>3. ASSUME NEW i \in DOMAIN ms, NEW j \in DOMAIN ms, ms[i].name = ms[j].name
      PROVE  i = j
  <2>1. CASE i = 1 \/ j = 1
    BY <1>2, <1>3, <2>1, MemberNames
  <2>2. CASE i # 1 /\ j # 1 /\ i <= 1 + K /\ j <= 1 + K
    <3>1. i - 1 = j - 1
      BY <1>2, <1>3, <2>2, MemberNames
    <3>. QED  BY <1>2, <3>1
  <2>3. CASE i # 1 /\ j # 1 /\ ~(i <= 1 + K) /\ ~(j <= 1 + K)
    <3>1. i - 2 - K = j - 2 - K
      BY <1>2, <1>3, <2>3, MemberNames
    <3>. QED  BY <1>2, <3>1
  <2>4. CASE i # 1 /\ j # 1 /\ (i <= 1 + K) # (j <= 1 + K)
    BY <1>2, <1>3, <2>4, MemberNames
  <2>. QED  BY <2>1, <2>2, <2>3, <2>4
<1>. QED  BY <1>1, <1>3, DistinctNames

(* The phases of an archive so laid out, and the place of each member in   *)
(* its phase.                                                              *)
LEMMA LaidPlaces ==
    ASSUME NEW ms, NEW m, Laid(ms, m)
    PROVE  LET K == Len(m.components)
               T == Len(m.tensors)
           IN  /\ Phase(ms, 0) = {1}
               /\ Phase(ms, 1) = 2 .. 1 + K
               /\ Phase(ms, 2) = 2 + K .. 1 + K + T
               /\ \A j \in Phase(ms, 1) : Place(ms, j) = j - 1
               /\ \A j \in Phase(ms, 2) : Place(ms, j) = j - 1 - K
<1>. DEFINE K == Len(m.components)
            T == Len(m.tensors)
<1>1. /\ K \in Nat /\ T \in Nat
      /\ DOMAIN ms = 1 .. 1 + K + T
      /\ \A j \in DOMAIN ms :
            ms[j].name = IF j = 1 THEN ManifestName
                         ELSE IF j <= 1 + K THEN StateName(j - 1)
                         ELSE TensorName(j - 2 - K)
  BY LaidNames
<1>. HIDE DEF K, T
<1>2. \A j \in DOMAIN ms : ms[j].name[1] = IF j = 1 THEN 0 ELSE IF j <= 1 + K THEN 1 ELSE 2
  BY <1>1, MemberNames
<1>3. Phase(ms, 0) = {1}
  BY <1>1, <1>2 DEF Phase
<1>4. Phase(ms, 1) = 2 .. 1 + K
  BY <1>1, <1>2 DEF Phase
<1>5. Phase(ms, 2) = 2 + K .. 1 + K + T
  BY <1>1, <1>2 DEF Phase
<1>6. ASSUME NEW j \in Phase(ms, 1) PROVE Place(ms, j) = j - 1
  <2>1. ms[j].name[1] = 1
    BY DEF Phase
  <2>2. {i \in Phase(ms, 1) : i <= j} = 2 .. j
    BY <1>1, <1>4
  <2>3. j \in Int /\ j >= 2
    BY <1>1, <1>4
  <2>4. Cardinality(2 .. j) = j - 1
    BY <2>3, FS_Interval
  <2>. QED  BY <2>1, <2>2, <2>4 DEF Place
<1>7. ASSUME NEW j \in Phase(ms, 2) PROVE Place(ms, j) = j - 1 - K
  <2>1. ms[j].name[1] = 2
    BY DEF Phase
  <2>2. {i \in Phase(ms, 2) : i <= j} = 2 + K .. j
    BY <1>1, <1>5
  <2>3. j \in Int /\ j >= 2 + K
    BY <1>1, <1>5
  <2>4. Cardinality(2 + K .. j) = j - 1 - K
    BY <1>1, <2>3, FS_Interval
  <2>. QED  BY <2>1, <2>2, <2>4 DEF Place
<1>. QED  BY <1>3, <1>4, <1>5, <1>6, <1>7 DEF K, T

(* The tensors of an archive so laid out take what the manifest lists.     *)
LEMMA LaidTensorBytes ==
    ASSUME NEW ms, NEW m, Laid(ms, m)
    PROVE  TensorBytes(ms) = TensorBytes(m.tensors)
<1>. DEFINE K == Len(m.components)
            T == Len(m.tensors)
            ts == m.tensors
            Those(s) == {n \in Names(s) : n[1] = 2}
            N == {TensorName(i - 1) : i \in 1 .. T}
<1>1. /\ K \in Nat /\ T \in Nat
      /\ DOMAIN ms = 1 .. 1 + K + T
      /\ DOMAIN ts = 1 .. T
      /\ \A j \in DOMAIN ms :
            ms[j].name = IF j = 1 THEN ManifestName
                         ELSE IF j <= 1 + K THEN StateName(j - 1)
                         ELSE TensorName(j - 2 - K)
      /\ \A i \in 1 .. T :
            /\ ts[i].name = TensorName(i - 1)
            /\ ms[1 + K + i] = Member(TensorName(i - 1), ts[i].size, ts[i].data)
  <2>1. /\ K \in Nat /\ T \in Nat
        /\ DOMAIN ms = 1 .. 1 + K + T
        /\ \A j \in DOMAIN ms :
              ms[j].name = IF j = 1 THEN ManifestName
                           ELSE IF j <= 1 + K THEN StateName(j - 1)
                           ELSE TensorName(j - 2 - K)
    BY LaidNames
  <2>2. DOMAIN ts = 1 .. T
    BY DEF Laid
  <2>3. \A i \in 1 .. T :
           /\ ts[i].name = TensorName(i - 1)
           /\ ms[1 + K + i] = Member(TensorName(i - 1), ts[i].size, ts[i].data)
    BY Zenon DEF Laid
  <2>. QED  BY <2>1, <2>2, <2>3
<1>. HIDE DEF K, T, ts
<1>2. \A i \in 1 .. T : /\ 1 + K + i \in DOMAIN ms
                        /\ ms[1 + K + i].name = TensorName(i - 1)
                        /\ ms[1 + K + i].size = ts[i].size
  <2>1. \A i \in 1 .. T : 1 + K + i \in DOMAIN ms
    BY <1>1
  <2>2. \A n, z, d : Member(n, z, d).name = n /\ Member(n, z, d).size = z
    BY DEF Member
  <2>. QED  BY <1>1, <2>1, <2>2
<1>3. Those(ms) = N
  <2>1. N \subseteq Those(ms)
    BY <1>2, MemberNames DEF Names
  <2>2. ASSUME NEW j \in DOMAIN ms, ms[j].name[1] = 2 PROVE ms[j].name \in N
    <3>1. ~(j <= 1 + K) /\ j # 1
      BY <1>1, <2>2, MemberNames
    <3>2. j - 1 - K \in 1 .. T /\ (j - 1 - K) - 1 = j - 2 - K
      BY <1>1, <2>2, <3>1
    <3>3. ms[j].name = TensorName((j - 1 - K) - 1)
      BY <1>1, <3>1, <3>2
    <3>. QED  BY <3>2, <3>3
  <2>3. Those(ms) \subseteq N
    BY <2>2 DEF Names
  <2>. QED  BY <2>1, <2>3
<1>4. Those(ts) = N
  <2>1. \A i \in 1 .. T : i \in DOMAIN ts /\ ts[i].name = TensorName(i - 1)
    BY <1>1
  <2>2. N \subseteq Names(ts)
    BY <2>1 DEF Names
  <2>3. Names(ts) \subseteq N
    BY <1>1, <2>1 DEF Names
  <2>4. Names(ts) = N
    BY <2>2, <2>3
  <2>. QED  BY <2>4, MemberNames
<1>5. ASSUME NEW i \in 1 .. T
      PROVE  The(ms, TensorName(i - 1)).size = The(ts, TensorName(i - 1)).size
  <2>1. \A j, k \in DOMAIN ms : ms[j].name = ms[k].name => j = k
    <3>1. ms \in Seq(Range(ms))
      BY DEF Laid, IsList
    <3>. QED  BY <3>1, LaidDistinct, DistinctNames
  <2>2. (CHOOSE j \in DOMAIN ms : ms[j].name = TensorName(i - 1)) = 1 + K + i
    BY <1>2, <2>1
  <2>3. \A j \in DOMAIN ts : ts[j].name = TensorName(i - 1) => j = i
    <3>. SUFFICES ASSUME NEW j \in 1 .. T, ts[j].name = TensorName(i - 1) PROVE j = i
      BY <1>1
    <3>1. j - 1 = i - 1
      BY <1>1, MemberNames
    <3>. QED  BY <3>1, <1>1
  <2>4. (CHOOSE j \in DOMAIN ts : ts[j].name = TensorName(i - 1)) = i
    BY <1>1, <2>3
  <2>5. The(ms, TensorName(i - 1)) = ms[1 + K + i] /\ The(ts, TensorName(i - 1)) = ts[i]
    BY <2>2, <2>4 DEF The
  <2>. QED  BY <1>2, <2>5
<1>6. \A n \in N : The(ms, n).size = The(ts, n).size
  BY <1>5
<1>. HIDE DEF N
<1>7. [n \in Those(ms) |-> The(ms, n).size] = [n \in Those(ts) |-> The(ts, n).size]
  <2>. HIDE DEF Those
  <2>. QED  BY <1>3, <1>4, <1>6
<1>. QED  BY <1>7 DEF TensorBytes, ts

(* The parser takes an archive so laid out unless it is beyond a limit.    *)
LEMMA LaidParses ==
    ASSUME NEW ms, NEW m, Laid(ms, m), Len(m.tensors) <= MaxTensors
    PROVE  /\ ManifestFirst(WriteArchive(ms))
           /\ ManifestData(WriteArchive(ms)) = m
           /\ Parses(WriteArchive(ms))
                 <=> /\ SizeAccepted(WriteArchive(ms))
                     /\ TensorsAccepted(m.tensors)
                     /\ 1 + Len(m.components) + Len(m.tensors) <= MaxMembers
<1>. DEFINE K == Len(m.components)
            T == Len(m.tensors)
            file == WriteArchive(ms)
<1>0. /\ file.members = ms
      /\ file.zeros = 2
      /\ file.trailing = FALSE
  BY DEF WriteArchive
<1>. HIDE DEF file
<1>1. /\ K \in {Required, Required + 1}
      /\ T \in Nat
      /\ Len(ms) = 1 + K + T
      /\ ms[1] = Member(ManifestName, ManifestSize(m), m)
  BY DEF Laid
<1>2. /\ K \in Nat
      /\ DOMAIN ms = 1 .. 1 + K + T
      /\ \A j \in DOMAIN ms : ms[j].canonical = TRUE
      /\ \A j \in DOMAIN ms :
            ms[j].name = IF j = 1 THEN ManifestName
                         ELSE IF j <= 1 + K THEN StateName(j - 1)
                         ELSE TensorName(j - 2 - K)
  BY LaidNames
<1>3. /\ Phase(ms, 0) = {1}
      /\ Phase(ms, 1) = 2 .. 1 + K
      /\ Phase(ms, 2) = 2 + K .. 1 + K + T
      /\ \A j \in Phase(ms, 1) : Place(ms, j) = j - 1
      /\ \A j \in Phase(ms, 2) : Place(ms, j) = j - 1 - K
  BY LaidPlaces
<1>. HIDE DEF K, T
<1>4. ms # <<>>
  BY <1>1, <1>2
<1>5. ManifestFirst(file) /\ ManifestData(file) = m
  BY <1>0, <1>1, <1>4 DEF ManifestFirst, ManifestData, Member
<1>6. OrderAccepted(ms)
  <2>1. \A i \in DOMAIN ms : ms[i].name[1] \in 0 .. 2
    <3>1. \A i \in DOMAIN ms : ms[i].name[1] \in {0, 1, 2}
      BY <1>2, MemberNames
    <3>. QED  BY <3>1
  <2>2. Cardinality(Phase(ms, 0)) = 1
    BY <1>3, FS_Singleton
  <2>3. Cardinality(2 .. 1 + K) = K
    BY <1>2, FS_Interval
  <2>4. Cardinality(2 + K .. 1 + K + T) = T
    BY <1>1, <1>2, FS_Interval
  <2>5. \A i \in Phase(ms, 1) : ms[i].name = StateName(Place(ms, i))
    <3>1. \A i \in 2 .. 1 + K : i \in DOMAIN ms /\ i # 1 /\ i <= 1 + K
      BY <1>1, <1>2
    <3>. QED  BY <1>2, <1>3, <3>1
  <2>6. \A i \in Phase(ms, 2), j \in Phase(ms, 1) : ~(1 < i /\ i < j)
    BY <1>1, <1>2, <1>3
  <2>7. \A i \in Phase(ms, 2) : ms[i].name = TensorName(Place(ms, i) - 1)
    <3>. SUFFICES ASSUME NEW i \in 2 + K .. 1 + K + T
                  PROVE  ms[i].name = TensorName(Place(ms, i) - 1)
      BY <1>3
    <3>1. i \in DOMAIN ms /\ i # 1 /\ ~(i <= 1 + K) /\ i - 2 - K = (i - 1 - K) - 1
      BY <1>1, <1>2
    <3>2. ms[i].name = TensorName(i - 2 - K)
      BY <1>2, <3>1
    <3>3. Place(ms, i) = i - 1 - K
      BY <1>3
    <3>. QED  BY <3>1, <3>2, <3>3
  <2>8. T <= MaxTensors
    BY DEF T
  <2>. QED  BY <1>1, <1>3, <2>1, <2>2, <2>3, <2>4, <2>5, <2>6, <2>7, <2>8 DEF OrderAccepted
<1>7. TensorsAccepted(ms) <=> TensorsAccepted(m.tensors)
  BY LaidTensorBytes DEF TensorsAccepted
<1>8. Parses(file) <=> SizeAccepted(file) /\ TensorsAccepted(m.tensors) /\ 1 + K + T <= MaxMembers
  BY <1>0, <1>1, <1>2, <1>6, <1>7, LaidDistinct DEF Parses, HeaderAccepted
<1>. QED  BY <1>5, <1>8 DEF file, K, T

(* What stands under a name behind the manifest.                           *)
LEMMA LaidAuthentic ==
    ASSUME NEW ms, NEW m, Laid(ms, m)
    PROVE  /\ Authentic(WriteArchive(ms))
           /\ \A i \in 1 .. Len(m.tensors) : The(ms, TensorName(i - 1)).data = m.tensors[i].data
<1>. DEFINE K == Len(m.components)
            T == Len(m.tensors)
            file == WriteArchive(ms)
            rest == Tail(file.members)
            Under(n) == rest[CHOOSE i \in DOMAIN rest : rest[i].name = n]
<1>0. file.members = ms /\ ManifestData(file) = m
  <2>1. file.members = ms /\ ms[1] = Member(ManifestName, ManifestSize(m), m)
    BY DEF WriteArchive, Laid
  <2>. QED  BY <2>1 DEF ManifestData, Member
<1>. HIDE DEF file
<1>1. /\ ms \in Seq(Range(ms))
      /\ K \in Nat /\ T \in Nat
      /\ Len(ms) = 1 + K + T
      /\ DOMAIN m.components = 1 .. K
      /\ DOMAIN m.tensors = 1 .. T
      /\ \A k \in 1 .. K : ms[1 + k] = Member(StateName(k), 1, m.components[k])
      /\ \A i \in 1 .. T :
            /\ m.tensors[i].name = TensorName(i - 1)
            /\ ms[1 + K + i] = Member(TensorName(i - 1), m.tensors[i].size, m.tensors[i].data)
  BY LaidNames DEF Laid, IsList
<1>. HIDE DEF K, T
<1>2. ms # <<>>
  BY <1>1
<1>3. /\ rest \in Seq(Range(ms))
      /\ Len(rest) = K + T
      /\ \A i \in 1 .. K + T : rest[i] = ms[i + 1]
  <2>1. /\ rest \in Seq(Range(ms))
        /\ Len(rest) = Len(ms) - 1
        /\ \A i \in 1 .. Len(rest) : rest[i] = ms[i + 1]
    BY <1>0, <1>1, <1>2, HeadTailProperties
  <2>. HIDE DEF rest
  <2>2. Len(ms) - 1 = K + T
    BY <1>1
  <2>. QED  BY <2>1, <2>2
<1>4. DOMAIN rest = 1 .. K + T
  BY <1>3, LenProperties
<1>. HIDE DEF rest
<1>5. \A k \in 1 .. K : k \in DOMAIN rest /\ rest[k] = Member(StateName(k), 1, m.components[k])
  <2>1. \A k \in 1 .. K : k \in 1 .. K + T /\ 1 + k = k + 1
    BY <1>1
  <2>. QED  BY <1>1, <1>3, <1>4, <2>1
<1>6. \A i \in 1 .. T :
         /\ K + i \in DOMAIN rest
         /\ rest[K + i] = Member(TensorName(i - 1), m.tensors[i].size, m.tensors[i].data)
  <2>1. \A i \in 1 .. T : K + i \in 1 .. K + T /\ 1 + K + i = (K + i) + 1
    BY <1>1
  <2>. QED  BY <1>1, <1>3, <1>4, <2>1
<1>7. \A j \in DOMAIN rest : j \in 1 .. K \/ (j - K \in 1 .. T /\ K + (j - K) = j)
  BY <1>1, <1>4
<1>8. \A n, z, d : /\ Member(n, z, d).name = n
                   /\ Member(n, z, d).size = z
                   /\ Member(n, z, d).data = d
  BY DEF Member
<1>9. Names(rest) = {StateName(k) : k \in DOMAIN m.components} \cup Names(m.tensors)
  <2>1. \A k \in 1 .. K : rest[k].name = StateName(k)
    BY <1>5, <1>8
  <2>2. \A i \in 1 .. T : rest[K + i].name = m.tensors[i].name
    <3>1. \A i \in 1 .. T : m.tensors[i].name = TensorName(i - 1)
      BY <1>1
    <3>2. \A i \in 1 .. T : rest[K + i].name = TensorName(i - 1)
      BY <1>6, <1>8
    <3>. QED  BY <3>1, <3>2
  <2>3. Names(rest) \subseteq {StateName(k) : k \in DOMAIN m.components} \cup Names(m.tensors)
    <3>. SUFFICES ASSUME NEW j \in DOMAIN rest
                  PROVE  \/ \E k \in DOMAIN m.components : rest[j].name = StateName(k)
                         \/ \E i \in DOMAIN m.tensors : rest[j].name = m.tensors[i].name
      BY DEF Names
    <3>1. CASE j \in 1 .. K
      BY <1>1, <2>1, <3>1
    <3>2. CASE j - K \in 1 .. T /\ K + (j - K) = j
      <4>1. rest[K + (j - K)].name = m.tensors[j - K].name
        BY <2>2, <3>2
      <4>. QED  BY <1>1, <3>2, <4>1
    <3>. QED  BY <1>7, <3>1, <3>2
  <2>4. {StateName(k) : k \in DOMAIN m.components} \subseteq Names(rest)
    BY <1>1, <1>5, <2>1 DEF Names
  <2>5. Names(m.tensors) \subseteq Names(rest)
    <3>1. \A i \in DOMAIN m.tensors : K + i \in DOMAIN rest /\ rest[K + i].name = m.tensors[i].name
      BY <1>1, <1>6, <2>2
    <3>. QED  BY <3>1 DEF Names
  <2>. QED  BY <2>3, <2>4, <2>5
<1>10. \A i, j \in DOMAIN ms : ms[i].name = ms[j].name => i = j
  BY <1>1, LaidDistinct, DistinctNames
<1>11. DOMAIN ms = 1 .. 1 + K + T
  BY <1>1, LenProperties
<1>12. \A i \in DOMAIN rest : Under(rest[i].name) = rest[i]
  <2>1. \A i \in DOMAIN rest : i + 1 \in DOMAIN ms
    BY <1>1, <1>4, <1>11
  <2>2. \A i, j \in DOMAIN rest : i + 1 = j + 1 => i = j
    BY <1>1, <1>4
  <2>3. \A i, j \in DOMAIN rest : rest[i].name = rest[j].name => i = j
    BY <1>3, <1>4, <1>10, <2>1, <2>2
  <2>4. \A i \in DOMAIN rest : (CHOOSE j \in DOMAIN rest : rest[j].name = rest[i].name) = i
    BY <2>3
  <2>. QED  BY <2>4
<1>13. \A k \in 1 .. K : Under(StateName(k)) = Member(StateName(k), 1, m.components[k])
  <2>1. \A k \in 1 .. K : rest[k].name = StateName(k)
    BY <1>5, <1>8
  <2>. HIDE DEF Under
  <2>. QED  BY <1>5, <1>12, <2>1
<1>14. \A i \in 1 .. T :
          Under(TensorName(i - 1)) = Member(TensorName(i - 1), m.tensors[i].size, m.tensors[i].data)
  <2>1. \A i \in 1 .. T : rest[K + i].name = TensorName(i - 1)
    BY <1>6, <1>8
  <2>. HIDE DEF Under
  <2>. QED  BY <1>6, <1>12, <2>1
<1>15. Authentic(file)
  <2>1. \A k \in DOMAIN m.components : /\ Under(StateName(k)).data = m.components[k]
                                       /\ Under(StateName(k)).size = 1
    <3>. HIDE DEF Under
    <3>. QED  BY <1>1, <1>8, <1>13
  <2>2. \A i \in DOMAIN m.tensors : /\ Under(m.tensors[i].name).data = m.tensors[i].data
                                    /\ Under(m.tensors[i].name).size = m.tensors[i].size
    <3>. HIDE DEF Under
    <3>. QED  BY <1>1, <1>8, <1>14
  <2>. QED  BY <1>0, <1>9, <2>1, <2>2 DEF Authentic, rest
<1>16. \A i \in 1 .. T : The(ms, TensorName(i - 1)).data = m.tensors[i].data
  <2>. SUFFICES ASSUME NEW i \in 1 .. T
                PROVE  The(ms, TensorName(i - 1)).data = m.tensors[i].data
    OBVIOUS
  <2>1. 1 + K + i \in DOMAIN ms /\ ms[1 + K + i].name = TensorName(i - 1)
    <3>1. 1 + K + i \in DOMAIN ms
      BY <1>1, <1>11
    <3>2. ms[1 + K + i] = Member(TensorName(i - 1), m.tensors[i].size, m.tensors[i].data)
      BY <1>1
    <3>. QED  BY <1>8, <3>1, <3>2
  <2>2. (CHOOSE j \in DOMAIN ms : ms[j].name = TensorName(i - 1)) = 1 + K + i
    BY <1>10, <2>1
  <2>3. The(ms, TensorName(i - 1)) = ms[1 + K + i]
    BY <2>2 DEF The
  <2>. QED  BY <1>1, <1>8, <2>3
<1>. QED  BY <1>15, <1>16 DEF file, T

----------------------------------------------------------------------------
(* What the encoder writes.                                                *)

(* The stored tensor of each place.                                        *)
LEMMA StoredTensors ==
    ASSUME NEW c, Taken(c)
    PROVE  LET T == Cardinality(Storage(c))
               ts == TensorMembers(c)
           IN  /\ T \in Nat
               /\ Len(ts) = T
               /\ DOMAIN ts = 1 .. T
               /\ \A i \in 1 .. T : \E s \in Storage(c) :
                     /\ Index(c, s) = i - 1
                     /\ ts[i].name = TensorName(i - 1)
                     /\ ts[i].data = The(Captured(c), s).data
                     /\ ts[i].names = Group(c, s)
<1>. DEFINE T == Cardinality(Storage(c))
            ts == TensorMembers(c)
            Of(i) == LET s == CHOOSE n \in Storage(c) : Index(c, n) = i - 1
                         t == The(Captured(c), s)
                     IN  [name |-> TensorName(i - 1), size |-> t.size, data |-> t.data,
                          names |-> Group(c, s), shape |-> t.shape, dtype |-> t.dtype]
<1>1. T \in Nat
  BY Stores
<1>2. ts = [i \in 1 .. T |-> Of(i)]
  BY DEF TensorMembers
<1>3. ASSUME NEW i \in 1 .. T
      PROVE  \E s \in Storage(c) : /\ Index(c, s) = i - 1
                                   /\ Of(i).name = TensorName(i - 1)
                                   /\ Of(i).data = The(Captured(c), s).data
                                   /\ Of(i).names = Group(c, s)
  <2>. DEFINE s == CHOOSE n \in Storage(c) : Index(c, n) = i - 1
  <2>1. i - 1 \in 0 .. T - 1
    BY <1>1
  <2>2. \E n \in Storage(c) : Index(c, n) = i - 1
    BY <2>1, Indexed
  <2>3. s \in Storage(c) /\ Index(c, s) = i - 1
    BY <2>2
  <2>4. /\ Of(i).name = TensorName(i - 1)
        /\ Of(i).data = The(Captured(c), s).data
        /\ Of(i).names = Group(c, s)
    OBVIOUS
  <2>. HIDE DEF s, Of
  <2>. QED  BY <2>3, <2>4
<1>. HIDE DEF Of
<1>4. DOMAIN ts = 1 .. T /\ \A i \in 1 .. T : ts[i] = Of(i)
  BY <1>2
<1>5. Len(ts) = T
  <2>1. ts = [i \in 1 .. T |-> ts[i]]
    BY <1>2
  <2>. HIDE DEF ts, T
  <2>. QED  BY <1>1, <2>1, ListOf
<1>. QED  BY <1>1, <1>3, <1>4, <1>5

(* The components of an archive of the capture c.                          *)
Carries(m, c, by) ==
    /\ IsList(m.components)
    /\ DOMAIN m.components = 1 .. Len(m.components)
    /\ Len(m.components) = IF c.desc.scaler = <<>> THEN Required ELSE Required + 1
    /\ Len(m.components) = Required + Len(c.desc.scaler)
    /\ m.components[1] = [attempt |-> by.attempt, run |-> by.run, spec |-> by.spec]
    /\ m.components[2] = [spec |-> by.spec, content |-> by.config, digest |-> by.config]
    /\ m.components[3] = by.provenance
    /\ m.components[4] = c.rng
    /\ m.components[5] = c.cursor
    /\ m.components[6] = c.counters
    /\ m.components[7] = [params |-> Refs(c, c.params), buffers |-> Refs(c, c.buffers)]
    /\ m.components[8] =
          [slots |-> c.desc.slots, groups |-> c.desc.groups, type |-> c.desc.type,
           single |-> Refs(c, c.optimizer), tensors |-> Refs(c, c.slots),
           scalar |-> c.scalars.optimizer]
    /\ m.components[9] =
          [descriptor |-> c.desc.scheduler, tensors |-> Refs(c, c.scheduler),
           scalar |-> c.scalars.scheduler]
    /\ Len(m.components) > Required =>
          m.components[10] = [descriptor |-> c.desc.scaler, tensors |-> Refs(c, c.scaler)]

(* The encoder puts exactly that into the components.                      *)
LEMMA Components ==
    ASSUME NEW c, NEW by, NEW parent, Taken(c)
    PROVE  Carries(ManifestOf(c, by, parent), c, by)
<1>. DEFINE m == ManifestOf(c, by, parent)
            x1 == [attempt |-> by.attempt, run |-> by.run, spec |-> by.spec]
            x2 == [spec |-> by.spec, content |-> by.config, digest |-> by.config]
            x3 == by.provenance
            x7 == [params |-> Refs(c, c.params), buffers |-> Refs(c, c.buffers)]
            x8 == [slots |-> c.desc.slots, groups |-> c.desc.groups, type |-> c.desc.type,
                   single |-> Refs(c, c.optimizer), tensors |-> Refs(c, c.slots),
                   scalar |-> c.scalars.optimizer]
            x9 == [descriptor |-> c.desc.scheduler, tensors |-> Refs(c, c.scheduler),
                   scalar |-> c.scalars.scheduler]
            y == [descriptor |-> c.desc.scaler, tensors |-> Refs(c, c.scaler)]
            n == <<x1, x2, x3, c.rng, c.cursor, c.counters, x7, x8, x9>>
<1>1. m.components = n \o IF c.desc.scaler = <<>> THEN <<>> ELSE <<y>>
  BY DEF ManifestOf, Payloads
<1>2. Len(c.desc.scaler) = IF c.desc.scaler = <<>> THEN 0 ELSE 1
  <2>1. Len(c.desc.scaler) <= 1 /\ c.desc.scaler \in Seq([type : Nat, shape : Nat])
    BY DEF Taken, CaptureAccepted, DescriptorAccepted, DescriptorFields
  <2>. QED  BY <2>1, EmptySeq
<1>. HIDE DEF m, x1, x2, x3, x7, x8, x9, y
<1>3. /\ IsList(n) /\ Len(n) = 9 /\ n \o <<>> = n
      /\ IsList(n \o <<y>>) /\ Len(n \o <<y>>) = 10 /\ (n \o <<y>>)[10] = y
      /\ \A i \in 1 .. 9 : (n \o <<y>>)[i] = n[i]
  BY Nine
<1>4. /\ n[1] = x1 /\ n[2] = x2 /\ n[3] = x3 /\ n[4] = c.rng /\ n[5] = c.cursor
      /\ n[6] = c.counters /\ n[7] = x7 /\ n[8] = x8 /\ n[9] = x9
  OBVIOUS
<1>. HIDE DEF n
<1>5. /\ IsList(m.components)
      /\ Len(m.components) = IF c.desc.scaler = <<>> THEN 9 ELSE 10
      /\ \A i \in 1 .. 9 : m.components[i] = n[i]
      /\ Len(m.components) > 9 => m.components[10] = y
  <2>1. CASE c.desc.scaler = <<>>
    <3>1. m.components = n
      BY <1>1, <1>3, <2>1
    <3>. QED  BY <1>3, <2>1, <3>1
  <2>2. CASE c.desc.scaler # <<>>
    <3>1. m.components = n \o <<y>>
      BY <1>1, <2>2
    <3>. QED  BY <1>3, <2>2, <3>1
  <2>. QED  BY <2>1, <2>2
<1>6. DOMAIN m.components = 1 .. Len(m.components)
  BY <1>5, LenProperties DEF IsList
<1>7. /\ Len(m.components) = IF c.desc.scaler = <<>> THEN Required ELSE Required + 1
      /\ Len(m.components) = Required + Len(c.desc.scaler)
      /\ Len(m.components) > Required => m.components[10] = y
  BY <1>2, <1>5 DEF Required
<1>8. /\ m.components[1] = x1 /\ m.components[2] = x2 /\ m.components[3] = x3
      /\ m.components[4] = c.rng /\ m.components[5] = c.cursor
      /\ m.components[6] = c.counters
      /\ m.components[7] = x7 /\ m.components[8] = x8 /\ m.components[9] = x9
  BY <1>4, <1>5
<1>9. /\ IsList(m.components)
      /\ DOMAIN m.components = 1 .. Len(m.components)
  BY <1>5, <1>6
<1>10. Carries(m, c, by)
  BY <1>7, <1>8, <1>9 DEF Carries, x1, x2, x3, x7, x8, x9, y
<1>. QED  BY <1>10 DEF m

(* The encoder lays the archive out in the order the parser asks for, and  *)
(* stores no more tensors than a manifest may list.                        *)
LEMMA EncodedLaid ==
    ASSUME NEW c, NEW by, NEW parent, Taken(c)
    PROVE  LET file == Encode(c, by, parent)
               m == ManifestOf(c, by, parent)
           IN  /\ Laid(file.members, m)
               /\ file = WriteArchive(file.members)
               /\ m.tensors = TensorMembers(c)
               /\ Len(m.tensors) = Cardinality(Storage(c))
               /\ Len(m.tensors) <= MaxTensors
<1>. DEFINE file == Encode(c, by, parent)
            m == ManifestOf(c, by, parent)
            K == Len(m.components)
            T == Cardinality(Storage(c))
            first == << Member(ManifestName, ManifestSize(m), m) >>
            states == [k \in DOMAIN m.components |-> Member(StateName(k), 1, m.components[k])]
            blobs == [i \in DOMAIN m.tensors |->
                         Member(m.tensors[i].name, m.tensors[i].size, m.tensors[i].data)]
            ms == first \o states \o blobs
<1>1. file = WriteArchive(ms)
  BY DEF Encode
<1>2. file.members = ms /\ file = WriteArchive(file.members)
  BY <1>1 DEF WriteArchive
<1>3. /\ DOMAIN m.components = 1 .. K
      /\ K = IF c.desc.scaler = <<>> THEN Required ELSE Required + 1
  <2>1. Carries(m, c, by)
    BY Components
  <2>. HIDE DEF m
  <2>. QED  BY <2>1 DEF Carries
<1>4. m.tensors = TensorMembers(c)
  BY DEF ManifestOf
<1>5. /\ T \in Nat
      /\ Len(m.tensors) = T
      /\ DOMAIN m.tensors = 1 .. T
      /\ \A i \in 1 .. T : m.tensors[i].name = TensorName(i - 1)
  BY <1>4, StoredTensors
<1>6. T <= MaxTensors
  BY DEF Taken, Encodable
<1>. HIDE DEF m, K, T, file
<1>7. IsList(first) /\ Len(first) = 1 /\ first[1] = Member(ManifestName, ManifestSize(m), m)
  <2>1. first = [i \in 1 .. 1 |-> first[i]] /\ first[1] = Member(ManifestName, ManifestSize(m), m)
    OBVIOUS
  <2>. HIDE DEF first
  <2>. QED  BY <2>1, ListOf
<1>8. K \in {Required, Required + 1} /\ K \in Nat
  BY <1>3 DEF Required
<1>9. /\ IsList(states) /\ Len(states) = K
      /\ \A k \in 1 .. K : states[k] = Member(StateName(k), 1, m.components[k])
  <2>1. states = [i \in 1 .. K |-> states[i]]
    BY <1>3
  <2>2. \A k \in 1 .. K : states[k] = Member(StateName(k), 1, m.components[k])
    BY <1>3
  <2>. HIDE DEF states
  <2>. QED  BY <1>8, <2>1, <2>2, ListOf
<1>10. /\ IsList(blobs) /\ Len(blobs) = T
       /\ \A i \in 1 .. T :
             blobs[i] = Member(TensorName(i - 1), m.tensors[i].size, m.tensors[i].data)
  <2>1. blobs = [i \in 1 .. T |-> blobs[i]]
    BY <1>5
  <2>2. \A i \in 1 .. T : blobs[i] = Member(TensorName(i - 1), m.tensors[i].size, m.tensors[i].data)
    BY <1>5
  <2>. HIDE DEF blobs
  <2>. QED  BY <1>5, <2>1, <2>2, ListOf
<1>. HIDE DEF first, states, blobs
<1>11. /\ IsList(first \o states)
       /\ Len(first \o states) = 1 + K
       /\ (first \o states)[1] = first[1]
       /\ \A k \in 1 .. K : (first \o states)[1 + k] = states[k]
  <2>1. /\ IsList(first \o states)
        /\ Len(first \o states) = Len(first) + Len(states)
        /\ \A i \in 1 .. Len(first) : (first \o states)[i] = first[i]
        /\ \A i \in 1 .. Len(states) : (first \o states)[Len(first) + i] = states[i]
    <3>1. IsList(first) /\ IsList(states)
      BY <1>7, <1>9
    <3>. QED  BY <3>1, ListJoin
  <2>. QED  BY <1>7, <1>9, <2>1
<1>12. /\ IsList(ms)
       /\ Len(ms) = 1 + K + T
       /\ \A i \in 1 .. 1 + K : ms[i] = (first \o states)[i]
       /\ \A i \in 1 .. T : ms[1 + K + i] = blobs[i]
  <2>. DEFINE front == first \o states
  <2>1. IsList(front) /\ Len(front) = 1 + K
    BY <1>11
  <2>. HIDE DEF front
  <2>2. /\ IsList(front \o blobs)
        /\ Len(front \o blobs) = Len(front) + Len(blobs)
        /\ \A i \in 1 .. Len(front) : (front \o blobs)[i] = front[i]
        /\ \A i \in 1 .. Len(blobs) : (front \o blobs)[Len(front) + i] = blobs[i]
    <3>1. IsList(front) /\ IsList(blobs)
      BY <1>10, <2>1
    <3>. QED  BY <3>1, ListJoin
  <2>3. /\ IsList(front \o blobs)
        /\ Len(front \o blobs) = 1 + K + T
        /\ \A i \in 1 .. 1 + K : (front \o blobs)[i] = front[i]
        /\ \A i \in 1 .. T : (front \o blobs)[1 + K + i] = blobs[i]
    BY <1>10, <2>1, <2>2
  <2>. QED  BY <2>3 DEF front
<1>13. 1 \in 1 .. 1 + K /\ \A k \in 1 .. K : 1 + k \in 1 .. 1 + K
  BY <1>8
<1>14. Laid(ms, m)
  <2>. HIDE DEF ms
  <2>1. ms[1] = Member(ManifestName, ManifestSize(m), m)
    BY <1>7, <1>11, <1>12, <1>13
  <2>2. \A k \in 1 .. K : ms[1 + k] = Member(StateName(k), 1, m.components[k])
    BY <1>9, <1>11, <1>12, <1>13
  <2>3. \A i \in 1 .. T :
           ms[1 + K + i] = Member(TensorName(i - 1), m.tensors[i].size, m.tensors[i].data)
    BY <1>10, <1>12
  <2>4. Len(m.components) = K
    BY DEF K
  <2>. QED  BY <1>3, <1>5, <1>8, <1>12, <2>1, <2>2, <2>3, <2>4 DEF Laid
<1>. QED  BY <1>2, <1>4, <1>5, <1>6, <1>14 DEF file, m, T

(* References are made tensor by tensor.                                   *)
LEMMA RefsConcat ==
    ASSUME NEW c, NEW S, NEW s \in Seq(S), NEW t \in Seq(S)
    PROVE  Refs(c, s \o t) = Refs(c, s) \o Refs(c, t)
<1>. DEFINE u == s \o t
            m == Len(s)
            n == Len(t)
            rs == Refs(c, s)
            rt == Refs(c, t)
            ru == Refs(c, u)
<1>1. /\ m \in Nat /\ n \in Nat
      /\ DOMAIN s = 1 .. m /\ DOMAIN t = 1 .. n
      /\ u \in Seq(S) /\ Len(u) = m + n
      /\ \A i \in 1 .. m + n : u[i] = IF i <= m THEN s[i] ELSE t[i - m]
  BY ConcatProperties, LenProperties
<1>2. DOMAIN u = 1 .. m + n
  BY <1>1, LenProperties
<1>. HIDE DEF u, m, n
<1>3. /\ rs = [i \in 1 .. m |-> Ref(c, s[i])]
      /\ rt = [i \in 1 .. n |-> Ref(c, t[i])]
      /\ ru = [i \in 1 .. m + n |-> Ref(c, u[i])]
  BY <1>1, <1>2 DEF Refs
<1>4. /\ rs = [i \in 1 .. m |-> rs[i]]
      /\ rt = [i \in 1 .. n |-> rt[i]]
      /\ ru = [i \in 1 .. m + n |-> ru[i]]
  BY <1>3
<1>5. /\ \A i \in 1 .. m : rs[i] = Ref(c, s[i])
      /\ \A i \in 1 .. n : rt[i] = Ref(c, t[i])
      /\ \A i \in 1 .. m + n : ru[i] = Ref(c, u[i])
  BY <1>3
<1>. HIDE DEF rs, rt, ru
<1>6. /\ IsList(rs) /\ Len(rs) = m
      /\ IsList(rt) /\ Len(rt) = n
      /\ IsList(ru) /\ Len(ru) = m + n
  BY <1>1, <1>4, ListOf
<1>7. /\ IsList(rs \o rt)
      /\ Len(rs \o rt) = m + n
      /\ \A i \in 1 .. m : (rs \o rt)[i] = rs[i]
      /\ \A i \in 1 .. n : (rs \o rt)[m + i] = rt[i]
  BY <1>6, ListJoin
<1>8. ASSUME NEW i \in 1 .. m + n PROVE ru[i] = (rs \o rt)[i]
  <2>1. CASE i <= m
    <3>1. i \in 1 .. m
      BY <1>1, <2>1
    <3>. QED  BY <1>1, <1>5, <1>7, <2>1, <3>1
  <2>2. CASE ~(i <= m)
    <3>1. i - m \in 1 .. n /\ m + (i - m) = i
      BY <1>1, <2>2
    <3>2. (rs \o rt)[m + (i - m)] = rt[i - m]
      BY <1>7, <3>1
    <3>3. rt[i - m] = Ref(c, t[i - m])
      BY <1>5, <3>1
    <3>. QED  BY <1>1, <1>5, <2>2, <3>1, <3>2, <3>3
  <2>. QED  BY <2>1, <2>2
<1>9. ru = rs \o rt
  <2>. DEFINE v == rs \o rt
              U == Range(ru) \cup Range(v)
  <2>1. IsList(v) /\ Len(v) = m + n /\ \A i \in 1 .. m + n : ru[i] = v[i]
    BY <1>7, <1>8
  <2>. HIDE DEF v
  <2>2. ru \in Seq(U) /\ v \in Seq(U)
    BY <1>6, <2>1, SeqMonotonic DEF IsList
  <2>. HIDE DEF U
  <2>3. ru = v
    BY <1>6, <2>1, <2>2, SeqEqual
  <2>. QED  BY <2>3 DEF v
<1>. QED  BY <1>9 DEF ru, rs, rt, u

(* The references of all components are those of the captured tensors,     *)
(* each once.                                                              *)
LEMMA ReferencesOf ==
    ASSUME NEW c, NEW by, NEW parent, Taken(c)
    PROVE  References(ManifestOf(c, by, parent)) = Refs(c, Referring(c))
<1>. DEFINE m == ManifestOf(c, by, parent)
            X == CapturedTensor
            s1 == c.params \o c.buffers
            s2 == s1 \o c.optimizer
            s3 == s2 \o c.slots
            s4 == s3 \o c.scheduler
<1>1. /\ c.params \in Seq(X) /\ c.buffers \in Seq(X) /\ c.optimizer \in Seq(X)
      /\ c.slots \in Seq(X) /\ c.scheduler \in Seq(X) /\ c.scaler \in Seq(X)
  BY CaptureTyped DEF Taken
<1>. HIDE DEF X
<1>2. s1 \in Seq(X) /\ Refs(c, s1) = Refs(c, c.params) \o Refs(c, c.buffers)
  BY <1>1, RefsConcat, RangeConcat
<1>. HIDE DEF s1
<1>3. s2 \in Seq(X) /\ Refs(c, s2) = Refs(c, s1) \o Refs(c, c.optimizer)
  BY <1>1, <1>2, RefsConcat, RangeConcat
<1>. HIDE DEF s2
<1>4. s3 \in Seq(X) /\ Refs(c, s3) = Refs(c, s2) \o Refs(c, c.slots)
  BY <1>1, <1>3, RefsConcat, RangeConcat
<1>. HIDE DEF s3
<1>5. s4 \in Seq(X) /\ Refs(c, s4) = Refs(c, s3) \o Refs(c, c.scheduler)
  BY <1>1, <1>4, RefsConcat, RangeConcat
<1>. HIDE DEF s4
<1>6. Refs(c, s4 \o c.scaler) = Refs(c, s4) \o Refs(c, c.scaler)
  BY <1>1, <1>5, RefsConcat
<1>7. Referring(c) = s4 \o c.scaler
  BY DEF Referring, Model, s4, s3, s2, s1
<1>8. /\ m.components[7].params = Refs(c, c.params)
      /\ m.components[7].buffers = Refs(c, c.buffers)
      /\ m.components[8].single = Refs(c, c.optimizer)
      /\ m.components[8].tensors = Refs(c, c.slots)
      /\ m.components[9].tensors = Refs(c, c.scheduler)
      /\ Len(m.components) = IF c.desc.scaler = <<>> THEN Required ELSE Required + 1
      /\ Len(m.components) > Required => m.components[10].tensors = Refs(c, c.scaler)
  <2>1. Carries(m, c, by)
    BY Components
  <2>. HIDE DEF m
  <2>. QED  BY <2>1 DEF Carries
<1>9. c.desc.scaler = <<>> => Refs(c, c.scaler) = <<>>
  <2>1. c.desc.scaler = <<>> => c.scaler = <<>>
    BY DEF Taken, CaptureAccepted
  <2>2. Refs(c, <<>>) = <<>>
    BY DEF Refs
  <2>. QED  BY <2>1, <2>2
<1>10. (IF Len(m.components) > Required THEN m.components[10].tensors ELSE <<>>)
          = Refs(c, c.scaler)
  BY <1>8, <1>9 DEF Required
<1>11. References(m) =
          m.components[7].params \o m.components[7].buffers \o m.components[8].single
             \o m.components[8].tensors \o m.components[9].tensors
             \o (IF Len(m.components) > Required THEN m.components[10].tensors ELSE <<>>)
  BY DEF References
<1>. HIDE DEF m
<1>. QED  BY <1>2, <1>3, <1>4, <1>5, <1>6, <1>7, <1>8, <1>10, <1>11 DEF m

----------------------------------------------------------------------------
(* What the loader makes of it.                                            *)

(* Each stored tensor is referred to once for each of its names.           *)
LEMMA EncodedReferences ==
    ASSUME NEW c, NEW by, NEW parent, Taken(c)
    PROVE  ReferencesAgree(ManifestOf(c, by, parent))
<1>. DEFINE m == ManifestOf(c, by, parent)
            T == Cardinality(Storage(c))
            R == Referring(c)
            all == Refs(c, R)
            At1(k) == {i \in DOMAIN all : all[i].member = TensorName(k)}
<1>1. References(m) = all
  BY ReferencesOf
<1>2. m.tensors = TensorMembers(c)
  BY DEF ManifestOf
<1>3. /\ T \in Nat
      /\ DOMAIN m.tensors = 1 .. T
      /\ \A i \in 1 .. T : \E s \in Storage(c) :
            /\ Index(c, s) = i - 1
            /\ m.tensors[i].name = TensorName(i - 1)
            /\ m.tensors[i].names = Group(c, s)
  BY <1>2, StoredTensors
<1>. HIDE DEF m, T
<1>4. /\ DOMAIN all = DOMAIN R
      /\ \A i \in DOMAIN R : all[i].member = TensorName(Index(c, R[i].name))
  BY DEF Refs, Ref
<1>5. /\ R \in Seq(CapturedTensor)
      /\ \A i, j \in DOMAIN R : R[i].name = R[j].name => i = j
      /\ Names(R) = Names(Captured(c))
  BY CapturedParts, DistinctNames, NamesRange
<1>. HIDE DEF all, R
<1>6. /\ \A n \in Names(Captured(c)) : Leader(c, n) \in Storage(c)
      /\ \A n \in Names(Captured(c)) : Index(c, n) = Index(c, Leader(c, n))
      /\ \A s \in Storage(c) : Index(c, s) \in 0 .. T - 1
      /\ \A s, t \in Storage(c) : Index(c, s) = Index(c, t) => s = t
      /\ \A n \in Names(Captured(c)), s \in Storage(c) : Leader(c, n) = s <=> n \in Group(c, s)
      /\ Storage(c) \subseteq Names(Captured(c))
  BY Stores, Indexed DEF T
<1>7. \A i \in DOMAIN R : R[i].name \in Names(Captured(c))
  BY <1>5 DEF Names
<1>8. ASSUME NEW i \in DOMAIN all
      PROVE  all[i].member \in Names(m.tensors)
  <2>1. Index(c, R[i].name) \in 0 .. T - 1
    BY <1>4, <1>6, <1>7, <1>8
  <2>2. PICK k \in 1 .. T : Index(c, R[i].name) = k - 1
    <3>1. Index(c, R[i].name) + 1 \in 1 .. T /\ (Index(c, R[i].name) + 1) - 1 = Index(c, R[i].name)
      BY <1>3, <2>1
    <3>. QED  BY <3>1
  <2>3. m.tensors[k].name = TensorName(k - 1)
    BY <1>3
  <2>4. all[i].member = m.tensors[k].name
    BY <1>4, <1>8, <2>2, <2>3
  <2>. QED  BY <1>3, <2>4 DEF Names
<1>9. ASSUME NEW k \in DOMAIN m.tensors
      PROVE  Cardinality({i \in DOMAIN all : all[i].member = m.tensors[k].name})
                = Cardinality(m.tensors[k].names)
  <2>1. PICK s \in Storage(c) : /\ Index(c, s) = k - 1
                                /\ m.tensors[k].name = TensorName(k - 1)
                                /\ m.tensors[k].names = Group(c, s)
    BY <1>3, <1>9
  <2>. DEFINE I == {i \in DOMAIN all : all[i].member = m.tensors[k].name}
              G == Group(c, s)
              f == [i \in I |-> R[i].name]
  <2>2. I = {i \in DOMAIN R : R[i].name \in G}
    <3>. SUFFICES ASSUME NEW i \in DOMAIN R
                  PROVE  all[i].member = m.tensors[k].name <=> R[i].name \in G
      BY <1>4
    <3>1. all[i].member = m.tensors[k].name <=> Index(c, R[i].name) = Index(c, s)
      BY <1>4, <2>1, MemberNames
    <3>2. Index(c, R[i].name) = Index(c, Leader(c, R[i].name))
      BY <1>6, <1>7
    <3>3. Index(c, R[i].name) = Index(c, s) <=> Leader(c, R[i].name) = s
      BY <1>6, <1>7, <3>2
    <3>. QED  BY <1>6, <1>7, <3>1, <3>3
  <2>3. G \subseteq Names(R)
    BY <1>5, <1>6, Grouped
  <2>. HIDE DEF I, G
  <2>4. f \in Bijection(I, G)
    <3>1. f \in [I -> G]
      BY <2>2
    <3>2. \A i, j \in I : f[i] = f[j] => i = j
      BY <1>5, <2>2
    <3>3. \A n \in G : \E i \in I : f[i] = n
      BY <2>2, <2>3 DEF Names
    <3>. QED  BY <3>1, <3>2, <3>3 DEF Bijection, Injection, Surjection, IsInjective
  <2>5. IsFiniteSet(I)
    <3>1. DOMAIN R = 1 .. Len(R) /\ Len(R) \in Nat
      BY <1>5, LenProperties
    <3>2. IsFiniteSet(1 .. Len(R))
      BY <3>1, FS_Interval
    <3>3. I \in SUBSET (1 .. Len(R))
      BY <2>2, <3>1
    <3>. QED  BY <3>2, <3>3, FS_Subset
  <2>6. Cardinality(I) = Cardinality(G)
    BY <2>4, <2>5, FS_Bijection DEF ExistsBijection
  <2>. QED  BY <2>1, <2>6 DEF I, G
<1>. QED  BY <1>1, <1>8, <1>9 DEF ReferencesAgree, m

(* What a component lists of a role of model tensors.                      *)
Described(c, n) ==
    [name |-> n, shape |-> The(Captured(c), n).shape, dtype |-> The(Captured(c), n).dtype]

(* The names a list of captured tensors is referred to by.                 *)
LEMMA ListedNames ==
    ASSUME NEW c, Taken(c), NEW ts, Range(ts) \subseteq Range(Captured(c))
    PROVE  /\ Names(ts) \subseteq Names(Captured(c))
           /\ Listed(c, ts) \subseteq Names(Captured(c))
           /\ Names(ts) \subseteq Listed(c, ts)
           /\ Names(ts) \cap Names(Model(c)) = {} => Listed(c, ts) = Names(ts)
<1>1. Names(ts) \subseteq Names(Captured(c))
  BY NamesRange DEF NamesIn
<1>2. \A n \in Names(ts) : /\ Group(c, n) \subseteq Names(Captured(c))
                           /\ n \in Group(c, n)
                           /\ n \notin Names(Model(c)) => Group(c, n) = {n}
  BY <1>1, Grouped
<1>3. Names(ts) \cap Names(Model(c)) = {} => Listed(c, ts) = Names(ts)
  <2>. SUFFICES ASSUME Names(ts) \cap Names(Model(c)) = {} PROVE Listed(c, ts) = Names(ts)
    OBVIOUS
  <2>1. \A n \in Names(ts) : Group(c, n) = {n}
    BY <1>2
  <2>. QED  BY <2>1 DEF Listed
<1>. QED  BY <1>1, <1>2, <1>3 DEF Listed

(* A component describes each tensor under all the names it is stored by.  *)
LEMMA ExpandRefs ==
    ASSUME NEW c, Taken(c), NEW ts, Range(ts) \subseteq Range(Captured(c))
    PROVE  Expand(Refs(c, ts)) = {Described(c, n) : n \in Listed(c, ts)}
<1>. DEFINE rs == Refs(c, ts)
            Of(i) == {[name |-> n, shape |-> rs[i].shape, dtype |-> rs[i].dtype] :
                         n \in rs[i].names}
<1>1. DOMAIN rs = DOMAIN ts
  BY DEF Refs
<1>2. ASSUME NEW i \in DOMAIN ts
      PROVE  /\ ts[i].name \in Names(ts)
             /\ rs[i].names = Group(c, ts[i].name)
             /\ rs[i].shape = ts[i].shape
             /\ rs[i].dtype = ts[i].dtype
             /\ The(Captured(c), ts[i].name) = ts[i]
             /\ ts[i].name \in Names(Captured(c))
  <2>1. ts[i] \in Range(Captured(c))
    BY DEF Range
  <2>2. The(Captured(c), ts[i].name) = ts[i] /\ ts[i].name \in Names(Captured(c))
    BY <2>1, CapturedNames
  <2>. QED  BY <2>2 DEF Refs, Ref, Names
<1>. HIDE DEF rs
<1>3. ASSUME NEW i \in DOMAIN ts
      PROVE  Of(i) = {Described(c, n) : n \in Group(c, ts[i].name)}
  <2>1. \A n \in Group(c, ts[i].name) :
           /\ The(Captured(c), n).shape = ts[i].shape
           /\ The(Captured(c), n).dtype = ts[i].dtype
    BY <1>2, Grouped
  <2>. QED  BY <1>2, <2>1 DEF Described
<1>4. Expand(rs) = UNION {Of(i) : i \in DOMAIN ts}
  BY <1>1 DEF Expand
<1>. HIDE DEF Of
<1>5. Listed(c, ts) = UNION {Group(c, ts[i].name) : i \in DOMAIN ts}
  BY DEF Listed, Names
<1>6. UNION {Of(i) : i \in DOMAIN ts} \subseteq {Described(c, n) : n \in Listed(c, ts)}
  <2>1. \A i \in DOMAIN ts : \A x \in Of(i) : \E n \in Listed(c, ts) : x = Described(c, n)
    BY <1>3, <1>5
  <2>. QED  BY <2>1
<1>7. {Described(c, n) : n \in Listed(c, ts)} \subseteq UNION {Of(i) : i \in DOMAIN ts}
  <2>. SUFFICES ASSUME NEW n \in Listed(c, ts)
                PROVE  \E i \in DOMAIN ts : Described(c, n) \in Of(i)
    OBVIOUS
  <2>1. PICK i \in DOMAIN ts : n \in Group(c, ts[i].name)
    BY <1>5
  <2>. QED  BY <1>3, <2>1
<1>. QED  BY <1>4, <1>6, <1>7 DEF rs

(* A role of the descriptor describes captured model tensors.              *)
LEMMA RoleDescribed ==
    ASSUME NEW c, Taken(c)
    PROVE  /\ c.desc.params = {Described(c, n) : n \in NamesIn(c.desc.params)}
           /\ c.desc.buffers = {Described(c, n) : n \in NamesIn(c.desc.buffers)}
           /\ NamesIn(c.desc.params) \subseteq Names(Model(c))
           /\ NamesIn(c.desc.buffers) \subseteq Names(Model(c))
<1>1. Shapes(Model(c)) = c.desc.params \cup c.desc.buffers
  BY DEF Taken, CaptureAccepted, Model
<1>2. \A x \in Shapes(Model(c)) : x.name \in Names(Model(c)) /\ x = Described(c, x.name)
  <2>. SUFFICES ASSUME NEW i \in DOMAIN Model(c)
                PROVE  LET t == Model(c)[i]
                       IN  /\ t.name \in Names(Model(c))
                           /\ The(Captured(c), t.name) = t
    BY DEF Shapes, Described
  <2>1. Model(c)[i] \in Range(Captured(c))
    <3>1. Model(c)[i] \in Range(Model(c))
      BY DEF Range
    <3>. QED  BY <3>1, CapturedParts
  <2>. QED  BY <2>1, CapturedNames DEF Names
<1>3. \A D : D \subseteq Shapes(Model(c)) =>
         /\ D = {Described(c, n) : n \in NamesIn(D)}
         /\ NamesIn(D) \subseteq Names(Model(c))
  BY <1>2 DEF NamesIn
<1>. QED  BY <1>1, <1>3

(* The rules an archive of a capture keeps, and those it keeps only if the *)
(* capture is loadable.                                                    *)
LEMMA EncodedBinds ==
    ASSUME NEW c, NEW by, NEW parent, NEW record, Taken(c),
           record.run = by.run, record.attempt = by.attempt, record.spec = by.spec,
           record.parent = parent
    PROVE  LET m == ManifestOf(c, by, parent)
           IN  /\ ManifestAccepted(m)
               /\ RecordBinds(m, record)
               /\ DescriptorsBind(m)
                     <=> /\ Listed(c, c.params) = NamesIn(c.desc.params)
                         /\ Listed(c, c.buffers) = NamesIn(c.desc.buffers)
               /\ OriginBinds(m, record)
                     <=> /\ by.provenance = [attempt |-> by.attempt, run |-> by.run]
                         /\ c.rng.providers = DOMAIN c.desc.rng.versions
<1>. DEFINE m == ManifestOf(c, by, parent)
<1>1. /\ m.attempt = by.attempt /\ m.run = by.run /\ m.spec = by.spec
      /\ m.config = by.config /\ m.parent = parent /\ m.counters = c.counters
      /\ m.compat = c.desc /\ m.version = 1
  BY DEF ManifestOf
<1>2. Carries(m, c, by)
  BY Components
<1>3. /\ m.tensors = TensorMembers(c)
      /\ Len(m.tensors) <= MaxTensors
  BY EncodedLaid
<1>4. \A i \in DOMAIN m.tensors : m.tensors[i].name = TensorName(i - 1)
  BY <1>3, StoredTensors
<1>. HIDE DEF m
<1>5. ManifestAccepted(m)
  <2>1. DescriptorAccepted(c.desc)
    BY DEF Taken, CaptureAccepted
  <2>2. /\ Len(m.components) \in {Required, Required + 1}
        /\ (Len(m.components) > Required) = (c.desc.scaler # <<>>)
    BY <1>2 DEF Carries, Required
  <2>. QED  BY <1>1, <1>3, <1>4, <2>1, <2>2 DEF ManifestAccepted
<1>6. RecordBinds(m, record)
  BY <1>1 DEF RecordBinds
<1>7. /\ Expand(Refs(c, c.params)) = c.desc.params
            <=> Listed(c, c.params) = NamesIn(c.desc.params)
      /\ Expand(Refs(c, c.buffers)) = c.desc.buffers
            <=> Listed(c, c.buffers) = NamesIn(c.desc.buffers)
  <2>1. Range(c.params) \subseteq Range(Captured(c)) /\ Range(c.buffers) \subseteq Range(Captured(c))
    BY CapturedParts
  <2>2. /\ Expand(Refs(c, c.params)) = {Described(c, n) : n \in Listed(c, c.params)}
        /\ Expand(Refs(c, c.buffers)) = {Described(c, n) : n \in Listed(c, c.buffers)}
    BY <2>1, ExpandRefs
  <2>3. /\ c.desc.params = {Described(c, n) : n \in NamesIn(c.desc.params)}
        /\ c.desc.buffers = {Described(c, n) : n \in NamesIn(c.desc.buffers)}
    BY RoleDescribed
  <2>. DEFINE Kinds(M) == {Described(c, n) : n \in M}
  <2>4. \A M, N : Kinds(M) = Kinds(N) <=> M = N
    <3>1. \A n : Described(c, n).name = n
      BY DEF Described
    <3>. SUFFICES ASSUME NEW M, NEW N, Kinds(M) = Kinds(N) PROVE M = N
      OBVIOUS
    <3>2. \A n \in M : Described(c, n) \in Kinds(N)
      OBVIOUS
    <3>3. \A n \in N : Described(c, n) \in Kinds(M)
      OBVIOUS
    <3>. QED  BY <3>1, <3>2, <3>3
  <2>5. /\ Expand(Refs(c, c.params)) = Kinds(Listed(c, c.params))
        /\ Expand(Refs(c, c.buffers)) = Kinds(Listed(c, c.buffers))
        /\ c.desc.params = Kinds(NamesIn(c.desc.params))
        /\ c.desc.buffers = Kinds(NamesIn(c.desc.buffers))
    BY <2>2, <2>3
  <2>. HIDE DEF Kinds
  <2>. QED  BY <2>4, <2>5
<1>8. DescriptorsBind(m) <=> /\ Expand(Refs(c, c.params)) = c.desc.params
                             /\ Expand(Refs(c, c.buffers)) = c.desc.buffers
  BY <1>1, <1>2 DEF DescriptorsBind, Carries
<1>9. OriginBinds(m, record) <=> /\ by.provenance = [attempt |-> by.attempt, run |-> by.run]
                                 /\ c.rng.providers = DOMAIN c.desc.rng.versions
  <2>1. c.rng.schema = c.desc.rng.schema
    BY DEF Taken, CaptureAccepted, RngAgrees
  <2>. QED  BY <1>1, <1>2, <2>1 DEF OriginBinds, Carries
<1>. QED  BY <1>5, <1>6, <1>7, <1>8, <1>9 DEF m

(* load takes the archive of a capture, under the identity it was made for,*)
(* exactly if the capture is loadable.                                     *)
LEMMA LoadsEncoded ==
    ASSUME NEW c, NEW by, NEW parent, NEW record, Taken(c),
           record.run = by.run, record.attempt = by.attempt, record.spec = by.spec,
           record.parent = parent
    PROVE  Loads(Encode(c, by, parent), record)
              <=> ~Unloadable(c, by, Encode(c, by, parent))
<1>. DEFINE m == ManifestOf(c, by, parent)
            file == Encode(c, by, parent)
            ms == file.members
<1>1. /\ Laid(ms, m)
      /\ file = WriteArchive(ms)
      /\ m.tensors = TensorMembers(c)
      /\ Len(m.tensors) = Cardinality(Storage(c))
      /\ Len(m.tensors) <= MaxTensors
  BY EncodedLaid
<1>2. /\ ManifestAccepted(m)
      /\ RecordBinds(m, record)
      /\ DescriptorsBind(m)
            <=> /\ Listed(c, c.params) = NamesIn(c.desc.params)
                /\ Listed(c, c.buffers) = NamesIn(c.desc.buffers)
      /\ OriginBinds(m, record)
            <=> /\ by.provenance = [attempt |-> by.attempt, run |-> by.run]
                /\ c.rng.providers = DOMAIN c.desc.rng.versions
  BY EncodedBinds
<1>3. ReferencesAgree(m)
  BY EncodedReferences
<1>4. Len(m.components) = Required + Len(c.desc.scaler)
  <2>1. Carries(m, c, by)
    BY Components
  <2>. HIDE DEF m
  <2>. QED  BY <2>1 DEF Carries
<1>. HIDE DEF file, m
<1>5. /\ ManifestFirst(file)
      /\ ManifestData(file) = m
      /\ Parses(file) <=> /\ SizeAccepted(file)
                          /\ TensorsAccepted(m.tensors)
                          /\ 1 + Len(m.components) + Len(m.tensors) <= MaxMembers
      /\ Authentic(file)
  BY <1>1, LaidParses, LaidAuthentic
<1>6. Cardinality(Storage(c)) \in Nat /\ Len(c.desc.scaler) \in Nat /\ MaxMembers \in Nat
  <2>1. c.desc.scaler \in Seq([type : Nat, shape : Nat])
    BY DEF Taken, CaptureAccepted, DescriptorAccepted, DescriptorFields
  <2>. QED  BY <2>1, Stores, ArchiveConstants
<1>7. Parses(file) <=> /\ SizeAccepted(file)
                       /\ TensorsAccepted(TensorMembers(c))
                       /\ ~(1 + Required + Len(c.desc.scaler) + Cardinality(Storage(c)) > MaxMembers)
  BY <1>1, <1>4, <1>5, <1>6 DEF Required
<1>8. file.members[1].size = ManifestSize(m)
  BY <1>1 DEF Laid, Member
<1>9. Loads(file, record) <=> /\ Parses(file)
                              /\ ManifestReadable(ManifestSize(m))
                              /\ DescriptorsBind(m)
                              /\ OriginBinds(m, record)
  BY <1>2, <1>3, <1>5, <1>8 DEF Loads, DecodeAccepted, ComponentsBind
<1>. QED  BY <1>2, <1>5, <1>7, <1>9 DEF Unloadable, file

----------------------------------------------------------------------------
(* What a restore makes of it.                                             *)

(* The tensors of a list, by name.                                         *)
Contents(c, ns) == {<<n, The(Captured(c), n).data>> : n \in ns}

(* What a list of captured tensors says of its names.                      *)
LEMMA ListContents ==
    ASSUME NEW c, Taken(c), NEW ts, Range(ts) \subseteq Range(Captured(c))
    PROVE  {<<ts[i].name, ts[i].data>> : i \in DOMAIN ts} = Contents(c, Names(ts))
<1>1. ASSUME NEW i \in DOMAIN ts PROVE The(Captured(c), ts[i].name) = ts[i]
  <2>1. ts[i] \in Range(Captured(c))
    BY DEF Range
  <2>. QED  BY <2>1, CapturedNames
<1>2. \A i \in DOMAIN ts : <<ts[i].name, ts[i].data>> = <<ts[i].name, The(Captured(c), ts[i].name).data>>
  BY <1>1
<1>3. {<<ts[i].name, ts[i].data>> : i \in DOMAIN ts}
         = {<<ts[i].name, The(Captured(c), ts[i].name).data>> : i \in DOMAIN ts}
  BY <1>2
<1>. QED  BY <1>3 DEF Contents, Names

(* A reader finds each tensor of a list under every name it is listed by.  *)
LEMMA RestoredTensors ==
    ASSUME NEW c, NEW by, NEW parent, Taken(c),
           NEW ts, Range(ts) \subseteq Range(Captured(c))
    PROVE  Tensors(Encode(c, by, parent), Refs(c, ts)) = Contents(c, Listed(c, ts))
<1>. DEFINE m == ManifestOf(c, by, parent)
            file == Encode(c, by, parent)
            T == Cardinality(Storage(c))
            rs == Refs(c, ts)
            Of(i) == {<<n, DataOf(file, rs[i])>> : n \in rs[i].names}
<1>1. /\ Laid(file.members, m)
      /\ file = WriteArchive(file.members)
      /\ m.tensors = TensorMembers(c)
      /\ Len(m.tensors) = T
  BY EncodedLaid
<1>2. /\ T \in Nat
      /\ \A i \in 1 .. T : \E s \in Storage(c) :
            /\ Index(c, s) = i - 1
            /\ m.tensors[i].data = The(Captured(c), s).data
  BY <1>1, StoredTensors
<1>. HIDE DEF m, file, T
<1>3. \A i \in 1 .. T : The(file.members, TensorName(i - 1)).data = m.tensors[i].data
  BY <1>1, LaidAuthentic
<1>4. ASSUME NEW i \in DOMAIN ts
      PROVE  /\ ts[i].name \in Names(Captured(c))
             /\ The(Captured(c), ts[i].name) = ts[i]
             /\ rs[i].names = Group(c, ts[i].name)
             /\ rs[i].member = TensorName(Index(c, ts[i].name))
             /\ ts[i].name \in Names(ts)
  <2>1. ts[i] \in Range(Captured(c))
    BY DEF Range
  <2>2. The(Captured(c), ts[i].name) = ts[i] /\ ts[i].name \in Names(Captured(c))
    BY <2>1, CapturedNames
  <2>. QED  BY <2>2 DEF Refs, Ref, Names
<1>5. DOMAIN rs = DOMAIN ts
  BY DEF Refs
<1>. HIDE DEF rs
<1>6. ASSUME NEW i \in DOMAIN ts
      PROVE  DataOf(file, rs[i]) = ts[i].data
  <2>. DEFINE n == ts[i].name
              l == Leader(c, n)
              k == Index(c, l)
  <2>1. n \in Names(Captured(c))
    BY <1>4
  <2>2. l \in Storage(c) /\ k \in 0 .. T - 1 /\ Index(c, n) = k
    BY <2>1, Stores, Indexed DEF T
  <2>3. The(Captured(c), l).data = ts[i].data
    BY <1>4, <2>1, Grouped DEF Leader
  <2>. HIDE DEF k, l
  <2>4. k + 1 \in 1 .. T /\ (k + 1) - 1 = k
    BY <1>2, <2>2
  <2>5. PICK s \in Storage(c) : Index(c, s) = k /\ m.tensors[k + 1].data = The(Captured(c), s).data
    BY <1>2, <2>4
  <2>6. s = l
    BY <2>2, <2>5, Indexed DEF k
  <2>7. The(file.members, TensorName(k)).data = m.tensors[k + 1].data
    BY <1>3, <2>4
  <2>8. rs[i].member = TensorName(k)
    BY <1>4, <2>2
  <2>. QED  BY <2>3, <2>5, <2>6, <2>7, <2>8 DEF DataOf
<1>7. ASSUME NEW i \in DOMAIN ts
      PROVE  Of(i) = Contents(c, Group(c, ts[i].name))
  <2>1. \A n \in Group(c, ts[i].name) : The(Captured(c), n).data = ts[i].data
    BY <1>4, Grouped
  <2>. QED  BY <1>4, <1>6, <2>1 DEF Contents
<1>8. Tensors(file, rs) = UNION {Of(i) : i \in DOMAIN ts}
  BY <1>5 DEF Tensors
<1>. HIDE DEF Of
<1>9. Listed(c, ts) = UNION {Group(c, ts[i].name) : i \in DOMAIN ts}
  BY DEF Listed, Names
<1>10. UNION {Of(i) : i \in DOMAIN ts} \subseteq Contents(c, Listed(c, ts))
  <2>1. \A i \in DOMAIN ts : \A x \in Of(i) :
           \E n \in Listed(c, ts) : x = <<n, The(Captured(c), n).data>>
    BY <1>7, <1>9 DEF Contents
  <2>. QED  BY <2>1 DEF Contents
<1>11. Contents(c, Listed(c, ts)) \subseteq UNION {Of(i) : i \in DOMAIN ts}
  <2>. SUFFICES ASSUME NEW n \in Listed(c, ts)
                PROVE  \E i \in DOMAIN ts : <<n, The(Captured(c), n).data>> \in Of(i)
    BY DEF Contents
  <2>1. PICK i \in DOMAIN ts : n \in Group(c, ts[i].name)
    BY <1>9
  <2>. QED  BY <1>7, <2>1 DEF Contents
<1>. QED  BY <1>8, <1>10, <1>11 DEF rs, file

(* What a restore takes out of the archive of a loadable capture.          *)
LEMMA Restores ==
    ASSUME NEW c, NEW by, NEW parent, Taken(c),
           Listed(c, c.params) = NamesIn(c.desc.params),
           Listed(c, c.buffers) = NamesIn(c.desc.buffers)
    PROVE  RestoredState(Encode(c, by, parent)) = StateOf(c)
<1>. DEFINE m == ManifestOf(c, by, parent)
            file == Encode(c, by, parent)
            Data(ts) == {<<ts[i].name, ts[i].data>> : i \in DOMAIN ts}
            Role(ns) == {d \in Data(Model(c)) : d[1] \in ns}
<1>1. ManifestData(file) = m
  BY EncodedLaid, LaidParses
<1>2. Carries(m, c, by)
  BY Components
<1>3. \A ts : Range(ts) \subseteq Range(Captured(c))
                 => /\ Tensors(file, Refs(c, ts)) = Contents(c, Listed(c, ts))
                    /\ Data(ts) = Contents(c, Names(ts))
  BY RestoredTensors, ListContents
<1>. HIDE DEF m, file, Data
<1>4. /\ Range(c.params) \subseteq Range(Captured(c))
      /\ Range(c.buffers) \subseteq Range(Captured(c))
      /\ Range(Model(c)) \subseteq Range(Captured(c))
      /\ Range(c.scheduler) \subseteq Range(Captured(c))
      /\ Range(c.scaler) \subseteq Range(Captured(c))
      /\ Names(c.scheduler) \cap Names(Model(c)) = {}
      /\ Names(c.scaler) \cap Names(Model(c)) = {}
  BY CapturedParts
<1>. DEFINE both == c.optimizer \o c.slots
<1>5. /\ Range(both) \subseteq Range(Captured(c))
      /\ Names(both) \cap Names(Model(c)) = {}
      /\ Refs(c, c.optimizer) \o Refs(c, c.slots) = Refs(c, both)
  <2>1. c.optimizer \in Seq(CapturedTensor) /\ c.slots \in Seq(CapturedTensor)
    BY CaptureTyped DEF Taken
  <2>. DEFINE X == CapturedTensor
  <2>. HIDE DEF X
  <2>2. c.optimizer \in Seq(X) /\ c.slots \in Seq(X)
    BY <2>1 DEF X
  <2>3. Range(both) = Range(c.optimizer) \cup Range(c.slots)
    BY <2>2, RangeConcat
  <2>4. Names(both) = Names(c.optimizer) \cup Names(c.slots)
    BY <2>2, JoinedNames
  <2>5. Refs(c, both) = Refs(c, c.optimizer) \o Refs(c, c.slots)
    BY <2>2, RefsConcat
  <2>. HIDE DEF both
  <2>. QED  BY <2>3, <2>4, <2>5, CapturedParts
<1>. HIDE DEF both
<1>6. \A ns : ns \subseteq Names(Model(c)) => Role(ns) = Contents(c, ns)
  <2>1. Data(Model(c)) = Contents(c, Names(Model(c)))
    BY <1>3, <1>4
  <2>. QED  BY <2>1 DEF Contents
<1>7. /\ Tensors(file, Refs(c, c.params)) = Role(NamesIn(c.desc.params))
      /\ Tensors(file, Refs(c, c.buffers)) = Role(NamesIn(c.desc.buffers))
  <2>. HIDE DEF Role
  <2>. QED  BY <1>3, <1>4, <1>6, RoleDescribed
<1>8. Tensors(file, Refs(c, both)) = Data(both)
  BY <1>3, <1>5, ListedNames
<1>9. Tensors(file, Refs(c, c.scheduler)) = Data(c.scheduler)
  BY <1>3, <1>4, ListedNames
<1>10. Tensors(file, Refs(c, c.scaler)) = Data(c.scaler)
  BY <1>3, <1>4, ListedNames
<1>11. (IF Len(m.components) = Required THEN {} ELSE Tensors(file, m.components[10].tensors))
          = Data(c.scaler)
  <2>1. CASE c.desc.scaler = <<>>
    <3>1. c.scaler = <<>>
      BY <2>1 DEF Taken, CaptureAccepted
    <3>2. Data(c.scaler) = {}
      BY <3>1 DEF Data
    <3>3. Len(m.components) = Required
      BY <1>2, <2>1 DEF Carries
    <3>. QED  BY <3>2, <3>3
  <2>2. CASE c.desc.scaler # <<>>
    <3>1. Len(m.components) = Required + 1
      BY <1>2, <2>2 DEF Carries
    <3>2. Len(m.components) > Required
      BY <3>1 DEF Required
    <3>3. m.components[10] = [descriptor |-> c.desc.scaler, tensors |-> Refs(c, c.scaler)]
      BY <1>2, <3>2, Zenon DEF Carries
    <3>4. m.components[10].tensors = Refs(c, c.scaler)
      BY <3>3
    <3>. QED  BY <1>10, <3>1, <3>4 DEF Required
  <2>. QED  BY <2>1, <2>2
<1>12. /\ m.components[4] = c.rng
       /\ m.components[5] = c.cursor
       /\ m.components[6] = c.counters
       /\ m.components[7].params = Refs(c, c.params)
       /\ m.components[7].buffers = Refs(c, c.buffers)
       /\ m.components[8].single \o m.components[8].tensors = Refs(c, both)
       /\ m.components[8].scalar = c.scalars.optimizer
       /\ m.components[9].tensors = Refs(c, c.scheduler)
       /\ m.components[9].scalar = c.scalars.scheduler
  <2>1. m.components[8].single = Refs(c, c.optimizer) /\ m.components[8].tensors = Refs(c, c.slots)
    BY <1>2 DEF Carries
  <2>. QED  BY <1>2, <1>5, <2>1 DEF Carries
<1>13. c.scalars = [optimizer |-> c.scalars.optimizer, scheduler |-> c.scalars.scheduler]
  BY CaptureTyped DEF Taken
<1>14. RestoredState(file) =
          [params |-> Role(NamesIn(c.desc.params)), buffers |-> Role(NamesIn(c.desc.buffers)),
           optimizer |-> Data(both), scheduler |-> Data(c.scheduler), scaler |-> Data(c.scaler),
           scalars |-> c.scalars, cursor |-> c.cursor, counters |-> c.counters, rng |-> c.rng]
  <2>. HIDE DEF Role
  <2>1. RestoredState(file) =
          [params    |-> Tensors(file, m.components[7].params),
           buffers   |-> Tensors(file, m.components[7].buffers),
           optimizer |-> Tensors(file, m.components[8].single \o m.components[8].tensors),
           scheduler |-> Tensors(file, m.components[9].tensors),
           scaler    |-> IF Len(m.components) = Required THEN {}
                         ELSE Tensors(file, m.components[10].tensors),
           scalars   |-> [optimizer |-> m.components[8].scalar,
                          scheduler |-> m.components[9].scalar],
           cursor    |-> m.components[5], counters |-> m.components[6],
           rng |-> m.components[4]]
    BY <1>1 DEF RestoredState
  <2>. QED  BY <1>7, <1>8, <1>9, <1>11, <1>12, <1>13, <2>1
<1>15. StateOf(c) =
          [params |-> Role(NamesIn(c.desc.params)), buffers |-> Role(NamesIn(c.desc.buffers)),
           optimizer |-> Data(both), scheduler |-> Data(c.scheduler), scaler |-> Data(c.scaler),
           scalars |-> c.scalars, cursor |-> c.cursor, counters |-> c.counters, rng |-> c.rng]
  BY DEF StateOf, Data, Model, both
<1>. QED  BY <1>14, <1>15 DEF file

(* A reader finds the manifest that was written.                           *)
LEMMA EncodedManifest ==
    ASSUME NEW c, NEW by, NEW parent, Taken(c)
    PROVE  ManifestData(Encode(c, by, parent)) = ManifestOf(c, by, parent)
BY EncodedLaid, LaidParses

(* The keys of the slots resolve exactly if no parameter has slots in two  *)
(* groups.                                                                 *)
LEMMA KeysResolve ==
    ASSUME NEW c, NEW by, NEW parent, Taken(c)
    PROVE  SlotKeysResolve(ManifestOf(c, by, parent))
              <=> ~\E s, t \in c.desc.slots : s.param = t.param /\ s.group # t.group
<1>. DEFINE m == ManifestOf(c, by, parent)
            D == c.desc.slots
            Of(n) == {d \in D : SlotTensor(d.param) = n}
            Owners(n) == {s.group : s \in Of(n)}
            Shared == \E s, t \in D : s.param = t.param /\ s.group # t.group
<1>1. m.components[8].tensors = Refs(c, c.slots) /\ m.compat = c.desc
  <2>1. Carries(m, c, by) /\ m.compat = c.desc
    BY Components DEF ManifestOf
  <2>. HIDE DEF m
  <2>. QED  BY <2>1 DEF Carries
<1>. HIDE DEF m
<1>2. DOMAIN Refs(c, c.slots) = DOMAIN c.slots
  BY DEF Refs
<1>3. ASSUME NEW i \in DOMAIN c.slots
      PROVE  Min(Refs(c, c.slots)[i].names) = c.slots[i].name
  <2>. DEFINE n == c.slots[i].name
  <2>1. n \in Names(c.slots)
    BY DEF Names
  <2>2. Range(c.slots) \subseteq Range(Captured(c)) /\ Names(c.slots) \cap Names(Model(c)) = {}
    BY CapturedParts
  <2>3. n \in Names(Captured(c)) /\ n \notin Names(Model(c))
    BY <2>1, <2>2, ListedNames
  <2>4. Group(c, n) = {n} /\ Min(Group(c, n)) \in Group(c, n)
    BY <2>3, Grouped
  <2>5. Refs(c, c.slots)[i].names = Group(c, n)
    BY DEF Refs, Ref
  <2>. QED  BY <2>4, <2>5
<1>4. SlotKeysResolve(m) <=> \A n \in Names(c.slots) : Cardinality(Owners(n)) = 1
  <2>1. SlotKeysResolve(m) <=> \A i \in DOMAIN c.slots : Cardinality(Owners(c.slots[i].name)) = 1
    <3>. DEFINE Key(i) == Min(Refs(c, c.slots)[i].names)
    <3>1. SlotKeysResolve(m) <=> \A i \in DOMAIN c.slots : Cardinality(Owners(Key(i))) = 1
      BY <1>1, <1>2 DEF SlotKeysResolve
    <3>2. \A i \in DOMAIN c.slots : Key(i) = c.slots[i].name
      BY <1>3
    <3>. HIDE DEF Owners, Key
    <3>. QED  BY <3>1, <3>2
  <2>. HIDE DEF Owners
  <2>. QED  BY <2>1 DEF Names
<1>5. IsFiniteSet(D) /\ \A s, t \in D : s.group = t.group /\ s.param = t.param => s = t
  BY DescriptorTyped, CaptureTyped DEF Taken
<1>6. D \subseteq [group : Nat, param : Nat, shape : Nat, dtype : Nat]
  BY DescriptorTyped, CaptureTyped DEF Taken, OptimizerStateSlot
<1>7. SlotsAgree(c)
  BY DEF Taken, CaptureAccepted
<1>8. \A n : IsFiniteSet(Owners(n))
  <2>. SUFFICES ASSUME NEW n PROVE IsFiniteSet(Owners(n))
    OBVIOUS
  <2>. DEFINE f == [s \in Of(n) |-> s.group]
  <2>1. IsFiniteSet(Of(n))
    BY <1>5, FS_Subset
  <2>2. Owners(n) = {f[s] : s \in DOMAIN f} /\ DOMAIN f = Of(n)
    OBVIOUS
  <2>. HIDE DEF f, Of
  <2>. QED  BY <2>1, <2>2, ImageFinite
<1>9. CASE c.slots # <<>>
  <2>1. Names(c.slots) = {SlotTensor(s.param) : s \in D}
    <3>. DEFINE K == {[name |-> SlotTensor(s.param), shape |-> s.shape, dtype |-> s.dtype] : s \in D}
    <3>1. Shapes(c.slots) = K
      BY <1>7, <1>9 DEF SlotsAgree
    <3>2. ASSUME NEW n \in Names(c.slots) PROVE \E s \in D : n = SlotTensor(s.param)
      <4>1. PICK i \in DOMAIN c.slots : n = c.slots[i].name
        BY DEF Names
      <4>. DEFINE k == [name |-> c.slots[i].name, shape |-> c.slots[i].shape,
                        dtype |-> c.slots[i].dtype]
      <4>2. k \in K
        BY <3>1 DEF Shapes
      <4>3. k.name = n
        BY <4>1
      <4>. QED  BY <4>2, <4>3
    <3>3. ASSUME NEW s \in D PROVE SlotTensor(s.param) \in Names(c.slots)
      <4>. DEFINE k == [name |-> SlotTensor(s.param), shape |-> s.shape, dtype |-> s.dtype]
      <4>1. k \in Shapes(c.slots) /\ k.name = SlotTensor(s.param)
        BY <3>1
      <4>. HIDE DEF k
      <4>. QED  BY <4>1 DEF Shapes, Names
    <3>. QED  BY <3>2, <3>3
  <2>2. \A p, q \in Nat : SlotTensor(p) = SlotTensor(q) => p = q
    BY DEF SlotTensor
  <2>3. ASSUME Shared
        PROVE  \E n \in Names(c.slots) : Cardinality(Owners(n)) # 1
    <3>1. PICK s \in D, t \in D : s.param = t.param /\ s.group # t.group
      BY <2>3
    <3>. DEFINE n == SlotTensor(s.param)
    <3>2. s.group \in Owners(n) /\ t.group \in Owners(n)
      BY <3>1
    <3>. HIDE DEF Owners
    <3>3. Cardinality(Owners(n)) # 1
      <4>. SUFFICES ASSUME Cardinality(Owners(n)) = 1 PROVE FALSE
        OBVIOUS
      <4>1. \E x : Owners(n) = {x}
        BY <1>8, FS_Singleton
      <4>. QED  BY <3>1, <3>2, <4>1
    <3>. QED  BY <2>1, <3>1, <3>3
  <2>4. ASSUME ~Shared, NEW n \in Names(c.slots)
        PROVE  Cardinality(Owners(n)) = 1
    <3>1. PICK s \in D : n = SlotTensor(s.param)
      BY <2>1, <2>4
    <3>2. \A t \in D : SlotTensor(t.param) = n => t.group = s.group
      <4>1. \A t \in D : t.param \in Nat
        BY <1>6
      <4>. QED  BY <2>2, <2>4, <3>1, <4>1
    <3>3. Owners(n) = {s.group}
      BY <3>1, <3>2
    <3>. QED  BY <3>3, FS_Singleton
  <2>. HIDE DEF Owners, Shared
  <2>5. SlotKeysResolve(m) <=> ~Shared
    BY <1>4, <2>3, <2>4
  <2>. QED  BY <2>5 DEF Shared, m
<1>10. CASE c.slots = <<>>
  <2>1. Names(c.slots) = {}
    BY <1>10 DEF Names
  <2>2. \A s, t \in D : s = t
    <3>1. CASE c.optimizer # <<>>
      <4>1. Cardinality(D) = 1
        BY <1>7, <1>10, <3>1 DEF SlotsAgree
      <4>2. \E x : D = {x}
        BY <1>5, <4>1, FS_Singleton
      <4>. QED  BY <4>2
    <3>2. CASE c.optimizer = <<>>
      <4>1. D = {}
        BY <1>7, <1>10, <3>2 DEF SlotsAgree
      <4>. QED  BY <4>1
    <3>. QED  BY <3>1, <3>2
  <2>3. SlotKeysResolve(m)
    BY <1>4, <2>1
  <2>. QED  BY <2>2, <2>3 DEF m
<1>. QED  BY <1>9, <1>10

----------------------------------------------------------------------------
(* The store, by its inductive invariant.                                  *)

(* The steps a call goes through and the fields it keeps.                  *)
SaveSteps == {"stream", "publish", "unlink", "verify"}
LoadSteps == {"resolve", "open", "read", "parse", "bind", "drop"}
SaveFields == {"step", "c", "by", "store", "parent", "id", "raised"}
LoadFields == {"step", "id", "record", "by", "parent", "file"}
RecordFields == {"run", "attempt", "spec", "parent", "file", "retention"}

(* The parallel sequences of the registry, and what a call knows.          *)
Typing ==
    /\ records \in Seq(Range(records))
    /\ content \in Seq(Range(content))
    /\ origin \in Seq(Range(origin))
    /\ Len(content) = Len(records)
    /\ Len(origin) = Len(records)
    /\ \A id \in DOMAIN records : DOMAIN records[id] = RecordFields
    /\ returned \subseteq DOMAIN records
    /\ DOMAIN job = Procs
    /\ faults \in 0 .. MaxFaults
    /\ \A p \in Procs :
          \/ job[p].step = "idle"
          \/ /\ p \in Savers
             /\ job[p].step \in SaveSteps
             /\ DOMAIN job[p] = SaveFields
             /\ job[p].raised \in BOOLEAN
          \/ /\ p \in Loaders
             /\ job[p].step \in LoadSteps
             /\ DOMAIN job[p] = LoadFields

(* An archive of the capture c.                                            *)
Made(c, by, parent, file) ==
    /\ CaptureAccepted(c)
    /\ Encodable(c)
    /\ file = Encode(c, by, parent)

(* Every record is of an archive of a capture, or one of another encoder.  *)
FromCapture(id) ==
    \E c, by, parent :
        /\ origin[id] = <<c, by>>
        /\ Made(c, by, parent, records[id].file)
FromElsewhere(id) ==
    \E c \in Captures(<<>>), by \in Given :
        /\ origin[id] = <<>>
        /\ CaptureAccepted(c)
        /\ Encodable(c)
        /\ \E file \in Foreign(Encode(c, by, <<>>)) :
              /\ records[id].file = file
              /\ records[id].run = by.run
              /\ records[id].attempt = by.attempt
              /\ records[id].spec = by.spec
              /\ records[id].parent = <<>>
Registered == \A id \in DOMAIN records : FromCapture(id) \/ FromElsewhere(id)

(* A save that has published knows its record.                             *)
Published(j) ==
    /\ j.id \in DOMAIN records
    /\ origin[j.id] = <<j.c, j.by>>
    /\ records[j.id].file = Encode(j.c, j.by, j.parent)
(* A save goes on only with a capture it has accepted.                     *)
Saving ==
    \A p \in Savers : job[p].step # "idle" =>
        /\ CaptureAccepted(job[p].c)
        /\ Encodable(job[p].c)
        /\ job[p].step = "unlink" /\ ~job[p].raised => Published(job[p])
        /\ job[p].step = "verify" => Published(job[p])

(* What verification has found out about a checkpoint whose save returned. *)
Verified(id) ==
    \E c, by, parent :
        /\ origin[id] = <<c, by>>
        /\ Made(c, by, parent, records[id].file)
        /\ records[id].parent = parent
        /\ records[id].run = by.run
        /\ records[id].attempt = by.attempt
        /\ records[id].spec = by.spec
Returned == \A id \in returned : Verified(id)

(* All of a record but its retention.                                      *)
SameRecord(r, s) ==
    /\ r.run = s.run
    /\ r.attempt = s.attempt
    /\ r.spec = s.spec
    /\ r.parent = s.parent
    /\ r.file = s.file

(* A load knows the record it was given, and what it parsed.               *)
Loading ==
    \A p \in Loaders : job[p].step # "idle" =>
        /\ job[p].id \in DOMAIN records
        /\ SameRecord(job[p].record, records[job[p].id])
        /\ job[p].step = "bind" =>
              /\ job[p].file = job[p].record.file
              /\ Parses(job[p].file)
              /\ ManifestFirst(job[p].file)
              /\ SpillsOf(p, job[p].file) \subseteq temps

(* A process holds at most one handle, of an archive that binds to its     *)
(* record, and none while it loads.                                        *)
Held ==
    /\ \A h \in handles :
          /\ h.by \in Loaders
          /\ h.id \in DOMAIN records
          /\ h.file = records[h.id].file
          /\ Loads(h.file, records[h.id])
          /\ h.spills = SpillsOf(h.by, h.file)
          /\ h.spills \subseteq temps
          /\ job[h.by].step \in {"idle", "drop"}
    /\ \A g, h \in handles : g.by = h.by => g = h

(* Each temporary file is the one of the step its process is in, or a spill*)
(* of a handle.                                                            *)
Files ==
    \A t \in temps :
        /\ t[1] \in Procs
        /\ t[2][1] \in {2, 3, 4}
        /\ \/ job[t[1]].step \in {"stream", "publish", "unlink"} /\ t = <<t[1], SaveFile>>
           \/ job[t[1]].step \in {"parse", "bind", "drop"} /\ t = <<t[1], CopyFile>>
           \/ job[t[1]].step = "bind" /\ t \in SpillsOf(t[1], job[t[1]].file)
           \/ \E h \in handles : t \in h.spills

(* Files stay behind only after a failure, or after an archive that does   *)
(* not begin with a manifest.                                              *)
Kept ==
    kept # {} => \/ faults > 0
                 \/ \E id \in DOMAIN records : ~ManifestFirst(records[id].file)

(* The inductive invariant.                                                *)
StoreInv ==
    /\ Typing
    /\ Registered
    /\ Saving
    /\ Returned
    /\ Loading
    /\ Held
    /\ Files
    /\ Kept

(* Registering appends to the parallel sequences of the registry: the      *)
(* earlier entries stay where they are.                                    *)
LEMMA AppendSeq ==
    ASSUME NEW s, s \in Seq(Range(s)), NEW x
    PROVE  /\ Append(s, x) \in Seq(Range(Append(s, x)))
           /\ Len(Append(s, x)) = Len(s) + 1
           /\ DOMAIN Append(s, x) = 1 .. Len(s) + 1
           /\ DOMAIN s = 1 .. Len(s)
           /\ Len(s) \in Nat
           /\ \A i \in 1 .. Len(s) : Append(s, x)[i] = s[i]
           /\ Append(s, x)[Len(s) + 1] = x
<1>. DEFINE S == Range(s) \cup {x}
<1>1. s \in Seq(S)
  BY SeqMonotonic
<1>2. /\ Append(s, x) \in Seq(S)
      /\ Len(Append(s, x)) = Len(s) + 1
      /\ \A i \in 1 .. Len(s) : Append(s, x)[i] = s[i]
      /\ Append(s, x)[Len(s) + 1] = x
  <2>. HIDE DEF S
  <2>1. x \in S
    BY DEF S
  <2>. QED  BY <1>1, <2>1, AppendProperties
<1>3. DOMAIN Append(s, x) = 1 .. Len(s) + 1 /\ DOMAIN s = 1 .. Len(s) /\ Len(s) \in Nat
  BY <1>2, <1>1, LenProperties
<1>4. Append(s, x) \in [1 .. Len(s) + 1 -> Range(Append(s, x))]
  <2>. HIDE DEF S
  <2>1. Append(s, x) = [i \in DOMAIN Append(s, x) |-> Append(s, x)[i]]
    BY <1>2, LenProperties
  <2>. DEFINE t == Append(s, x)
  <2>2. \A i \in DOMAIN t : t[i] \in Range(t)
    BY DEF Range
  <2>. HIDE DEF t
  <2>3. t = [i \in 1 .. Len(s) + 1 |-> t[i]]
    BY <2>1, <1>3 DEF t
  <2>4. DOMAIN t = 1 .. Len(s) + 1
    BY <1>3 DEF t
  <2>5. t \in [1 .. Len(s) + 1 -> Range(t)]
    BY <2>2, <2>3, <2>4
  <2>. QED  BY <2>5 DEF t
<1>5. Append(s, x) \in Seq(Range(Append(s, x)))
  <2>1. Len(s) + 1 \in Nat
    BY <1>3
  <2>. QED  BY <1>4, <2>1, SeqDef
<1>. QED  BY <1>2, <1>3, <1>5

(* The invariant holds of the empty store.                                 *)
THEOREM InitStore == Init => StoreInv
<1>. SUFFICES ASSUME Init PROVE StoreInv
  OBVIOUS
<1>1. <<>> \in Seq(Range(<<>>))
  BY EmptySeq
<1>2. DOMAIN <<>> = {} /\ Len(<<>>) = 0
  OBVIOUS
<1>3. Typing
  BY <1>1, StoreConstants DEF Init, Typing, Idle
<1>. QED  BY <1>2, <1>3 DEF Init, StoreInv, Registered, Saving, Returned, Loading, Held, Files, Kept, Idle, Procs

(* load looks at nothing of a record but what every copy of it has.        *)
LEMMA LoadsSame ==
    ASSUME NEW file, NEW r, NEW s, SameRecord(r, s), Loads(file, r)
    PROVE  Loads(file, s)
BY DEF SameRecord, Loads, RecordBinds, ComponentsBind, OriginBinds

(* The parts that do not change when the registry and a process' own call  *)
(* are left alone.                                                         *)
LEMMA DiskFrame ==
    ASSUME StoreInv, UNCHANGED disk
    PROVE  /\ Registered'
           /\ \A id : Verified(id) => Verified(id)'
           /\ \A j : Published(j) => Published(j)'
<1>1. Registered'
  BY DEF StoreInv, Registered, FromCapture, FromElsewhere, disk
<1>2. \A id : Verified(id) => Verified(id)'
  BY DEF Verified, disk
<1>3. \A j : Published(j) => Published(j)'
  BY DEF Published, disk
<1>. QED  BY <1>1, <1>2, <1>3

(* A file spilled by the streaming parser belongs to the process that      *)
(* parses, and carries the name of a tensor member.                        *)
LEMMA SpillsNamed ==
    ASSUME NEW p, NEW file, NEW t \in SpillsOf(p, file)
    PROVE  /\ t[1] = p
           /\ t[2][1] = 2
<1>1. PICK u \in Spilled(file) : t = <<p, u>>
  BY DEF SpillsOf
<1>2. u[1] = 2
  BY <1>1 DEF Spilled
<1>. QED  BY <1>1, <1>2

(* save: the checks on the capture and the temporary file it opens.        *)
LEMMA SaveBeginStep ==
    ASSUME StoreInv, NEW p \in Savers, SaveBegin(p)
    PROVE  StoreInv'
<1>. USE DEF StoreInv
<1>. DEFINE Begun(c, by, store, parent) ==
               /\ CaptureAccepted(c)
               /\ Encodable(c)
               /\ job' = [job EXCEPT ![p] =
                             [step |-> "stream", c |-> c, by |-> by, store |-> store,
                              parent |-> parent, id |-> 0, raised |-> FALSE]]
               /\ temps' = temps \cup {<<p, SaveFile>>}
<1>0. PICK c \in Captures(origin), by \in Given, store \in Identities :
         \E parent : Begun(c, by, store, parent)
  BY DEF SaveBegin
<1>1. PICK parent : Begun(c, by, store, parent)
  BY <1>0
<1>2. /\ UNCHANGED <<disk, returned, kept, handles, faults>>
      /\ job[p].step = "idle"
  BY DEF SaveBegin
<1>3. p \in Procs /\ p \notin Loaders
  BY StoreConstants DEF Procs
<1>4. /\ job'[p].step = "stream"
      /\ job'[p].c = c
      /\ DOMAIN job'[p] = SaveFields
      /\ job'[p].raised = FALSE
      /\ DOMAIN job' = Procs
      /\ \A q \in Procs : q # p => job'[q] = job[q]
  BY <1>1, <1>3 DEF Typing, SaveFields
<1>5. Typing'
  BY <1>2, <1>3, <1>4 DEF Typing, disk, SaveSteps
<1>6. Saving'
  BY <1>1, <1>2, <1>4, DiskFrame DEF Saving, Procs
<1>7. Returned'
  BY <1>2, DiskFrame DEF Returned
<1>8. Loading'
  BY <1>1, <1>2, <1>3, <1>4 DEF Loading, disk, Procs
<1>9. Held'
  BY <1>1, <1>2, <1>3, <1>4 DEF Held, disk, Procs
<1>10. Files'
  BY <1>1, <1>2, <1>3, <1>4 DEF Files, SaveFile
<1>11. Kept'
  BY <1>2 DEF Kept, disk
<1>. QED  BY <1>2, <1>5, <1>6, <1>7, <1>8, <1>9, <1>10, <1>11, DiskFrame

(* save: the members are streamed into the temporary file, or a write      *)
(* fails.                                                                  *)
LEMMA SaveStreamStep ==
    ASSUME StoreInv, NEW p \in Savers, SaveStream(p)
    PROVE  StoreInv'
<1>. USE DEF StoreInv
<1>1. /\ UNCHANGED <<disk, returned, temps, kept, handles>>
      /\ job[p].step = "stream"
      /\ faults' \in {faults, faults + 1}
      /\ faults' \in 0 .. MaxFaults
  BY StoreConstants DEF SaveStream, Fault, NoFault, Typing
<1>2. p \in Procs /\ p \notin Loaders /\ DOMAIN job[p] = SaveFields
  BY <1>1, StoreConstants DEF Procs, Typing, LoadSteps
<1>3. /\ job'[p].step \in {"publish", "unlink"}
      /\ job'[p].step = "unlink" => job'[p].raised = TRUE
      /\ job'[p].raised \in BOOLEAN
      /\ job'[p].c = job[p].c
      /\ DOMAIN job'[p] = SaveFields
      /\ DOMAIN job' = Procs
      /\ \A q \in Procs : q # p => job'[q] = job[q]
  <2>1. CASE Goto(p, "publish")
    BY <2>1, <1>1, <1>2 DEF Typing, SaveFields, Goto, LoadSteps
  <2>2. CASE job' = [job EXCEPT ![p].step = "unlink", ![p].raised = TRUE]
    BY <2>2, <1>1, <1>2 DEF Typing, SaveFields, LoadSteps
  <2>. QED  BY <2>1, <2>2 DEF SaveStream
<1>4. Typing'
  BY <1>1, <1>2, <1>3 DEF Typing, disk, SaveSteps
<1>5. Saving'
  BY <1>1, <1>2, <1>3, DiskFrame DEF Saving, Procs
<1>6. Returned'
  BY <1>1, DiskFrame DEF Returned
<1>7. Loading'
  BY <1>1, <1>2, <1>3 DEF Loading, disk, Procs
<1>8. Held'
  BY <1>1, <1>2, <1>3 DEF Held, disk, Procs
<1>9. Files'
  BY <1>1, <1>2, <1>3 DEF Files, SaveFile
<1>10. Kept'
  BY <1>1 DEF Kept, disk, Typing
<1>. QED  BY <1>1, <1>4, <1>5, <1>6, <1>7, <1>8, <1>9, <1>10, DiskFrame

(* A new record leaves the earlier ones and what is known of them as it is.*)
LEMMA RegisterFrame ==
    ASSUME StoreInv, NEW file, NEW store, NEW parent, NEW made,
           Register(file, store, parent, made)
    PROVE  /\ records' \in Seq(Range(records'))
           /\ content' \in Seq(Range(content'))
           /\ origin' \in Seq(Range(origin'))
           /\ Len(records') = Len(records) + 1
           /\ Len(content') = Len(records')
           /\ Len(origin') = Len(records')
           /\ Len(records) \in Nat
           /\ DOMAIN records = 1 .. Len(records)
           /\ DOMAIN records' = 1 .. Len(records) + 1
           /\ records'[Len(records) + 1] = NewRecord(file, store, parent)
           /\ origin'[Len(records) + 1] = made
           /\ \A id \in DOMAIN records : records'[id] = records[id] /\ origin'[id] = origin[id]
           /\ \A id \in DOMAIN records : FromCapture(id) => FromCapture(id)'
           /\ \A id \in DOMAIN records : FromElsewhere(id) => FromElsewhere(id)'
           /\ \A id \in DOMAIN records : Verified(id) => Verified(id)'
           /\ \A j : Published(j) => Published(j)'
<1>1. /\ records' = Append(records, NewRecord(file, store, parent))
      /\ content' = Append(content, file)
      /\ origin' = Append(origin, made)
  BY DEF Register
<1>2. /\ records \in Seq(Range(records))
      /\ content \in Seq(Range(content))
      /\ origin \in Seq(Range(origin))
      /\ Len(content) = Len(records)
      /\ Len(origin) = Len(records)
  BY DEF StoreInv, Typing
<1>. DEFINE new == NewRecord(file, store, parent)
<1>. HIDE DEF new
<1>3. /\ records' \in Seq(Range(records'))
      /\ Len(records') = Len(records) + 1
      /\ DOMAIN records' = 1 .. Len(records) + 1
      /\ DOMAIN records = 1 .. Len(records)
      /\ Len(records) \in Nat
      /\ \A id \in 1 .. Len(records) : records'[id] = records[id]
      /\ records'[Len(records) + 1] = new
  <2>1. records' = Append(records, new)
    BY <1>1 DEF new
  <2>. QED  BY <2>1, <1>2, AppendSeq
<1>4. /\ content' \in Seq(Range(content'))
      /\ Len(content') = Len(content) + 1
  BY <1>1, <1>2, AppendSeq
<1>5. /\ origin' \in Seq(Range(origin'))
      /\ Len(origin') = Len(origin) + 1
      /\ \A id \in 1 .. Len(origin) : origin'[id] = origin[id]
      /\ origin'[Len(origin) + 1] = made
  BY <1>1, <1>2, AppendSeq
<1>6. \A id \in DOMAIN records : records'[id] = records[id] /\ origin'[id] = origin[id]
  BY <1>2, <1>3, <1>5
<1>7. \A id \in DOMAIN records : FromCapture(id) => FromCapture(id)'
  BY <1>6 DEF FromCapture
<1>8. \A id \in DOMAIN records : FromElsewhere(id) => FromElsewhere(id)'
  BY <1>6 DEF FromElsewhere
<1>9. \A id \in DOMAIN records : Verified(id) => Verified(id)'
  BY <1>6 DEF Verified
<1>10. \A j : Published(j) => Published(j)'
  <2>1. \A id \in DOMAIN records : id \in DOMAIN records'
    BY <1>3
  <2>. QED  BY <1>6, <2>1 DEF Published
<1>. QED  BY <1>2, <1>3, <1>4, <1>5, <1>6, <1>7, <1>8, <1>9, <1>10 DEF new

(* What CheckpointStore.save puts into the record it registers.            *)
LEMMA NewRecordFields ==
    ASSUME NEW file, NEW store, NEW parent
    PROVE  LET r == NewRecord(file, store, parent)
           IN  /\ DOMAIN r = RecordFields
               /\ r.run = store.run
               /\ r.attempt = store.attempt
               /\ r.spec = store.spec
               /\ r.parent = parent
               /\ r.file = file
BY DEF NewRecord, RecordFields

(* save: the artifact store registers the archive, or refuses it.          *)
LEMMA SavePublishStep ==
    ASSUME StoreInv, NEW p \in Savers, SavePublish(p)
    PROVE  StoreInv'
<1>. USE DEF StoreInv
<1>. DEFINE j == job[p]
            file == Encode(j.c, j.by, j.parent)
            Enters == Register(file, j.store, j.parent, <<j.c, j.by>>)
<1>1. /\ UNCHANGED <<returned, temps, kept, handles>>
      /\ j.step = "publish"
      /\ faults' \in {faults, faults + 1}
      /\ faults' \in 0 .. MaxFaults
  BY StoreConstants DEF SavePublish, Fault, NoFault, Typing
<1>2. p \in Procs /\ p \notin Loaders /\ DOMAIN j = SaveFields
  BY <1>1, StoreConstants DEF Procs, Typing, LoadSteps
<1>3. \/ Enters /\ job' = [job EXCEPT ![p].step = "unlink", ![p].id = Len(records) + 1]
      \/ Enters /\ job' = [job EXCEPT ![p].step = "unlink", ![p].raised = TRUE]
      \/ UNCHANGED disk /\ job' = [job EXCEPT ![p].step = "unlink", ![p].raised = TRUE]
  BY DEF SavePublish
<1>4. /\ job'[p].step = "unlink"
      /\ job'[p].raised # TRUE => Enters
      /\ job'[p].raised # TRUE => job'[p].id = Len(records) + 1
      /\ job'[p].raised \in BOOLEAN
      /\ job'[p].c = j.c
      /\ job'[p].by = j.by
      /\ job'[p].parent = j.parent
      /\ DOMAIN job'[p] = SaveFields
      /\ DOMAIN job' = Procs
      /\ \A q \in Procs : q # p => job'[q] = job[q]
  <2>1. DOMAIN job = Procs /\ job[p].raised \in BOOLEAN
    BY <1>1, <1>2 DEF Typing
  <2>. HIDE DEF StoreInv, Enters
  <2>2. CASE job' = [job EXCEPT ![p].step = "unlink", ![p].id = Len(records) + 1]
    <3>1. job'[p] = [job[p] EXCEPT !.step = "unlink", !.id = Len(records) + 1]
      BY <2>1, <2>2, <1>2
    <3>2. Enters \/ job' = [job EXCEPT ![p].step = "unlink", ![p].raised = TRUE]
      BY <1>3
    <3>3. job' = [job EXCEPT ![p].step = "unlink", ![p].raised = TRUE]
             => job'[p] = [job[p] EXCEPT !.step = "unlink", !.raised = TRUE]
      BY <2>1, <1>2
    <3>4. /\ job'[p].step = "unlink"
          /\ job'[p].raised = job[p].raised
          /\ job'[p].id = Len(records) + 1
          /\ job'[p].c = j.c
          /\ job'[p].by = j.by
          /\ job'[p].parent = j.parent
          /\ DOMAIN job'[p] = SaveFields
      BY <3>1, <1>2 DEF SaveFields
    <3>5. job'[p].raised # TRUE => Enters
      BY <3>2, <3>3, <1>2 DEF SaveFields
    <3>6. DOMAIN job' = Procs /\ \A q \in Procs : q # p => job'[q] = job[q]
      BY <2>1, <2>2
    <3>. HIDE DEF j
    <3>. QED  BY <2>1, <3>4, <3>5, <3>6
  <2>3. CASE job' = [job EXCEPT ![p].step = "unlink", ![p].raised = TRUE]
    <3>1. job'[p] = [job[p] EXCEPT !.step = "unlink", !.raised = TRUE]
      BY <2>1, <2>3, <1>2
    <3>2. /\ job'[p].step = "unlink"
          /\ job'[p].raised = TRUE
          /\ job'[p].c = j.c
          /\ job'[p].by = j.by
          /\ job'[p].parent = j.parent
          /\ DOMAIN job'[p] = SaveFields
      BY <3>1, <1>2 DEF SaveFields
    <3>3. DOMAIN job' = Procs /\ \A q \in Procs : q # p => job'[q] = job[q]
      BY <2>1, <2>3
    <3>. QED  BY <2>1, <3>2, <3>3
  <2>. QED  BY <1>3, <2>2, <2>3
<1>5. CaptureAccepted(j.c) /\ Encodable(j.c)
  BY <1>1 DEF Saving
<1>6. CASE Enters
  <2>0. PICK n : n = Len(records) + 1
    OBVIOUS
  <2>. HIDE DEF j, file
  <2>1. /\ records'[n] = NewRecord(file, j.store, j.parent)
        /\ origin'[n] = <<j.c, j.by>>
        /\ Len(records) \in Nat
        /\ DOMAIN records = 1 .. Len(records)
        /\ DOMAIN records' = 1 .. n
        /\ n = Len(records) + 1
        /\ n \in DOMAIN records'
        /\ \A id \in DOMAIN records : id \in DOMAIN records'
        /\ \A id \in DOMAIN records : records'[id] = records[id]
        /\ \A id \in DOMAIN records' : id \in DOMAIN records \/ id = n
    BY <2>0, <1>6, RegisterFrame
  <2>2. FromCapture(n)'
    BY <2>1, <1>5, NewRecordFields DEF FromCapture, Made, file
  <2>3. Registered'
    BY <2>1, <2>2, <1>6, RegisterFrame DEF Registered
  <2>4. job'[p].raised = TRUE \/ Published(job[p])'
    <3>1. records'[n].file = file
      BY <2>1, NewRecordFields
    <3>2. job'[p].raised # TRUE => job'[p].id = n
      BY <2>1, <1>4
    <3>3. file = Encode(job'[p].c, job'[p].by, job'[p].parent)
      BY <1>4 DEF file
    <3>. QED  BY <2>1, <3>1, <3>2, <3>3, <1>4 DEF Published
  <2>5. Typing'
    <3>1. \A id \in DOMAIN records' : DOMAIN records'[id] = RecordFields
      BY <2>1, NewRecordFields DEF Typing
    <3>2. \A q \in Procs :
          \/ job'[q].step = "idle"
          \/ /\ q \in Savers
             /\ job'[q].step \in SaveSteps
             /\ DOMAIN job'[q] = SaveFields
             /\ job'[q].raised \in BOOLEAN
          \/ /\ q \in Loaders
             /\ job'[q].step \in LoadSteps
             /\ DOMAIN job'[q] = LoadFields
      BY <1>4 DEF Typing, SaveSteps
    <3>3. returned' \subseteq DOMAIN records'
      BY <1>1, <2>1 DEF Typing
    <3>. QED  BY <3>1, <3>2, <3>3, <1>1, <1>4, <1>6, RegisterFrame DEF Typing
  <2>6. Saving'
    <3>1. \A q \in Savers : q # p => job'[q] = job[q]
      BY <1>4 DEF Procs
    <3>2. \A k : Published(k) => Published(k)'
      BY <1>6, RegisterFrame
    <3>. QED  BY <2>4, <3>1, <3>2, <1>4, <1>5 DEF Saving, j
  <2>7. Returned'
    BY <1>1, <1>6, RegisterFrame DEF Returned, Typing
  <2>8. Loading'
    <3>1. \A q \in Loaders : job'[q] = job[q]
      BY <1>2, <1>4 DEF Procs
    <3>. QED  BY <1>1, <2>1, <3>1 DEF Loading
  <2>9. Held'
    <3>1. \A q \in Loaders : job'[q] = job[q]
      BY <1>2, <1>4 DEF Procs
    <3>. QED  BY <2>1, <3>1, <1>1 DEF Held
  <2>10. Files'
    BY <1>1, <1>4 DEF Files, j
  <2>11. Kept'
    BY <1>1, <2>1 DEF Kept, Typing
  <2>. QED  BY <2>3, <2>5, <2>6, <2>7, <2>8, <2>9, <2>10, <2>11
<1>7. CASE ~Enters
  <2>1. UNCHANGED disk /\ job'[p].raised = TRUE
    BY <1>3, <1>4, <1>7
  <2>. HIDE DEF Enters, file
  <2>2. Typing'
    BY <1>1, <1>2, <1>4, <2>1 DEF Typing, disk, SaveSteps
  <2>3. Saving'
    BY <1>1, <1>2, <1>4, <1>5, <2>1, DiskFrame DEF Saving, Procs
  <2>4. Returned'
    BY <1>1, <2>1, DiskFrame DEF Returned
  <2>5. Loading'
    BY <1>1, <1>2, <1>4, <2>1 DEF Loading, disk, Procs
  <2>6. Held'
    BY <1>1, <1>2, <1>4, <2>1 DEF Held, disk, Procs
  <2>7. Files'
    BY <1>1, <1>4 DEF Files, j
  <2>8. Kept'
    BY <1>1, <2>1 DEF Kept, disk, Typing
  <2>. QED  BY <2>1, <2>2, <2>3, <2>4, <2>5, <2>6, <2>7, <2>8, DiskFrame
<1>. QED  BY <1>6, <1>7

(* save: the temporary file is removed, whether or not the call raises.    *)
LEMMA SaveUnlinkStep ==
    ASSUME StoreInv, NEW p \in Savers, SaveUnlink(p)
    PROVE  StoreInv'
<1>. USE DEF StoreInv
<1>1. /\ UNCHANGED <<disk, returned, handles>>
      /\ job[p].step = "unlink"
      /\ temps' = temps \ {<<p, SaveFile>>}
      /\ faults' \in {faults, faults + 1}
      /\ faults' \in 0 .. MaxFaults
      /\ kept' = kept \/ faults' = faults + 1
  BY StoreConstants DEF SaveUnlink, Unlink, Fault, NoFault, Typing
<1>2. p \in Procs /\ p \notin Loaders /\ DOMAIN job[p] = SaveFields /\ DOMAIN job = Procs
  BY <1>1, StoreConstants DEF Procs, Typing, LoadSteps
<1>3. /\ \/ job'[p].step = "idle"
         \/ /\ job'[p].step = "verify"
            /\ ~job[p].raised
            /\ DOMAIN job'[p] = SaveFields
            /\ job'[p].raised = job[p].raised
            /\ job'[p].c = job[p].c
            /\ job'[p].by = job[p].by
            /\ job'[p].parent = job[p].parent
            /\ job'[p].id = job[p].id
      /\ DOMAIN job' = Procs
      /\ \A q \in Procs : q # p => job'[q] = job[q]
  <2>1. CASE job[p].raised
    BY <2>1, <1>2 DEF SaveUnlink, Return, Idle
  <2>2. CASE ~job[p].raised
    BY <2>2, <1>2 DEF SaveUnlink, Goto, SaveFields
  <2>. QED  BY <2>1, <2>2
<1>4. Typing'
  <2>1. job[p].raised \in BOOLEAN
    BY <1>1, <1>2 DEF Typing
  <2>. QED  BY <1>1, <1>2, <1>3, <2>1 DEF Typing, disk, SaveSteps
<1>5. Saving'
  <2>1. CASE job'[p].step = "idle"
    BY <1>1, <1>2, <1>3, <2>1, DiskFrame DEF Saving, Procs
  <2>2. CASE job'[p].step # "idle"
    <3>1. Published(job[p]) /\ CaptureAccepted(job[p].c) /\ Encodable(job[p].c)
      BY <1>1, <1>3, <2>2 DEF Saving
    <3>2. Published(job[p])'
      BY <3>1, <1>1, <1>3, <2>2 DEF Published, disk
    <3>. QED  BY <1>1, <1>2, <1>3, <2>2, <3>1, <3>2, DiskFrame DEF Saving, Procs
  <2>. QED  BY <2>1, <2>2
<1>6. Returned'
  BY <1>1, DiskFrame DEF Returned
<1>7. Loading'
  <2>1. \A q \in Loaders : \A file : <<p, SaveFile>> \notin SpillsOf(q, file)
    BY <1>2, SpillsNamed
  <2>. QED  BY <1>1, <1>2, <1>3, <2>1 DEF Loading, disk, Procs
<1>8. Held'
  <2>1. \A h \in handles : <<p, SaveFile>> \notin h.spills
    BY <1>2, SpillsNamed DEF Held
  <2>. QED  BY <1>1, <1>2, <1>3, <2>1 DEF Held, disk, Procs
<1>9. Files'
  BY <1>1, <1>2, <1>3 DEF Files, SaveFile
<1>10. Kept'
  BY <1>1 DEF Kept, disk, Typing
<1>. QED  BY <1>1, <1>4, <1>5, <1>6, <1>7, <1>8, <1>9, <1>10, DiskFrame

(* save: the verification of the published artifact against its record.    *)
LEMMA SaveVerifyStep ==
    ASSUME StoreInv, NEW p \in Savers, SaveVerify(p)
    PROVE  StoreInv'
<1>. USE DEF StoreInv
<1>1. /\ UNCHANGED <<disk, temps, kept, handles, faults>>
      /\ job[p].step = "verify"
      /\ Published(job[p])
      /\ CaptureAccepted(job[p].c)
      /\ Encodable(job[p].c)
  BY DEF SaveVerify, Saving
<1>2. p \in Procs /\ p \notin Loaders /\ DOMAIN job = Procs
  BY <1>1, StoreConstants DEF Procs, Typing
<1>3. /\ job'[p].step = "idle"
      /\ DOMAIN job' = Procs
      /\ \A q \in Procs : q # p => job'[q] = job[q]
  BY <1>2 DEF SaveVerify, Return, Idle
<1>4. \/ returned' = returned
      \/ /\ RecordVerified(records[job[p].id], job[p])
         /\ returned' = returned \cup {job[p].id}
  BY DEF SaveVerify
<1>5. Typing'
  BY <1>1, <1>2, <1>3, <1>4 DEF Typing, disk, Published
<1>6. Saving'
  BY <1>1, <1>2, <1>3, DiskFrame DEF Saving, Procs
<1>7. Returned'
  <2>1. RecordVerified(records[job[p].id], job[p]) => Verified(job[p].id)
    BY <1>1 DEF RecordVerified, Verified, Published, Made
  <2>. QED  BY <1>1, <1>4, <2>1, DiskFrame DEF Returned
<1>8. Loading'
  BY <1>1, <1>2, <1>3 DEF Loading, disk, Procs
<1>9. Held'
  BY <1>1, <1>2, <1>3 DEF Held, disk, Procs
<1>10. Files'
  BY <1>1, <1>2, <1>3 DEF Files
<1>11. Kept'
  BY <1>1 DEF Kept, disk
<1>. QED  BY <1>1, <1>5, <1>6, <1>7, <1>8, <1>9, <1>10, <1>11, DiskFrame

(* What a step of a load leaves alone.                                     *)
LEMMA LoaderFrame ==
    ASSUME StoreInv, NEW p \in Loaders, UNCHANGED <<disk, returned>>,
           DOMAIN job' = Procs, \A q \in Procs : q # p => job'[q] = job[q]
    PROVE  /\ Registered'
           /\ Saving'
           /\ Returned'
<1>. USE DEF StoreInv
<1>1. \A q \in Savers : q \in Procs /\ q # p
  BY StoreConstants DEF Procs
<1>2. Saving'
  BY <1>1, DiskFrame DEF Saving
<1>3. Returned'
  BY DiskFrame DEF Returned
<1>. QED  BY <1>2, <1>3, DiskFrame

(* The fields of a load under way, and of the same load a step further.    *)
LEMMA LoaderTyped ==
    ASSUME StoreInv, NEW p \in Loaders, job[p].step # "idle"
    PROVE  /\ p \in Procs
           /\ p \notin Savers
           /\ DOMAIN job = Procs
           /\ DOMAIN job[p] = LoadFields
           /\ \A s : /\ DOMAIN [job[p] EXCEPT !.step = s] = LoadFields
                     /\ [job[p] EXCEPT !.step = s].step = s
                     /\ [job[p] EXCEPT !.step = s].id = job[p].id
                     /\ [job[p] EXCEPT !.step = s].record = job[p].record
                     /\ [job[p] EXCEPT !.step = s].file = job[p].file
           /\ \A s, f : /\ DOMAIN [job[p] EXCEPT !.step = s, !.file = f] = LoadFields
                        /\ [job[p] EXCEPT !.step = s, !.file = f].step = s
                        /\ [job[p] EXCEPT !.step = s, !.file = f].id = job[p].id
                        /\ [job[p] EXCEPT !.step = s, !.file = f].record = job[p].record
                        /\ [job[p] EXCEPT !.step = s, !.file = f].file = f
<1>1. p \in Procs /\ p \notin Savers
  BY StoreConstants DEF Procs
<1>2. DOMAIN job = Procs /\ DOMAIN job[p] = LoadFields
  BY <1>1 DEF StoreInv, Typing
<1>. QED  BY <1>1, <1>2 DEF LoadFields

(* A load that ends or goes on without a new file.                         *)
LEMMA QuietLoad ==
    ASSUME StoreInv, NEW p \in Loaders, NEW next \in LoadSteps \cup {"idle"},
           job[p].step \in {"resolve", "open"},
           next \notin {"bind"},
           UNCHANGED <<disk, returned, temps, kept, handles, faults>>,
           DOMAIN job' = Procs,
           \A q \in Procs : q # p => job'[q] = job[q],
           job'[p].step = next,
           next # "idle" => /\ DOMAIN job'[p] = LoadFields
                            /\ job'[p].id = job[p].id
                            /\ job'[p].record = job[p].record
    PROVE  StoreInv'
<1>. USE DEF StoreInv
<1>1. /\ p \in Procs
      /\ p \notin Savers
      /\ DOMAIN job[p] = LoadFields
  BY LoaderTyped
<1>2. Typing'
  BY <1>1 DEF Typing, disk
<1>3. Loading'
  BY <1>1 DEF Loading, disk, Procs
<1>4. Held'
  <2>1. \A h \in handles : h.by # p
    BY DEF Held
  <2>. QED  BY <2>1 DEF Held, disk, Procs
<1>5. Files'
  BY DEF Files
<1>6. Kept'
  BY DEF Kept, disk
<1>. QED  BY <1>2, <1>3, <1>4, <1>5, <1>6, LoaderFrame

(* load: the record is inspected, and the resuming attempt and its lineage *)
(* are checked against it.                                                 *)
LEMMA LoadInspectStep ==
    ASSUME StoreInv, NEW p \in Loaders, LoadInspect(p)
    PROVE  StoreInv'
<1>. USE DEF StoreInv
<1>1. PICK id \in DOMAIN records, e \in Identities, lineage \in Lineages :
         job' = [job EXCEPT ![p] =
            [step |-> "resolve", id |-> id, record |-> records[id], by |-> e,
             parent |-> lineage[1], file |-> Lost]]
  BY DEF LoadInspect
<1>2. /\ UNCHANGED <<disk, returned, temps, kept, handles, faults>>
      /\ job[p].step = "idle"
      /\ \A h \in handles : h.by # p
  BY DEF LoadInspect
<1>3. p \in Procs /\ p \notin Savers /\ DOMAIN job = Procs
  BY StoreConstants DEF Procs, Typing
<1>4. /\ job'[p].step = "resolve"
      /\ job'[p].id = id
      /\ job'[p].record = records[id]
      /\ DOMAIN job'[p] = LoadFields
      /\ DOMAIN job' = Procs
      /\ \A q \in Procs : q # p => job'[q] = job[q]
  BY <1>1, <1>3 DEF LoadFields
<1>5. Typing'
  BY <1>2, <1>3, <1>4 DEF Typing, disk, LoadSteps
<1>6. Loading'
  BY <1>2, <1>3, <1>4 DEF Loading, disk, Procs, SameRecord
<1>7. Held'
  BY <1>2, <1>3, <1>4 DEF Held, disk, Procs
<1>8. Files'
  BY <1>2, <1>4 DEF Files
<1>9. Kept'
  BY <1>2 DEF Kept, disk
<1>. QED  BY <1>2, <1>4, <1>5, <1>6, <1>7, <1>8, <1>9, LoaderFrame

(* load: the parent the lineage names is resolved, in the registry as it   *)
(* is now.                                                                 *)
LEMMA LoadResolveStep ==
    ASSUME StoreInv, NEW p \in Loaders, LoadResolve(p)
    PROVE  StoreInv'
<1>1. /\ UNCHANGED <<disk, returned, temps, kept, handles, faults>>
      /\ job[p].step = "resolve"
      /\ \/ job' = [job EXCEPT ![p] = [job[p] EXCEPT !.step = "open"]]
         \/ job' = [job EXCEPT ![p] = Idle]
  BY DEF LoadResolve, Goto, Return
<1>2. p \in Procs /\ DOMAIN job = Procs
  BY <1>1, LoaderTyped
<1>3. \/ job'[p].step = "idle"
      \/ /\ job'[p].step = "open"
         /\ DOMAIN job'[p] = LoadFields
         /\ job'[p].id = job[p].id
         /\ job'[p].record = job[p].record
  <2>1. CASE job' = [job EXCEPT ![p] = [job[p] EXCEPT !.step = "open"]]
    <3>1. job'[p] = [job[p] EXCEPT !.step = "open"]
      BY <2>1, <1>2
    <3>. QED  BY <1>1, <3>1, LoaderTyped
  <2>2. CASE job' = [job EXCEPT ![p] = Idle]
    BY <2>2, <1>2 DEF Idle
  <2>. QED  BY <1>1, <2>1, <2>2
<1>4. DOMAIN job' = Procs /\ \A q \in Procs : q # p => job'[q] = job[q]
  BY <1>1, <1>2
<1>. QED  BY <1>1, <1>3, <1>4, QuietLoad DEF LoadSteps

(* load: the archive is opened for reading.                                *)
LEMMA LoadOpenStep ==
    ASSUME StoreInv, NEW p \in Loaders, LoadOpen(p)
    PROVE  StoreInv'
<1>1. /\ UNCHANGED <<disk, returned, temps, kept, handles, faults>>
      /\ job[p].step = "open"
      /\ \/ job' = [job EXCEPT ![p].step = "read", ![p].file = content[job[p].id]]
         \/ job' = [job EXCEPT ![p] = Idle]
  BY DEF LoadOpen, Return
<1>2. p \in Procs /\ DOMAIN job = Procs
  BY <1>1, LoaderTyped
<1>3. \/ job'[p].step = "idle"
      \/ /\ job'[p].step = "read"
         /\ DOMAIN job'[p] = LoadFields
         /\ job'[p].id = job[p].id
         /\ job'[p].record = job[p].record
  <2>1. CASE job' = [job EXCEPT ![p].step = "read", ![p].file = content[job[p].id]]
    <3>1. job'[p] = [job[p] EXCEPT !.step = "read", !.file = content[job[p].id]]
      BY <2>1, <1>2
    <3>. QED  BY <1>1, <3>1, LoaderTyped
  <2>2. CASE job' = [job EXCEPT ![p] = Idle]
    BY <2>2, <1>2 DEF Idle
  <2>. QED  BY <1>1, <2>1, <2>2
<1>4. DOMAIN job' = Procs /\ \A q \in Procs : q # p => job'[q] = job[q]
  BY <1>1, <1>2
<1>. QED  BY <1>1, <1>3, <1>4, QuietLoad DEF LoadSteps

(* load: the archive is copied into a temporary file of the process' own.  *)
LEMMA LoadReadStep ==
    ASSUME StoreInv, NEW p \in Loaders, LoadRead(p)
    PROVE  StoreInv'
<1>. USE DEF StoreInv
<1>1. /\ UNCHANGED <<disk, returned, kept, handles>>
      /\ job[p].step = "read"
      /\ faults' \in {faults, faults + 1}
      /\ faults' \in 0 .. MaxFaults
  BY StoreConstants DEF LoadRead, Fault, NoFault, Typing
<1>2. PICK now :
         \/ job' = [job EXCEPT ![p] = Idle] /\ temps' = temps
         \/ /\ job' = [job EXCEPT ![p].step = "parse", ![p].file = now]
            /\ temps' = temps \/ temps' = temps \cup {<<p, CopyFile>>}
  BY DEF LoadRead, Return
<1>3. p \in Procs /\ p \notin Savers /\ DOMAIN job = Procs
  BY <1>1, LoaderTyped
<1>4. /\ DOMAIN job' = Procs
      /\ \A q \in Procs : q # p => job'[q] = job[q]
      /\ \/ job'[p].step = "idle" /\ temps' = temps
         \/ /\ job'[p].step = "parse"
            /\ DOMAIN job'[p] = LoadFields
            /\ job'[p].id = job[p].id
            /\ job'[p].record = job[p].record
            /\ temps' = temps \/ temps' = temps \cup {<<p, CopyFile>>}
  <2>1. CASE job' = [job EXCEPT ![p] = Idle] /\ temps' = temps
    BY <2>1, <1>3 DEF Idle
  <2>2. CASE /\ job' = [job EXCEPT ![p].step = "parse", ![p].file = now]
             /\ temps' = temps \/ temps' = temps \cup {<<p, CopyFile>>}
    <3>1. job'[p] = [job[p] EXCEPT !.step = "parse", !.file = now]
      BY <2>2, <1>3
    <3>2. /\ DOMAIN job' = Procs
          /\ \A q \in Procs : q # p => job'[q] = job[q]
      BY <2>2, <1>3
    <3>. QED  BY <1>1, <2>2, <3>1, <3>2, LoaderTyped
  <2>. QED  BY <1>2, <2>1, <2>2
<1>5. Typing'
  BY <1>1, <1>3, <1>4 DEF Typing, disk, LoadSteps
<1>6. Loading'
  BY <1>1, <1>3, <1>4 DEF Loading, disk, Procs
<1>7. Held'
  <2>1. \A h \in handles : h.by # p /\ temps \subseteq temps'
    BY <1>1, <1>4 DEF Held
  <2>. QED  BY <1>1, <1>4, <2>1 DEF Held, disk, Procs
<1>8. Files'
  <2>1. \A t \in temps' : \/ t \in temps
                          \/ /\ t = <<p, CopyFile>>
                             /\ job'[p].step = "parse"
    BY <1>4
  <2>. QED  BY <1>1, <1>3, <1>4, <2>1 DEF Files, CopyFile
<1>9. Kept'
  BY <1>1 DEF Kept, disk, Typing
<1>. QED  BY <1>1, <1>4, <1>5, <1>6, <1>7, <1>8, <1>9, LoaderFrame

(* load: the copy is parsed, large tensors spill into files of their own;  *)
(* a refusal removes what was spilled.                                     *)
LEMMA LoadParseStep ==
    ASSUME StoreInv, NEW p \in Loaders, LoadParse(p)
    PROVE  StoreInv'
<1>. USE DEF StoreInv
<1>. DEFINE file == job[p].file
            own == SpillsOf(p, file)
<1>. HIDE DEF own
<1>1. /\ UNCHANGED <<disk, returned, handles, faults>>
      /\ job[p].step = "parse"
  BY DEF LoadParse
<1>2. \/ /\ job' = [job EXCEPT ![p] = [job[p] EXCEPT !.step = "drop"]]
         /\ UNCHANGED temps
         /\ \/ kept' = kept
            \/ /\ file = job[p].record.file
               /\ ~ManifestFirst(file)
      \/ /\ job' = [job EXCEPT ![p] = [job[p] EXCEPT !.step = "bind"]]
         /\ temps' = temps \cup own
         /\ kept' = kept
         /\ file = job[p].record.file
         /\ Parses(file)
         /\ ManifestFirst(file)
  BY DEF LoadParse, Goto, own
<1>3. p \in Procs /\ p \notin Savers /\ DOMAIN job = Procs
  BY <1>1, LoaderTyped
<1>4. /\ DOMAIN job' = Procs
      /\ \A q \in Procs : q # p => job'[q] = job[q]
      /\ DOMAIN job'[p] = LoadFields
      /\ job'[p].id = job[p].id
      /\ job'[p].record = job[p].record
      /\ job'[p].file = file
      /\ job'[p].step \in {"drop", "bind"}
      /\ job'[p].step = "drop" => temps' = temps
      /\ job'[p].step = "bind" => /\ temps' = temps \cup own
                                  /\ file = job[p].record.file
                                  /\ Parses(file)
                                  /\ ManifestFirst(file)
  <2>1. PICK s \in {"drop", "bind"} : job' = [job EXCEPT ![p] = [job[p] EXCEPT !.step = s]]
    BY <1>2
  <2>2. job'[p] = [job[p] EXCEPT !.step = s]
    BY <2>1, <1>3
  <2>3. /\ DOMAIN job' = Procs
        /\ \A q \in Procs : q # p => job'[q] = job[q]
    BY <2>1, <1>3
  <2>4. /\ DOMAIN job'[p] = LoadFields
        /\ job'[p].id = job[p].id
        /\ job'[p].record = job[p].record
        /\ job'[p].file = file
        /\ job'[p].step = s
    BY <1>1, <2>2, LoaderTyped
  <2>5. [job[p] EXCEPT !.step = "drop"].step = "drop" /\ [job[p] EXCEPT !.step = "bind"].step = "bind"
    BY <1>1, LoaderTyped
  <2>6. /\ job' = [job EXCEPT ![p] = [job[p] EXCEPT !.step = "drop"]] => job'[p].step = "drop"
        /\ job' = [job EXCEPT ![p] = [job[p] EXCEPT !.step = "bind"]] => job'[p].step = "bind"
    BY <1>3, <2>5
  <2>7. /\ job'[p].step = "drop" => temps' = temps
        /\ job'[p].step = "bind" => /\ temps' = temps \cup own
                                    /\ file = job[p].record.file
                                    /\ Parses(file)
                                    /\ ManifestFirst(file)
    BY <1>2, <2>6
  <2>. QED  BY <2>3, <2>4, <2>7
<1>5. Typing'
  BY <1>1, <1>3, <1>4 DEF Typing, disk, LoadSteps
<1>6. Loading'
  <2>1. job'[p].step = "bind" => SpillsOf(p, job'[p].file) \subseteq temps'
    BY <1>4 DEF own
  <2>2. temps \subseteq temps'
    BY <1>2
  <2>3. job'[p].step = "bind" => /\ job'[p].file = job'[p].record.file
                                /\ Parses(job'[p].file)
                                /\ ManifestFirst(job'[p].file)
    BY <1>4
  <2>4. job'[p].id \in DOMAIN records /\ SameRecord(job'[p].record, records[job'[p].id])
    BY <1>1, <1>4 DEF Loading
  <2>. QED  BY <1>1, <1>3, <1>4, <2>1, <2>2, <2>3, <2>4 DEF Loading, disk, Procs
<1>7. Held'
  <2>1. \A h \in handles : h.by # p /\ temps \subseteq temps'
    BY <1>1, <1>4 DEF Held
  <2>. QED  BY <1>1, <1>4, <2>1 DEF Held, disk, Procs
<1>8. Files'
  <2>1. \A t \in temps' : \/ t \in temps
                          \/ /\ t \in own
                             /\ job'[p].step = "bind"
    BY <1>4
  <2>2. \A t \in own : t[1] = p /\ t[2][1] = 2
    BY SpillsNamed DEF own
  <2>3. ASSUME NEW t \in temps'
        PROVE  /\ t[1] \in Procs
               /\ t[2][1] \in {2, 3, 4}
               /\ \/ /\ job'[t[1]].step \in {"stream", "publish", "unlink"}
                     /\ t = <<t[1], SaveFile>>
                  \/ job'[t[1]].step \in {"parse", "bind", "drop"} /\ t = <<t[1], CopyFile>>
                  \/ job'[t[1]].step = "bind" /\ t \in SpillsOf(t[1], job'[t[1]].file)
                  \/ \E h \in handles : t \in h.spills
    <3>1. CASE t \in temps
      <4>1. CASE t[1] = p
        BY <1>1, <1>4, <3>1, <4>1 DEF Files
      <4>2. CASE t[1] # p
        BY <1>4, <3>1, <4>2 DEF Files
      <4>. QED  BY <4>1, <4>2
    <3>2. CASE t \in own /\ job'[p].step = "bind"
      BY <1>3, <1>4, <2>2, <3>2 DEF own
    <3>. QED  BY <2>1, <3>1, <3>2
  <2>. QED  BY <1>1, <2>3 DEF Files
<1>9. Kept'
  <2>1. kept' = kept \/ \E id \in DOMAIN records : ~ManifestFirst(records[id].file)
    BY <1>1, <1>2 DEF Loading, SameRecord
  <2>. QED  BY <1>1, <2>1 DEF Kept, disk
<1>. QED  BY <1>1, <1>4, <1>5, <1>6, <1>7, <1>8, <1>9, LoaderFrame

(* load: the components are bound to the record; only then a handle comes  *)
(* to be, and a refusal removes the spilled files.                         *)
LEMMA LoadBindStep ==
    ASSUME StoreInv, NEW p \in Loaders, LoadBind(p)
    PROVE  StoreInv'
<1>. USE DEF StoreInv
<1>. DEFINE j == job[p]
            own == SpillsOf(p, j.file)
            handle == [by |-> p, id |-> j.id, file |-> j.file, spills |-> own]
<1>. HIDE DEF own
<1>1. /\ UNCHANGED <<disk, returned>>
      /\ j.step = "bind"
      /\ job' = [job EXCEPT ![p] = [j EXCEPT !.step = "drop"]]
  BY DEF LoadBind, Goto
<1>2. \/ /\ Loads(j.file, j.record)
         /\ handles' = handles \cup {handle}
         /\ temps' = temps
         /\ kept' = kept
         /\ faults' = faults
      \/ /\ handles' = handles
         /\ temps' = temps \ own
         /\ faults' \in {faults, faults + 1}
         /\ faults' \in 0 .. MaxFaults
         /\ kept' = kept \/ faults' = faults + 1
  BY StoreConstants DEF LoadBind, Unlink, Fault, NoFault, Typing, own
<1>3. p \in Procs /\ p \notin Savers /\ DOMAIN job = Procs
  BY <1>1, LoaderTyped
<1>4. /\ DOMAIN job' = Procs
      /\ \A q \in Procs : q # p => job'[q] = job[q]
      /\ DOMAIN job'[p] = LoadFields
      /\ job'[p].id = j.id
      /\ job'[p].record = j.record
      /\ job'[p].step = "drop"
  <2>1. job'[p] = [j EXCEPT !.step = "drop"]
    BY <1>1, <1>3
  <2>2. /\ DOMAIN job' = Procs
        /\ \A q \in Procs : q # p => job'[q] = job[q]
    BY <1>1, <1>3
  <2>. QED  BY <1>1, <2>1, <2>2, LoaderTyped
<1>5. faults' \in 0 .. MaxFaults
  BY <1>2 DEF Typing
<1>6. Typing'
  BY <1>1, <1>3, <1>4, <1>5 DEF Typing, disk, LoadSteps
<1>8. /\ j.id \in DOMAIN records
      /\ SameRecord(j.record, records[j.id])
      /\ j.file = j.record.file
      /\ \A h \in handles : h.by # p
  BY <1>1 DEF Loading, Held
<1>9. \A h \in handles, t \in own : t \notin h.spills
  <2>1. \A h \in handles : h.spills = SpillsOf(h.by, h.file) /\ h.by # p
    BY <1>8 DEF Held
  <2>. QED  BY <2>1, SpillsNamed DEF own
<1>10. own \subseteq temps
  BY <1>1 DEF Loading, own
<1>11. CASE /\ Loads(j.file, j.record)
            /\ handles' = handles \cup {handle}
            /\ temps' = temps
            /\ kept' = kept
            /\ faults' = faults
  <2>. HIDE DEF j
  <2>1. /\ Loads(j.file, records[j.id])
        /\ j.file = records[j.id].file
    BY <1>8, <1>11, LoadsSame DEF SameRecord
  <2>2. /\ handle.by = p
        /\ handle.id = j.id
        /\ handle.file = j.file
        /\ handle.spills = own
    OBVIOUS
  <2>. HIDE DEF handle
  <2>3. Held'
    <3>1. ASSUME NEW h \in handles'
          PROVE  /\ h.by \in Loaders
                 /\ h.id \in DOMAIN records
                 /\ h.file = records[h.id].file
                 /\ Loads(h.file, records[h.id])
                 /\ h.spills = SpillsOf(h.by, h.file)
                 /\ h.spills \subseteq temps
                 /\ job'[h.by].step \in {"idle", "drop"}
      <4>1. CASE h = handle
        BY <1>4, <1>8, <1>10, <2>1, <2>2, <4>1 DEF own, j
      <4>2. CASE h \in handles
        BY <1>4, <1>8, <4>2 DEF Held, Procs
      <4>. QED  BY <4>1, <4>2, <1>11
    <3>2. \A g, h \in handles' : g.by = h.by => g = h
      BY <1>8, <1>11, <2>2 DEF Held
    <3>. QED  BY <3>1, <3>2, <1>1, <1>11 DEF Held, disk
  <2>4. Files'
    <3>1. ASSUME NEW t \in temps
          PROVE  /\ t[1] \in Procs
                 /\ t[2][1] \in {2, 3, 4}
                 /\ \/ /\ job'[t[1]].step \in {"stream", "publish", "unlink"}
                       /\ t = <<t[1], SaveFile>>
                    \/ job'[t[1]].step \in {"parse", "bind", "drop"} /\ t = <<t[1], CopyFile>>
                    \/ job'[t[1]].step = "bind" /\ t \in SpillsOf(t[1], job'[t[1]].file)
                    \/ \E h \in handles' : t \in h.spills
      <4>1. CASE t[1] = p
        BY <1>1, <1>4, <1>11, <2>2, <4>1 DEF Files, own, j
      <4>2. CASE t[1] # p
        BY <1>4, <1>11, <4>2 DEF Files
      <4>. QED  BY <4>1, <4>2
    <3>. QED  BY <1>11, <3>1 DEF Files
  <2>5. Kept'
    BY <1>1, <1>11 DEF Kept, disk
  <2>6. Loading'
    BY <1>1, <1>3, <1>4, <1>11 DEF Loading, disk, Procs, j
  <2>. QED  BY <1>1, <1>4, <1>6, <2>3, <2>4, <2>5, <2>6, LoaderFrame
<1>12. CASE /\ handles' = handles
            /\ temps' = temps \ own
            /\ kept' = kept \/ faults' = faults + 1
            /\ faults' \in {faults, faults + 1}
  <2>1. Held'
    BY <1>1, <1>4, <1>8, <1>9, <1>12 DEF Held, disk, Procs
  <2>2. Files'
    <3>1. ASSUME NEW t \in temps'
          PROVE  /\ t[1] \in Procs
                 /\ t[2][1] \in {2, 3, 4}
                 /\ \/ /\ job'[t[1]].step \in {"stream", "publish", "unlink"}
                       /\ t = <<t[1], SaveFile>>
                    \/ job'[t[1]].step \in {"parse", "bind", "drop"} /\ t = <<t[1], CopyFile>>
                    \/ job'[t[1]].step = "bind" /\ t \in SpillsOf(t[1], job'[t[1]].file)
                    \/ \E h \in handles : t \in h.spills
      <4>0. t \in temps /\ t \notin own
        BY <1>12
      <4>1. CASE t[1] = p
        BY <1>1, <1>4, <4>0, <4>1 DEF Files, own, j
      <4>2. CASE t[1] # p
        BY <1>4, <4>0, <4>2 DEF Files
      <4>. QED  BY <4>1, <4>2
    <3>. QED  BY <1>12, <3>1 DEF Files
  <2>3. Kept'
    BY <1>1, <1>12 DEF Kept, disk, Typing
  <2>4. Loading'
    <3>1. ASSUME NEW q \in Loaders, q # p, job[q].step = "bind"
          PROVE  SpillsOf(q, job[q].file) \subseteq temps'
      <4>1. SpillsOf(q, job[q].file) \subseteq temps
        BY <3>1 DEF Loading
      <4>2. \A t \in SpillsOf(q, job[q].file) : t \notin own
        BY <3>1, SpillsNamed DEF own
      <4>. QED  BY <4>1, <4>2, <1>12
    <3>. QED  BY <1>1, <1>3, <1>4, <3>1 DEF Loading, disk, Procs
  <2>. QED  BY <1>1, <1>4, <1>6, <2>1, <2>2, <2>3, <2>4, LoaderFrame
<1>. QED  BY <1>2, <1>11, <1>12

(* load: the copy is removed in the end, whatever has happened before.     *)
LEMMA LoadDropStep ==
    ASSUME StoreInv, NEW p \in Loaders, LoadDrop(p)
    PROVE  StoreInv'
<1>. USE DEF StoreInv
<1>. DEFINE copy == {<<p, CopyFile>>} \cap temps
<1>1. /\ UNCHANGED <<disk, returned, handles>>
      /\ job[p].step = "drop"
      /\ job' = [job EXCEPT ![p] = Idle]
      /\ temps' = temps \ copy
      /\ faults' \in {faults, faults + 1}
      /\ faults' \in 0 .. MaxFaults
      /\ kept' = kept \/ faults' = faults + 1
  BY StoreConstants DEF LoadDrop, Unlink, Return, Fault, NoFault, Typing
<1>2. p \in Procs /\ p \notin Savers /\ DOMAIN job = Procs
  BY <1>1, LoaderTyped
<1>3. /\ DOMAIN job' = Procs
      /\ \A q \in Procs : q # p => job'[q] = job[q]
      /\ job'[p].step = "idle"
  BY <1>1, <1>2 DEF Idle
<1>4. \A q, f : \A t \in SpillsOf(q, f) : t \notin copy
  BY SpillsNamed DEF CopyFile
<1>5. Typing'
  BY <1>1, <1>2, <1>3 DEF Typing, disk
<1>6. Loading'
  BY <1>1, <1>2, <1>3, <1>4 DEF Loading, disk, Procs
<1>7. Held'
  BY <1>1, <1>3, <1>4 DEF Held, disk, Procs
<1>8. Files'
  BY <1>1, <1>3 DEF Files
<1>9. Kept'
  BY <1>1 DEF Kept, disk, Typing
<1>. QED  BY <1>1, <1>3, <1>5, <1>6, <1>7, <1>8, <1>9, LoaderFrame

(* clean_up removes the files of one handle and no other's.                *)
LEMMA CleanUpStep ==
    ASSUME StoreInv, NEW h \in handles, CleanUp(h)
    PROVE  StoreInv'
<1>. USE DEF StoreInv
<1>1. /\ UNCHANGED <<disk, returned, job, kept>>
      /\ job[h.by].step = "idle"
      /\ \/ /\ handles' = handles \ {h}
            /\ temps' = temps \ h.spills
         \/ UNCHANGED <<handles, temps>>
      /\ faults' \in {faults, faults + 1}
      /\ faults' \in 0 .. MaxFaults
  BY StoreConstants DEF CleanUp, Fault, NoFault, Typing
<1>2. \A q, f : q # h.by => \A t \in SpillsOf(q, f) : t \notin h.spills
  BY SpillsNamed DEF Held
<1>3. Typing'
  BY <1>1 DEF Typing, disk
<1>4. Registered' /\ Saving' /\ Returned'
  <2>1. Saving'
    BY <1>1, DiskFrame DEF Saving
  <2>2. Returned'
    BY <1>1, DiskFrame DEF Returned
  <2>. QED  BY <1>1, <2>1, <2>2, DiskFrame
<1>5. Loading'
  BY <1>1, <1>2 DEF Loading, disk
<1>6. Held'
  <2>1. \A g \in handles : g # h => \A t \in g.spills : t \notin h.spills
    BY <1>2 DEF Held
  <2>. QED  BY <1>1, <2>1 DEF Held, disk
<1>7. Files'
  BY <1>1 DEF Files
<1>8. Kept'
  BY <1>1 DEF Kept, disk, Typing
<1>. QED  BY <1>3, <1>4, <1>5, <1>6, <1>7, <1>8

(* An archive of another encoder gets into the registry.                   *)
LEMMA PublishForeignStep ==
    ASSUME StoreInv, PublishForeign
    PROVE  StoreInv'
<1>. USE DEF StoreInv
<1>1. /\ records = <<>>
      /\ origin = <<>>
      /\ UNCHANGED <<returned, job, temps, kept, handles, faults>>
  <2>1. records = <<>> /\ UNCHANGED <<returned, job, temps, kept, handles, faults>>
    BY DEF PublishForeign
  <2>2. Len(origin) = 0
    BY <2>1 DEF Typing
  <2>3. origin = <<>>
    BY <2>2, EmptySeq DEF Typing
  <2>. QED  BY <2>1, <2>3
<1>0. PICK c \in Captures(<<>>), by \in Given :
         /\ CaptureAccepted(c)
         /\ Encodable(c)
         /\ \E file \in Foreign(Encode(c, by, <<>>)) : Register(file, by, <<>>, <<>>)
  BY <1>1 DEF PublishForeign
<1>2. PICK file \in Foreign(Encode(c, by, <<>>)) : Register(file, by, <<>>, <<>>)
  BY <1>0
<1>3. DOMAIN records = {} /\ Len(records) = 0
  BY <1>1
<1>4. /\ DOMAIN records' = {1}
      /\ records'[1] = NewRecord(file, by, <<>>)
      /\ origin'[1] = <<>>
  BY <1>2, <1>3, RegisterFrame
<1>5. FromElsewhere(1)'
  BY <1>0, <1>2, <1>4, NewRecordFields DEF FromElsewhere
<1>6. Typing'
  <2>1. DOMAIN records'[1] = RecordFields
    BY <1>4, NewRecordFields
  <2>. QED  BY <1>1, <1>2, <1>3, <1>4, <2>1, RegisterFrame DEF Typing
<1>7. Registered'
  BY <1>4, <1>5 DEF Registered
<1>8. Saving'
  BY <1>1, <1>3 DEF Saving, Published
<1>9. Returned'
  BY <1>1, <1>3 DEF Returned, Typing
<1>10. Loading'
  BY <1>1, <1>3 DEF Loading
<1>11. Held'
  BY <1>1, <1>3 DEF Held
<1>12. Files'
  BY <1>1 DEF Files
<1>13. Kept'
  BY <1>1, <1>3 DEF Kept
<1>. QED  BY <1>6, <1>7, <1>8, <1>9, <1>10, <1>11, <1>12, <1>13

(* Nothing but the retention of one record changes.                        *)
LEMMA ChangeRetentionStep ==
    ASSUME StoreInv, ChangeRetention
    PROVE  StoreInv'
<1>. USE DEF StoreInv
<1>1. PICK id \in DOMAIN records, r \in {"pending_transfer", "missing"} :
         records' = [records EXCEPT ![id].retention = r]
  BY DEF ChangeRetention
<1>2. /\ UNCHANGED <<content, origin, returned, job, temps, kept, handles>>
      /\ faults' \in {faults, faults + 1}
      /\ faults' \in 0 .. MaxFaults
  BY StoreConstants DEF ChangeRetention, Fault, Typing
<1>3. /\ DOMAIN records' = DOMAIN records
      /\ \A i \in DOMAIN records : /\ SameRecord(records[i], records'[i])
                                   /\ DOMAIN records'[i] = RecordFields
  BY <1>1 DEF Typing, SameRecord, RecordFields
<1>4. /\ records' \in Seq(Range(records'))
      /\ Len(records') = Len(records)
  <2>1. DOMAIN records = 1 .. Len(records) /\ Len(records) \in Nat
    BY LenProperties DEF Typing
  <2>2. records' = [i \in 1 .. Len(records) |-> records'[i]]
    BY <1>1, <2>1
  <2>3. \A i \in 1 .. Len(records) : records'[i] \in Range(records')
    BY <1>3, <2>1 DEF Range
  <2>4. records' \in [1 .. Len(records) -> Range(records')]
    BY <2>2, <2>3
  <2>. QED  BY <2>1, <2>4, SeqDef, LenProperties
<1>5. \A id1 \in DOMAIN records : /\ FromCapture(id1) => FromCapture(id1)'
                                  /\ FromElsewhere(id1) => FromElsewhere(id1)'
                                  /\ Verified(id1) => Verified(id1)'
  BY <1>2, <1>3 DEF FromCapture, FromElsewhere, Verified, SameRecord
<1>6. \A j : Published(j) => Published(j)'
  BY <1>2, <1>3 DEF Published, SameRecord
<1>7. Typing'
  BY <1>2, <1>3, <1>4 DEF Typing
<1>8. Registered'
  BY <1>3, <1>5 DEF Registered
<1>9. Saving'
  BY <1>2, <1>6 DEF Saving
<1>10. Returned'
  BY <1>2, <1>5 DEF Returned, Typing
<1>11. Loading'
  BY <1>2, <1>3 DEF Loading, SameRecord
<1>12. Held'
  <2>1. \A h \in handles : Loads(h.file, records'[h.id])
    BY <1>3, LoadsSame DEF Held
  <2>. QED  BY <1>2, <1>3, <2>1 DEF Held, SameRecord
<1>13. Files'
  BY <1>2 DEF Files
<1>14. Kept'
  BY <1>2, <1>3 DEF Kept, SameRecord, Typing
<1>. QED  BY <1>7, <1>8, <1>9, <1>10, <1>11, <1>12, <1>13, <1>14

(* The content of a registered archive is lost or damaged.                 *)
LEMMA LoseOrDamageStep ==
    ASSUME StoreInv, LoseOrDamage
    PROVE  StoreInv'
<1>. USE DEF StoreInv
<1>1. PICK id \in DOMAIN records : \E f : content' = [content EXCEPT ![id] = f]
  BY DEF LoseOrDamage
<1>2. /\ UNCHANGED <<records, origin, returned, job, temps, kept, handles>>
      /\ faults' \in {faults, faults + 1}
      /\ faults' \in 0 .. MaxFaults
  BY StoreConstants DEF LoseOrDamage, Fault, Typing
<1>3. /\ content' \in Seq(Range(content'))
      /\ Len(content') = Len(content)
  <2>1. DOMAIN content = 1 .. Len(content) /\ Len(content) \in Nat
    BY LenProperties DEF Typing
  <2>2. content' = [i \in 1 .. Len(content) |-> content'[i]]
    BY <1>1, <2>1
  <2>3. \A i \in 1 .. Len(content) : content'[i] \in Range(content')
    BY <1>1, <2>1 DEF Range
  <2>4. content' \in [1 .. Len(content) -> Range(content')]
    BY <2>2, <2>3
  <2>. QED  BY <2>1, <2>4, SeqDef, LenProperties
<1>4. Typing'
  BY <1>2, <1>3 DEF Typing
<1>5. Registered' /\ Saving' /\ Returned' /\ Loading' /\ Held' /\ Files'
  <2>1. \A id1 : /\ FromCapture(id1) => FromCapture(id1)'
                 /\ FromElsewhere(id1) => FromElsewhere(id1)'
                 /\ Verified(id1) => Verified(id1)'
    BY <1>2 DEF FromCapture, FromElsewhere, Verified
  <2>2. Registered'
    BY <1>2, <2>1 DEF Registered
  <2>3. Saving'
    BY <1>2 DEF Saving, Published
  <2>4. Returned'
    BY <1>2, <2>1 DEF Returned
  <2>5. Loading' /\ Held' /\ Files'
    BY <1>2 DEF Loading, Held, Files
  <2>. QED  BY <2>2, <2>3, <2>4, <2>5
<1>6. Kept'
  BY <1>2 DEF Kept, Typing
<1>. QED  BY <1>4, <1>5, <1>6

(* Nothing changes.                                                        *)
LEMMA StutterStep ==
    ASSUME StoreInv, UNCHANGED vars
    PROVE  StoreInv'
BY DEF StoreInv, vars, Typing, Registered, FromCapture, FromElsewhere, Saving, Published,
       Returned, Verified, Loading, Held, Files, Kept

(* Every step of the store preserves the invariant.                        *)
THEOREM NextStore == StoreInv /\ [Next]_vars => StoreInv'
<1>. SUFFICES ASSUME StoreInv, [Next]_vars PROVE StoreInv'
  OBVIOUS
<1>1. ASSUME NEW p \in Savers,
             \/ SaveBegin(p) \/ SaveStream(p) \/ SavePublish(p)
             \/ SaveUnlink(p) \/ SaveVerify(p)
      PROVE  StoreInv'
  BY <1>1, SaveBeginStep, SaveStreamStep, SavePublishStep, SaveUnlinkStep, SaveVerifyStep
<1>2. ASSUME NEW p \in Loaders,
             \/ LoadInspect(p) \/ LoadResolve(p) \/ LoadOpen(p)
             \/ LoadRead(p) \/ LoadParse(p) \/ LoadBind(p) \/ LoadDrop(p)
      PROVE  StoreInv'
  BY <1>2, LoadInspectStep, LoadResolveStep, LoadOpenStep, LoadReadStep, LoadParseStep,
     LoadBindStep, LoadDropStep
<1>3. ASSUME NEW h \in handles, CleanUp(h) PROVE StoreInv'
  BY <1>3, CleanUpStep
<1>4. CASE PublishForeign \/ ChangeRetention \/ LoseOrDamage
  BY <1>4, PublishForeignStep, ChangeRetentionStep, LoseOrDamageStep
<1>5. CASE UNCHANGED vars
  BY <1>5, StutterStep
<1>. QED  BY <1>1, <1>2, <1>3, <1>4, <1>5 DEF Next

(* The invariant holds throughout: every record is the archive of a        *)
(* capture or of another encoder, what a save returned is registered and   *)
(* verified, what a load knows is the registered file, a handle holds an   *)
(* archive that binds, and each temporary file has an owner.               *)
THEOREM Store == Spec => []StoreInv
BY InitStore, NextStore, PTL DEF Spec

(* Every save, load and clean-up keeps the state well typed                *)
(* (checkpoints/store.py CheckpointStore.save, load and                    *)
(* CheckpointArchive.cleanup_temp_files).                                  *)
THEOREM StoreTyping == Spec => []TypeOK
<1>1. StoreInv => TypeOK
  BY DEF StoreInv, Typing, Held, Files, TypeOK, SaveSteps, LoadSteps
<1>. QED  BY <1>1, Store, PTL

(* A temporary file belongs to the call that made it or to a handle, and   *)
(* one is left behind only after a removal has failed or by an archive     *)
(* whose manifest is not its first member (checkpoints/store.py save,      *)
(* load, cleanup_temp_files).                                              *)
THEOREM Spills == Spec => []SpillsAreOwned
<1>1. StoreInv => SpillsAreOwned
  BY DEF StoreInv, Held, Files, Kept, SpillsAreOwned
<1>. QED  BY <1>1, Store, PTL

(* inspect_path calls every archive complete that load would take, and     *)
(* what it calls complete parses: for every file whatever, so in every     *)
(* state (checkpoints/store.py inspect_path).                              *)
THEOREM Completes == Spec => []LoadedIsComplete
<1>1. \A file, record : Loads(file, record) => Inspection(file) = "complete"
  BY DEF Loads, Parses, ManifestFirst, ManifestData, DecodeAccepted, ManifestAccepted, Inspection
<1>2. \A file : Inspection(file) = "complete" => Parses(file) /\ ManifestFirst(file)
  BY DEF Inspection, ManifestFirst
<1>3. LoadedIsComplete
  BY <1>1, <1>2 DEF LoadedIsComplete
<1>. QED  BY <1>3, PTL

----------------------------------------------------------------------------
(* A loaded archive is the archive of the capture its record was saved     *)
(* for, of one whose tensors are listed in the roles the descriptor        *)
(* declares.                                                               *)
LEMMA LoadedIsCaptured ==
    ASSUME StoreInv, ForeignIsRefused, NEW h \in handles
    PROVE  \E c, by, parent :
              /\ origin[h.id] = <<c, by>>
              /\ Taken(c)
              /\ h.file = records[h.id].file
              /\ h.file = Encode(c, by, parent)
              /\ Listed(c, c.params) = NamesIn(c.desc.params)
              /\ Listed(c, c.buffers) = NamesIn(c.desc.buffers)
<1>1. /\ h.id \in DOMAIN records
      /\ h.file = records[h.id].file
      /\ Loads(h.file, records[h.id])
  BY DEF StoreInv, Held
<1>2. CASE FromElsewhere(h.id)
  <2>1. PICK c \in Captures(<<>>), by \in Given :
           /\ CaptureAccepted(c)
           /\ Encodable(c)
           /\ \E file \in Foreign(Encode(c, by, <<>>)) :
                 /\ records[h.id].file = file
                 /\ records[h.id].run = by.run
                 /\ records[h.id].attempt = by.attempt
                 /\ records[h.id].spec = by.spec
                 /\ records[h.id].parent = <<>>
    BY <1>2 DEF FromElsewhere
  <2>2. PICK file \in Foreign(Encode(c, by, <<>>)) :
           /\ records[h.id].file = file
           /\ records[h.id].run = by.run
           /\ records[h.id].attempt = by.attempt
           /\ records[h.id].spec = by.spec
           /\ records[h.id].parent = <<>>
    BY <2>1
  <2>3. SameRecord(records[h.id], NewRecord(file, by, <<>>))
    BY <2>2, NewRecordFields DEF SameRecord
  <2>4. Loads(file, NewRecord(file, by, <<>>))
    BY <1>1, <2>2, <2>3, LoadsSame
  <2>. QED  BY <2>1, <2>4 DEF ForeignIsRefused
<1>3. CASE FromCapture(h.id)
  <2>1. PICK c, by, parent : /\ origin[h.id] = <<c, by>>
                             /\ Made(c, by, parent, records[h.id].file)
    BY <1>3 DEF FromCapture
  <2>2. Taken(c) /\ h.file = Encode(c, by, parent)
    BY <1>1, <2>1 DEF Made, Taken
  <2>3. ManifestData(h.file) = ManifestOf(c, by, parent)
    BY <2>2, EncodedLaid, LaidParses
  <2>4. DescriptorsBind(ManifestOf(c, by, parent))
    BY <1>1, <2>3 DEF Loads, ComponentsBind
  <2>. DEFINE record == [run |-> by.run, attempt |-> by.attempt, spec |-> by.spec,
                         parent |-> parent]
  <2>5. /\ record.run = by.run /\ record.attempt = by.attempt /\ record.spec = by.spec
        /\ record.parent = parent
    OBVIOUS
  <2>. HIDE DEF record
  <2>6. /\ Listed(c, c.params) = NamesIn(c.desc.params)
        /\ Listed(c, c.buffers) = NamesIn(c.desc.buffers)
    BY <2>2, <2>4, <2>5, EncodedBinds
  <2>. QED  BY <1>1, <2>1, <2>2, <2>6
<1>. QED  BY <1>1, <1>2, <1>3 DEF StoreInv, Registered

(* An archive whose save returned is taken by load exactly if nothing      *)
(* about the capture makes it unloadable: the encoder writes what the      *)
(* parser, the manifest's validators and the binding rules of              *)
(* checkpoints/store.py ask for, for every capture within the limits.      *)
THEOREM Loadability == Spec => []ReturnedIsLoadable
<1>1. ASSUME StoreInv PROVE ReturnedIsLoadable
  <2>. SUFFICES ASSUME NEW id \in returned
                PROVE  Loads(records[id].file, records[id])
                          <=> ~Unloadable(origin[id][1], origin[id][2], records[id].file)
    BY DEF ReturnedIsLoadable
  <2>1. PICK c, by, parent : /\ origin[id] = <<c, by>>
                             /\ Made(c, by, parent, records[id].file)
                             /\ records[id].parent = parent
                             /\ records[id].run = by.run
                             /\ records[id].attempt = by.attempt
                             /\ records[id].spec = by.spec
    BY <1>1 DEF StoreInv, Returned, Verified
  <2>2. /\ Taken(c) /\ records[id].file = Encode(c, by, parent)
        /\ origin[id][1] = c /\ origin[id][2] = by
    BY <2>1 DEF Made, Taken
  <2>3. Loads(Encode(c, by, parent), records[id])
           <=> ~Unloadable(c, by, Encode(c, by, parent))
    BY <2>1, <2>2, LoadsEncoded
  <2>. QED  BY <2>2, <2>3
<1>. QED  BY <1>1, Store, PTL

(* What a loaded archive restores is the state that was captured, of the   *)
(* saved checkpoint the record names, as long as the loader refuses the    *)
(* archives of other encoders (checkpoints/restore.py, store.py load).     *)
THEOREM Genuineness == ASSUME ForeignIsRefused PROVE Spec => []LoadedIsGenuine
<1>1. ASSUME StoreInv PROVE LoadedIsGenuine
  <2>. SUFFICES ASSUME NEW h \in handles
                PROVE  /\ origin[h.id] # <<>>
                       /\ h.file = records[h.id].file
                       /\ RestoredState(h.file) = StateOf(origin[h.id][1])
    BY DEF LoadedIsGenuine
  <2>1. PICK c, by, parent : /\ origin[h.id] = <<c, by>>
                             /\ Taken(c)
                             /\ h.file = records[h.id].file
                             /\ h.file = Encode(c, by, parent)
                             /\ Listed(c, c.params) = NamesIn(c.desc.params)
                             /\ Listed(c, c.buffers) = NamesIn(c.desc.buffers)
    BY <1>1, LoadedIsCaptured
  <2>2. RestoredState(Encode(c, by, parent)) = StateOf(c)
    BY <2>1, Restores
  <2>. QED  BY <2>1, <2>2
<1>. QED  BY <1>1, Store, PTL

(* The optimizer keys of a loaded archive resolve, each to the only group  *)
(* that declares it, unless the capture declared slots of one parameter in *)
(* two groups (checkpoints/restore.py).                                    *)
THEOREM Keys == ASSUME ForeignIsRefused PROVE Spec => []SlotsResolveUnlessShared
<1>1. ASSUME StoreInv PROVE SlotsResolveUnlessShared
  <2>. SUFFICES ASSUME NEW h \in handles
                PROVE  SlotKeysResolve(ManifestData(h.file))
                          <=> ~\E s, t \in origin[h.id][1].desc.slots :
                                  s.param = t.param /\ s.group # t.group
    BY DEF SlotsResolveUnlessShared
  <2>1. PICK c, by, parent : /\ origin[h.id] = <<c, by>>
                             /\ Taken(c)
                             /\ h.file = Encode(c, by, parent)
    BY <1>1, LoadedIsCaptured
  <2>2. ManifestData(h.file) = ManifestOf(c, by, parent)
    BY <2>1, EncodedManifest
  <2>3. origin[h.id][1] = c
    BY <2>1
  <2>. QED  BY <2>1, <2>2, <2>3, KeysResolve
<1>. QED  BY <1>1, Store, PTL

(* check_compatibility reports an exact match only for the same contract,  *)
(* and always for it (checkpoints/store.py).                               *)
THEOREM Exactness == Spec => []ExactMeansSame
<1>1. ASSUME StoreInv PROVE ExactMeansSame
  <2>. SUFFICES ASSUME NEW h \in handles, NEW e \in Expected
                PROVE  Compatibility(ManifestData(h.file).compat, e) = "exact"
                          <=> SameContract(ManifestData(h.file).compat, e)
    BY DEF ExactMeansSame
  <2>1. DescriptorAccepted(ManifestData(h.file).compat)
    BY <1>1 DEF StoreInv, Held, Loads, DecodeAccepted, ManifestAccepted
  <2>2. DescriptorAccepted(e)
    BY StoreConstants
  <2>. QED  BY <2>1, <2>2, ExactIsSame
<1>. QED  BY <1>1, Store, PTL
=============================================================================
