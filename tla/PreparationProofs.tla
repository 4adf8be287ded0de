------------------------- MODULE PreparationProofs --------------------------
(***************************************************************************)
(* What a preparation guarantees for every machine, config and command:    *)
(* the keys a run starts with are those that were meant, preflight leaves  *)
(* out no model that could have been called, a row that is left running    *)
(* has a cause, and a model's own prices win.                              *)
(*                                                                         *)
(* The code is a chain of steps, each of which goes through lists; so the  *)
(* proofs first say what its loops compute (which elements are kept, what  *)
(* the .env files set, what the price book holds), then what the config    *)
(* has come to be, and the invariant says what each step leaves.           *)
(***************************************************************************)
EXTENDS Preparation, FoldFacts

-----------------------------------------------------------------------------
(* The folds of the model *)

\* What is kept of a list is a list of its elements that are wanted.
LEMMA KeptType ==
  ASSUME NEW seq, IsList(seq), NEW wanted
  PROVE  Kept(seq, wanted) \in Seq(ToSet(seq) \cap wanted)
<1> DEFINE n == Len(seq)
           V == Seq(ToSet(seq) \cap wanted)
           F == [p \in V \X (1..n) |->
                   IF seq[p[2]] \in wanted THEN Append(p[1], seq[p[2]]) ELSE p[1]]
           Step(g) == [T \in SUBSET DOMAIN seq |->
                         IF T = {} THEN <<>>
                         ELSE IF seq[Max(T)] \in wanted
                              THEN Append(g[T \ {Max(T)}], seq[Max(T)])
                              ELSE g[T \ {Max(T)}]]
           iter == CHOOSE g : g = Step(g)
<1>1. Kept(seq, wanted) = iter[DOMAIN seq]
  BY DEF Kept, FoldLeft, MapThenFoldSet
<1>2. n \in Nat /\ DOMAIN seq = 1..n /\ \A k \in 1..n : seq[k] \in ToSet(seq)
  BY DEF IsList, ToSet
<1>3. <<>> \in V
  OBVIOUS
<1>4. F \in [V \X (1..n) -> V]
  <2> SUFFICES ASSUME NEW v \in V, NEW k \in 1..n, seq[k] \in wanted
               PROVE  Append(v, seq[k]) \in V
    OBVIOUS
  <2> QED
    BY <1>2
<1> HIDE DEF V, n
<1>5. PICK g \in [SUBSET (1..n) -> V] : IsFold(g, n, <<>>, F)
  <2> HIDE DEF F
  <2> QED
    BY <1>2, <1>3, <1>4, FoldExists
<1>6. g = Step(g)
  <2>1. ASSUME NEW T \in SUBSET (1..n), T # {}
        PROVE  F[<<g[T \ {Max(T)}], Max(T)>>]
                  = IF seq[Max(T)] \in wanted
                    THEN Append(g[T \ {Max(T)}], seq[Max(T)]) ELSE g[T \ {Max(T)}]
    <3>1. Max(T) \in 1..n
      BY <1>2, <2>1, MaxIn
    <3>2. T \ {Max(T)} \in SUBSET (1..n) /\ g[T \ {Max(T)}] \in V
      OBVIOUS
    <3> QED
      BY <3>1, <3>2
  <2> HIDE DEF F
  <2> QED
    BY <1>2, <1>5, <2>1 DEF IsFold
<1>7. iter = Step(iter)
  BY <1>6
<1> HIDE DEF iter
<1>8. IsFoldWithin(iter, n, V, <<>>, F)
  <2>1. ASSUME NEW T \in SUBSET (1..n), T # {}, iter[T \ {Max(T)}] \in V
        PROVE  iter[T] = F[<<iter[T \ {Max(T)}], Max(T)>>]
    <3>1. Max(T) \in 1..n
      BY <1>2, <2>1, MaxIn
    <3> QED
      BY <1>2, <1>7, <2>1, <3>1
  <2>2. iter[{}] = <<>>
    BY <1>7
  <2> HIDE DEF F
  <2> QED
    BY <2>1, <2>2 DEF IsFoldWithin
<1> HIDE DEF F
<1>9. \E p \in [0..n -> V] : IsChain(p, n, <<>>, F, iter[1..n])
  BY <1>2, <1>3, <1>4, <1>8, FoldChain
<1>10. iter[1..n] \in V
  BY <1>2, <1>9 DEF IsChain
<1> QED
  BY <1>1, <1>2, <1>10 DEF V

-----------------------------------------------------------------------------
(* The environment *)

Said(file, k, name) == {i \in 1..k : ParseLine(file[i]) /\ file[i].name = name}
LastSaidUpTo(file, k, name) ==
    IF Said(file, k, name) = {} THEN None
    ELSE file[CHOOSE i \in Said(file, k, name) : \A j \in Said(file, k, name) : j <= i].value

\* One line more says what it says, of the variable it is about.
LEMMA NextSaid ==
  ASSUME NEW file, NEW k \in Nat \ {0}, NEW name
  PROVE  LastSaidUpTo(file, k, name)
            = IF ParseLine(file[k]) /\ file[k].name = name THEN file[k].value
              ELSE LastSaidUpTo(file, k - 1, name)
<1>1. CASE ParseLine(file[k]) /\ file[k].name = name
  <2> DEFINE said == Said(file, k, name)
  <2>1. k \in said /\ \A j \in said : j <= k /\ j \in Nat
    BY <1>1 DEF Said
  <2>2. (CHOOSE i \in said : \A j \in said : j <= i) = k
    <3> HIDE DEF said
    <3> DEFINE c == CHOOSE i \in said : \A j \in said : j <= i
    <3>1. c \in said /\ \A j \in said : j <= c
      BY <2>1
    <3> HIDE DEF c
    <3>2. c = k
      BY <2>1, <3>1
    <3> QED
      BY <3>2 DEF c
  <2> QED
    BY <1>1, <2>1, <2>2 DEF LastSaidUpTo
<1>2. CASE ~(ParseLine(file[k]) /\ file[k].name = name)
  <2>1. Said(file, k, name) = Said(file, k - 1, name)
    <3>1. \A i : i \in 1..k <=> i \in 1..(k - 1) \/ i = k
      OBVIOUS
    <3> QED
      BY <1>2, <3>1 DEF Said
  <2> QED
    BY <1>2, <2>1 DEF LastSaidUpTo
<1> QED
  BY <1>1, <1>2

\* A .env file sets each variable to what it says of it last.
LEMMA ParseEnvIs ==
  ASSUME NEW file, IsList(file)
  PROVE  ParseEnv(file) = [name \in DOMAIN world.exported |-> LastSaid(file, name)]
<1> DEFINE n == Len(file)
           N == DOMAIN world.exported
           V == [N -> {None} \cup {file[i].value : i \in 1..n}]
           Set(values, line) ==
              IF ParseLine(line) THEN [values EXCEPT ![line.name] = line.value] ELSE values
           base == [name \in N |-> None]
           F == [p \in V \X (1..n) |-> Set(p[1], file[p[2]])]
           Step(g) == [T \in SUBSET DOMAIN file |->
                         IF T = {} THEN base ELSE Set(g[T \ {Max(T)}], file[Max(T)])]
           iter == CHOOSE g : g = Step(g)
<1>1. ParseEnv(file) = iter[DOMAIN file]
  BY DEF ParseEnv, FoldLeft, MapThenFoldSet
<1>2. n \in Nat /\ DOMAIN file = 1..n
  BY DEF IsList, ToSet
<1>3. base \in V
  OBVIOUS
<1>4. F \in [V \X (1..n) -> V]
  <2> SUFFICES ASSUME NEW v \in V, NEW k \in 1..n PROVE Set(v, file[k]) \in V
    OBVIOUS
  <2>1. file[k].value \in {file[i].value : i \in 1..n}
    OBVIOUS
  <2> QED
    BY <2>1
<1> HIDE DEF V, n, Set, base
<1>5. PICK g \in [SUBSET (1..n) -> V] : IsFold(g, n, base, F)
  <2> HIDE DEF F
  <2> QED
    BY <1>2, <1>3, <1>4, FoldExists
<1>6. g = Step(g)
  <2>1. ASSUME NEW T \in SUBSET (1..n), T # {}
        PROVE  F[<<g[T \ {Max(T)}], Max(T)>>] = Set(g[T \ {Max(T)}], file[Max(T)])
    <3>1. Max(T) \in 1..n
      BY <1>2, <2>1, MaxIn
    <3>2. T \ {Max(T)} \in SUBSET (1..n) /\ g[T \ {Max(T)}] \in V
      OBVIOUS
    <3> QED
      BY <3>1, <3>2
  <2> HIDE DEF F
  <2> QED
    BY <1>2, <1>5, <2>1 DEF IsFold
<1>7. iter = Step(iter)
  BY <1>6
<1> HIDE DEF iter
<1>8. IsFoldWithin(iter, n, V, base, F)
  <2>1. ASSUME NEW T \in SUBSET (1..n), T # {}, iter[T \ {Max(T)}] \in V
        PROVE  iter[T] = F[<<iter[T \ {Max(T)}], Max(T)>>]
    <3>1. Max(T) \in 1..n
      BY <1>2, <2>1, MaxIn
    <3> QED
      BY <1>2, <1>7, <2>1, <3>1
  <2>2. iter[{}] = base
    BY <1>7
  <2> HIDE DEF F
  <2> QED
    BY <2>1, <2>2 DEF IsFoldWithin
<1>9. PICK p \in [0..n -> V] : IsChain(p, n, base, F, iter[1..n])
  <2> HIDE DEF F
  <2> QED
    BY <1>2, <1>3, <1>4, <1>8, FoldChain
<1>10. \A k \in 1..n : p[k] = Set(p[k - 1], file[k])
  <2> SUFFICES ASSUME NEW k \in 1..n PROVE p[k] = Set(p[k - 1], file[k])
    OBVIOUS
  <2>1. k - 1 \in 0..n
    BY <1>2
  <2>2. p[k - 1] \in V /\ <<p[k - 1], k>> \in V \X (1..n)
    BY <2>1
  <2>3. F[<<p[k - 1], k>>] = Set(p[k - 1], file[k])
    BY <2>2
  <2> HIDE DEF F
  <2> QED
    BY <1>9, <2>3 DEF IsChain
<1> DEFINE good == {k \in 0..n : p[k] = [name \in N |-> LastSaidUpTo(file, k, name)]}
<1>11. 0 \in good
  <2>1. \A name : LastSaidUpTo(file, 0, name) = None
    BY DEF LastSaidUpTo, Said
  <2>2. p[0] = base
    BY <1>9 DEF IsChain
  <2> QED
    BY <1>2, <2>1, <2>2 DEF base
<1>12. ASSUME NEW k \in 1..n, k - 1 \in good
       PROVE  k \in good
  <2>1. p[k] = Set([name \in N |-> LastSaidUpTo(file, k - 1, name)], file[k])
    BY <1>10, <1>12
  <2>2. \A name : LastSaidUpTo(file, k, name)
            = IF ParseLine(file[k]) /\ file[k].name = name THEN file[k].value
              ELSE LastSaidUpTo(file, k - 1, name)
    BY NextSaid, <1>2
  <2>3. p[k] = [name \in N |-> LastSaidUpTo(file, k, name)]
    <3>1. CASE ParseLine(file[k])
      BY <2>1, <2>2, <3>1 DEF Set
    <3>2. CASE ~ParseLine(file[k])
      BY <2>1, <2>2, <3>2 DEF Set
    <3> QED
      BY <3>1, <3>2
  <2> QED
    BY <1>2, <2>3
<1>13. n \in good
  <2>1. \A b \in SUBSET (0..n) :
           0 \in b /\ (\A k \in 1..n : k - 1 \in b => k \in b) => b = 0..n
    BY <1>2, UpTo
  <2>2. good \in SUBSET (0..n)
    OBVIOUS
  <2> HIDE DEF good
  <2> QED
    BY <1>2, <1>11, <1>12, <2>1, <2>2
<1>14. \A name : LastSaidUpTo(file, n, name) = LastSaid(file, name)
  BY <1>2 DEF LastSaidUpTo, LastSaid, Said
<1>15. p[n] = iter[1..n]
  BY <1>9 DEF IsChain
<1> QED
  BY <1>1, <1>2, <1>13, <1>14, <1>15

\* A variable is what was exported, else what the project's file says of it,
\* else what the user's does.
ValueOf(name) ==
    IF world.exported[name] # None THEN world.exported[name]
    ELSE IF LastSaid(world.projectEnv, name) # None THEN LastSaid(world.projectEnv, name)
    ELSE LastSaid(world.userEnv, name)

\* Loading the .env files gives every variable its value.
LEMMA LoadEnvSets ==
  ASSUME LoadEnv, environ = world.exported, IsList(world.userEnv), IsList(world.projectEnv)
  PROVE  environ' = [name \in DOMAIN world.exported |-> ValueOf(name)]
<1> DEFINE N == DOMAIN world.exported
           user == [name \in N |-> LastSaid(world.userEnv, name)]
           project == [name \in N |-> LastSaid(world.projectEnv, name)]
           files == <<world.userEnv, world.projectEnv>>
           V == [N -> {None} \cup {user[name] : name \in N} \cup {project[name] : name \in N}]
           Update(merged, file) ==
              [name \in DOMAIN merged |->
                 IF ParseEnv(file)[name] = None THEN merged[name] ELSE ParseEnv(file)[name]]
           base == [name \in N |-> None]
           F == [p \in V \X (1..2) |-> Update(p[1], files[p[2]])]
           Step(g) == [T \in SUBSET DOMAIN files |->
                         IF T = {} THEN base ELSE Update(g[T \ {Max(T)}], files[Max(T)])]
           iter == CHOOSE g : g = Step(g)
<1>1. environ' = [name \in N |-> IF world.exported[name] = None THEN iter[DOMAIN files][name]
                                 ELSE world.exported[name]]
  BY DEF LoadEnv, FindEnvFiles, FoldLeft, MapThenFoldSet
<1>2. ParseEnv(files[1]) = user /\ ParseEnv(files[2]) = project /\ DOMAIN files = 1..2
  BY ParseEnvIs
<1> HIDE DEF files
<1>3. base \in V
  OBVIOUS
<1>4. F \in [V \X (1..2) -> V]
  <2>1. ASSUME NEW v \in V, NEW k \in 1..2
        PROVE  Update(v, files[k]) \in V
    <3>1. ParseEnv(files[k]) = user \/ ParseEnv(files[k]) = project
      BY <1>2
    <3> QED
      BY <3>1
  <2> HIDE DEF V, Update
  <2> QED
    BY <2>1
<1> HIDE DEF V, base, Update
<1>5. PICK g \in [SUBSET (1..2) -> V] : IsFold(g, 2, base, F)
  <2> HIDE DEF F
  <2> QED
    BY <1>3, <1>4, FoldExists
<1>6. g = Step(g)
  <2>1. ASSUME NEW T \in SUBSET (1..2), T # {}
        PROVE  F[<<g[T \ {Max(T)}], Max(T)>>] = Update(g[T \ {Max(T)}], files[Max(T)])
    <3>1. Max(T) \in 1..2
      BY <2>1, MaxIn
    <3>2. T \ {Max(T)} \in SUBSET (1..2) /\ g[T \ {Max(T)}] \in V
      OBVIOUS
    <3> QED
      BY <3>1, <3>2
  <2> HIDE DEF F
  <2> QED
    BY <1>2, <1>5, <2>1 DEF IsFold
<1>7. iter = Step(iter)
  BY <1>6
<1> HIDE DEF iter
<1>8. IsFoldWithin(iter, 2, V, base, F)
  <2>1. ASSUME NEW T \in SUBSET (1..2), T # {}, iter[T \ {Max(T)}] \in V
        PROVE  iter[T] = F[<<iter[T \ {Max(T)}], Max(T)>>]
    <3>1. Max(T) \in 1..2
      BY <2>1, MaxIn
    <3> QED
      BY <1>2, <1>7, <2>1, <3>1
  <2>2. iter[{}] = base
    BY <1>7
  <2> HIDE DEF F
  <2> QED
    BY <2>1, <2>2 DEF IsFoldWithin
<1>9. PICK p \in [0..2 -> V] : IsChain(p, 2, base, F, iter[1..2])
  <2> HIDE DEF F
  <2> QED
    BY <1>3, <1>4, <1>8, FoldChain
<1>10. p[1] = Update(base, files[1]) /\ p[2] = Update(p[1], files[2])
  <2>1. p[0] = base /\ p[1] = F[<<p[0], 1>>] /\ p[2] = F[<<p[1], 2>>]
    BY <1>9 DEF IsChain
  <2>2. p[0] \in V /\ p[1] \in V
    <3>1. 0 \in 0..2 /\ 1 \in 0..2
      OBVIOUS
    <3> HIDE DEF F
    <3> QED
      BY <3>1
  <2> QED
    BY <2>1, <2>2
<1>11. p[2] = [name \in N |-> IF project[name] # None THEN project[name] ELSE user[name]]
  BY <1>2, <1>10 DEF Update, base
<1>12. iter[DOMAIN files] = p[2]
  BY <1>2, <1>9 DEF IsChain
<1> QED
  BY <1>1, <1>11, <1>12 DEF ValueOf

-----------------------------------------------------------------------------
(* Prices *)

\* The latest of the first k models with this id whose card gives the field.
Says(models, j, id, field) ==
    models[j].model = id /\ models[j].card # None /\ models[j].card[field] # None
CardsKept(book, models, k) ==
    \A i \in 1..k : \A field \in {"input", "output"} :
       Says(models, i, models[i].model, field)
       /\ ~(\E j \in 1..k : j > i /\ Says(models, j, models[i].model, field))
       => book[models[i].model][field] = models[i].card[field]

Priced(models) ==
    /\ IsList(models)
    /\ \A i \in DOMAIN models :
          models[i].model \in DOMAIN Looser /\ models[i].card \in Cards \cup {None}

\* Laying one entry over another gives an entry.
LEMMA OverType ==
  ASSUME NEW entry \in Cards, NEW under \in Cards
  PROVE  Over(entry, under) \in Cards
  BY DEF Over, Cards

\* One model's card is laid over the book: what it says it says, and what it
\* does not say stays.
LEMMA NextCard ==
  ASSUME NEW models, Priced(models), NEW k \in DOMAIN models,
         NEW book \in [DOMAIN Looser -> Cards], CardsKept(book, models, k - 1),
         models[k].card # None
  PROVE  CardsKept(MergeEntry(book, models[k].model, models[k].card), models, k)
<1> DEFINE id == models[k].model
           card == models[k].card
           new == MergeEntry(book, id, card)
<1>1. /\ k \in Nat \ {0} /\ id \in DOMAIN Looser /\ card \in Cards
  BY DEF Priced, IsList
<1>2. /\ \A field \in {"input", "output"} :
            new[id][field] = IF card[field] = None THEN book[id][field] ELSE card[field]
      /\ \A other \in DOMAIN Looser \ {id} : new[other] = book[other]
  BY <1>1 DEF MergeEntry, Over, Cards
<1> HIDE DEF new
<1>3. ASSUME NEW i \in 1..k, NEW field \in {"input", "output"},
             Says(models, i, models[i].model, field),
             ~(\E j \in 1..k : j > i /\ Says(models, j, models[i].model, field))
      PROVE  new[models[i].model][field] = models[i].card[field]
  <2>1. CASE i = k
    BY <1>1, <1>2, <1>3, <2>1 DEF Says
  <2>2. CASE i # k
    <3>1. i \in 1..(k - 1) /\ k > i /\ k \in 1..k
      BY <1>1, <2>2
    <3>2. ~Says(models, k, models[i].model, field)
      BY <1>3, <3>1
    <3>3. ~(\E j \in 1..(k - 1) : j > i /\ Says(models, j, models[i].model, field))
      BY <1>1, <1>3
    <3>4. book[models[i].model][field] = models[i].card[field]
      BY <1>3, <3>1, <3>3 DEF CardsKept
    <3>5. models[i].model \in DOMAIN Looser
      <4>1. i \in DOMAIN models
        BY <1>1, <3>1 DEF Priced, IsList
      <4> QED
        BY <4>1 DEF Priced
    <3>6. CASE models[i].model = id
      BY <1>1, <1>2, <3>2, <3>4, <3>6 DEF Says
    <3>7. CASE models[i].model # id
      BY <1>2, <3>4, <3>5, <3>7
    <3> QED
      BY <3>6, <3>7
  <2> QED
    BY <2>1, <2>2
<1> QED
  BY <1>3 DEF CardsKept, new

\* A model without a card says nothing.
LEMMA NoCard ==
  ASSUME NEW models, NEW k \in Nat \ {0}, NEW book, CardsKept(book, models, k - 1),
         models[k].card = None
  PROVE  CardsKept(book, models, k)
<1>1. \A id, field : ~Says(models, k, id, field)
  BY DEF Says
<1>2. \A i : i \in 1..k <=> i \in 1..(k - 1) \/ i = k
  OBVIOUS
<1> QED
  BY <1>1, <1>2 DEF CardsKept

\* Building the price book keeps what the models' own cards say.
LEMMA BookKeepsCards ==
  ASSUME Priced(config.models), \A id \in DOMAIN world.prices : world.prices[id] \in Cards
  PROVE  /\ BuildPriceBook \in [DOMAIN Looser -> Cards]
         /\ CardsKept(BuildPriceBook, config.models, Len(config.models))
<1> DEFINE models == config.models
           n == Len(models)
           V == [DOMAIN Looser -> Cards]
           MergeCard(book, spec) ==
              IF spec.card = None THEN book ELSE MergeEntry(book, spec.model, spec.card)
           base == [id \in DOMAIN Looser |->
                      IF config.pricing = None \/ id \notin DOMAIN world.prices THEN NoEntry
                      ELSE world.prices[id]]
           F == [p \in V \X (1..n) |-> MergeCard(p[1], models[p[2]])]
           Step(g) == [T \in SUBSET DOMAIN models |->
                         IF T = {} THEN base ELSE MergeCard(g[T \ {Max(T)}], models[Max(T)])]
           iter == CHOOSE g : g = Step(g)
<1>1. BuildPriceBook = iter[DOMAIN models]
  BY DEF BuildPriceBook, FoldLeft, MapThenFoldSet
<1>2. n \in Nat /\ DOMAIN models = 1..n
  BY DEF Priced, IsList
<1>3. base \in V
  BY DEF NoEntry, Cards
<1>4. F \in [V \X (1..n) -> V]
  <2>1. ASSUME NEW v \in V, NEW k \in 1..n
        PROVE  MergeCard(v, models[k]) \in V
    <3>1. CASE models[k].card = None
      BY <3>1
    <3>2. CASE models[k].card # None
      <4>1. models[k].model \in DOMAIN Looser /\ models[k].card \in Cards
        BY <1>2, <3>2 DEF Priced
      <4>2. Over(models[k].card, v[models[k].model]) \in Cards
        BY <4>1, OverType
      <4> QED
        BY <3>2, <4>1, <4>2 DEF MergeEntry
    <3> QED
      BY <3>1, <3>2
  <2> HIDE DEF V, MergeCard
  <2> QED
    BY <2>1
<1> HIDE DEF V, n, base, MergeCard
<1>5. PICK g \in [SUBSET (1..n) -> V] : IsFold(g, n, base, F)
  <2> HIDE DEF F
  <2> QED
    BY <1>2, <1>3, <1>4, FoldExists
<1>6. g = Step(g)
  <2>1. ASSUME NEW T \in SUBSET (1..n), T # {}
        PROVE  F[<<g[T \ {Max(T)}], Max(T)>>] = MergeCard(g[T \ {Max(T)}], models[Max(T)])
    <3>1. Max(T) \in 1..n
      BY <1>2, <2>1, MaxIn
    <3>2. T \ {Max(T)} \in SUBSET (1..n) /\ g[T \ {Max(T)}] \in V
      OBVIOUS
    <3> QED
      BY <3>1, <3>2
  <2> HIDE DEF F
  <2> QED
    BY <1>2, <1>5, <2>1 DEF IsFold
<1>7. iter = Step(iter)
  BY <1>6
<1> HIDE DEF iter
<1>8. IsFoldWithin(iter, n, V, base, F)
  <2>1. ASSUME NEW T \in SUBSET (1..n), T # {}, iter[T \ {Max(T)}] \in V
        PROVE  iter[T] = F[<<iter[T \ {Max(T)}], Max(T)>>]
    <3>1. Max(T) \in 1..n
      BY <1>2, <2>1, MaxIn
    <3> QED
      BY <1>2, <1>7, <2>1, <3>1
  <2>2. iter[{}] = base
    BY <1>7
  <2> HIDE DEF F
  <2> QED
    BY <2>1, <2>2 DEF IsFoldWithin
<1>9. PICK p \in [0..n -> V] : IsChain(p, n, base, F, iter[1..n])
  <2> HIDE DEF F
  <2> QED
    BY <1>2, <1>3, <1>4, <1>8, FoldChain
<1>10. \A k \in 1..n : p[k - 1] \in V /\ p[k] = MergeCard(p[k - 1], models[k])
  <2> SUFFICES ASSUME NEW k \in 1..n
               PROVE  p[k - 1] \in V /\ p[k] = MergeCard(p[k - 1], models[k])
    OBVIOUS
  <2>1. k - 1 \in 0..n
    BY <1>2
  <2>2. p[k - 1] \in V /\ <<p[k - 1], k>> \in V \X (1..n)
    BY <2>1
  <2>3. F[<<p[k - 1], k>>] = MergeCard(p[k - 1], models[k])
    BY <2>2
  <2> HIDE DEF F
  <2> QED
    BY <1>9, <2>2, <2>3 DEF IsChain
<1> DEFINE good == {k \in 0..n : CardsKept(p[k], models, k)}
<1>11. 0 \in good
  BY <1>2 DEF CardsKept
<1>12. ASSUME NEW k \in 1..n, k - 1 \in good
       PROVE  k \in good
  <2>1. p[k - 1] \in V /\ p[k] = MergeCard(p[k - 1], models[k])
    BY <1>10
  <2>2. CardsKept(p[k - 1], models, k - 1) /\ k \in DOMAIN models /\ k \in Nat \ {0}
    BY <1>2, <1>12
  <2>3. CASE models[k].card = None
    BY <2>1, <2>2, <2>3, NoCard DEF MergeCard
  <2>4. CASE models[k].card # None
    <3>1. CardsKept(MergeEntry(p[k - 1], models[k].model, models[k].card), models, k)
      BY <2>1, <2>2, <2>4, NextCard DEF V
    <3> QED
      BY <2>1, <2>4, <3>1 DEF MergeCard
  <2> QED
    BY <2>3, <2>4
<1>13. n \in good
  <2>1. \A b \in SUBSET (0..n) :
           0 \in b /\ (\A k \in 1..n : k - 1 \in b => k \in b) => b = 0..n
    BY <1>2, UpTo
  <2>2. good \in SUBSET (0..n)
    OBVIOUS
  <2> HIDE DEF good
  <2> QED
    BY <1>2, <1>11, <1>12, <2>1, <2>2
<1>14. p[n] = iter[1..n] /\ p[n] \in V
  BY <1>2, <1>9 DEF IsChain
<1>15. BuildPriceBook = p[n] /\ CardsKept(p[n], models, n)
  BY <1>1, <1>2, <1>13, <1>14
<1> QED
  BY <1>14, <1>15 DEF V, n

\* The entry of the id itself is laid over all others.
LEMMA OwnEntryWins ==
  ASSUME NEW book \in [DOMAIN Looser -> Cards], NEW id \in DOMAIN Looser,
         NEW field \in {"input", "output"}, book[id][field] # None
  PROVE  ResolveCard(book, id)[field] = book[id][field]
<1> DEFINE forms == Reverse(Looser[id])
           n == Len(Looser[id])
           V == Cards
           Layer(card, form) == Over(book[form], Over(Catalog[form], card))
           F == [p \in V \X (1..n) |-> Layer(p[1], forms[p[2]])]
           Step(g) == [T \in SUBSET DOMAIN forms |->
                         IF T = {} THEN NoEntry ELSE Layer(g[T \ {Max(T)}], forms[Max(T)])]
           iter == CHOOSE g : g = Step(g)
<1>1. ResolveCard(book, id) = iter[DOMAIN forms]
  BY DEF ResolveCard, FoldLeft, MapThenFoldSet
<1>2. /\ n \in Nat \ {0} /\ DOMAIN forms = 1..n
      /\ forms[n] = id /\ \A k \in 1..n : forms[k] \in DOMAIN Looser
  BY PreparationAssumption DEF Reverse
<1>3. NoEntry \in V
  BY DEF NoEntry, Cards
<1> HIDE DEF forms
<1>4. F \in [V \X (1..n) -> V]
  <2>1. ASSUME NEW v \in V, NEW k \in 1..n
        PROVE  Layer(v, forms[k]) \in V
    <3>1. book[forms[k]] \in Cards /\ Catalog[forms[k]] \in Cards
      BY <1>2, PreparationAssumption
    <3>2. Over(Catalog[forms[k]], v) \in Cards
      BY <3>1, OverType
    <3> QED
      BY <3>1, <3>2, OverType
  <2> HIDE DEF V, Layer
  <2> QED
    BY <2>1
<1> HIDE DEF V, n, Layer
<1>5. PICK g \in [SUBSET (1..n) -> V] : IsFold(g, n, NoEntry, F)
  <2> HIDE DEF F
  <2> QED
    BY <1>2, <1>3, <1>4, FoldExists
<1>6. g = Step(g)
  <2>1. ASSUME NEW T \in SUBSET (1..n), T # {}
        PROVE  F[<<g[T \ {Max(T)}], Max(T)>>] = Layer(g[T \ {Max(T)}], forms[Max(T)])
    <3>1. Max(T) \in 1..n
      BY <1>2, <2>1, MaxIn
    <3>2. T \ {Max(T)} \in SUBSET (1..n) /\ g[T \ {Max(T)}] \in V
      OBVIOUS
    <3> QED
      BY <3>1, <3>2
  <2> HIDE DEF F
  <2> QED
    BY <1>2, <1>5, <2>1 DEF IsFold
<1>7. iter = Step(iter)
  BY <1>6
<1> HIDE DEF iter
<1>8. IsFoldWithin(iter, n, V, NoEntry, F)
  <2>1. ASSUME NEW T \in SUBSET (1..n), T # {}, iter[T \ {Max(T)}] \in V
        PROVE  iter[T] = F[<<iter[T \ {Max(T)}], Max(T)>>]
    <3>1. Max(T) \in 1..n
      BY <1>2, <2>1, MaxIn
    <3> QED
      BY <1>2, <1>7, <2>1, <3>1
  <2>2. iter[{}] = NoEntry
    BY <1>7
  <2> HIDE DEF F
  <2> QED
    BY <2>1, <2>2 DEF IsFoldWithin
<1>9. PICK p \in [0..n -> V] : IsChain(p, n, NoEntry, F, iter[1..n])
  <2> HIDE DEF F
  <2> QED
    BY <1>2, <1>3, <1>4, <1>8, FoldChain
<1>10. p[n - 1] \in V /\ p[n] = Layer(p[n - 1], id)
  <2>1. n - 1 \in 0..n /\ n \in 1..n
    BY <1>2
  <2>2. p[n - 1] \in V /\ <<p[n - 1], n>> \in V \X (1..n)
    BY <2>1
  <2>3. F[<<p[n - 1], n>>] = Layer(p[n - 1], forms[n])
    BY <2>2
  <2> HIDE DEF F
  <2> QED
    BY <1>2, <1>9, <2>1, <2>2, <2>3 DEF IsChain
<1>11. iter[1..n] = p[n]
  BY <1>9 DEF IsChain
<1>12. Over(Catalog[id], p[n - 1]) \in Cards
  BY <1>10, OverType, PreparationAssumption DEF V
<1>13. Over(book[id], Over(Catalog[id], p[n - 1]))[field] = book[id][field]
  BY <1>12 DEF Over, Cards
<1> QED
  BY <1>1, <1>2, <1>10, <1>11, <1>13 DEF Layer

\* What the book says of a model's field is what its calls are priced at.
LEMMA BookIsAsked ==
  ASSUME NEW book \in [DOMAIN Looser -> Cards], NEW spec, spec.model \in DOMAIN Looser,
         NEW field \in {"input", "output"}, book[spec.model][field] # None
  PROVE  GetCard(book, spec)[field] = book[spec.model][field]
<1>1. ResolveCard(book, spec.model)[field] = book[spec.model][field]
  BY OwnEntryWins
<1>2. ResolveCard(book, spec.model) # NoEntry
  BY <1>1 DEF NoEntry
<1> QED
  BY <1>1, <1>2 DEF GetCard

-----------------------------------------------------------------------------
(* The config *)

\* The first of a list is one of the list, and the list has nothing before it.
LEMMA FirstOfIs ==
  ASSUME NEW values, NEW n \in Nat, DOMAIN values = 1..n
  PROVE  \/ FirstOf(values) = None /\ \A i \in 1..n : values[i] = None
         \/ \E i \in 1..n : /\ values[i] # None /\ FirstOf(values) = values[i]
                            /\ \A j \in 1..n : j < i => values[j] = None
<1> DEFINE T == {i \in DOMAIN values : values[i] # None}
<1>1. CASE T = {}
  BY <1>1 DEF FirstOf
<1>2. CASE T # {}
  <2> DEFINE i == Min(T)
  <2>1. T \in SUBSET (1..n)
    OBVIOUS
  <2>2. i \in T /\ \A y \in T : i <= y
    BY <1>2, <2>1, MinIn
  <2>3. FirstOf(values) = values[i]
    BY <1>2 DEF FirstOf
  <2> HIDE DEF i
  <2>4. \A j \in 1..n : j < i => values[j] = None
    BY <2>2
  <2> QED
    BY <2>2, <2>3, <2>4
<1> QED
  BY <1>1, <1>2

\* The same, of two and of three values.
LEMMA FirstOfTwo ==
  ASSUME NEW a, NEW b
  PROVE  FirstOf(<<a, b>>) = IF a # None THEN a ELSE b
<1> DEFINE values == <<a, b>>
<1>1. DOMAIN values = 1..2 /\ values[1] = a /\ values[2] = b
  OBVIOUS
<1> HIDE DEF values
<1>2. \/ FirstOf(values) = None /\ \A i \in 1..2 : values[i] = None
      \/ \E i \in 1..2 : /\ values[i] # None /\ FirstOf(values) = values[i]
                         /\ \A j \in 1..2 : j < i => values[j] = None
  BY <1>1, FirstOfIs
<1>3. FirstOf(values) = IF a # None THEN a ELSE b
  BY <1>1, <1>2
<1> QED
  BY <1>3 DEF values

LEMMA FirstOfThree ==
  ASSUME NEW a, NEW b, NEW c
  PROVE  FirstOf(<<a, b, c>>) = IF a # None THEN a ELSE IF b # None THEN b ELSE c
<1> DEFINE values == <<a, b, c>>
<1>1. DOMAIN values = 1..3 /\ values[1] = a /\ values[2] = b /\ values[3] = c
  OBVIOUS
<1> HIDE DEF values
<1>2. \/ FirstOf(values) = None /\ \A i \in 1..3 : values[i] = None
      \/ \E i \in 1..3 : /\ values[i] # None /\ FirstOf(values) = values[i]
                         /\ \A j \in 1..3 : j < i => values[j] = None
  BY <1>1, FirstOfIs
<1>3. FirstOf(values) = IF a # None THEN a ELSE IF b # None THEN b ELSE c
  BY <1>1, <1>2
<1> QED
  BY <1>3 DEF values

\* A model that names a provider comes from somewhere.
LEMMA NamedIsResolved ==
  ASSUME NEW spec, spec.provider # None
  PROVE  ResolveProvider(spec, None) # None
<1> DEFINE values == <<IF spec.run = None THEN None ELSE "callable", None, spec.provider,
                       Prefix[spec.model], IF spec.base = None THEN None ELSE "local">>
<1>1. DOMAIN values = 1..5 /\ values[3] = spec.provider
  OBVIOUS
<1>2. ResolveProvider(spec, None) = CanonicalProvider(FirstOf(values))
  BY DEF ResolveProvider
<1> HIDE DEF values
<1>3. FirstOf(values) # None
  <2>1. \/ FirstOf(values) = None /\ \A i \in 1..5 : values[i] = None
        \/ \E i \in 1..5 : /\ values[i] # None /\ FirstOf(values) = values[i]
                           /\ \A j \in 1..5 : j < i => values[j] = None
    BY <1>1, FirstOfIs
  <2> QED
    BY <1>1, <2>1
<1>4. \A provider : provider # None => CanonicalProvider(provider) # None
  BY PreparationAssumption DEF CanonicalProvider
<1> QED
  BY <1>2, <1>3, <1>4

\* What the steps after the config was loaded need of it.
ConfigShape(c) ==
    /\ Priced(c.models)
    /\ \A spec \in ToSet(c.models) : spec.env \in DOMAIN world.exported \cup {None}
    /\ IsList(c.providers)
    /\ \A profile \in ToSet(c.providers) : IsProfile(profile, world.exported)

\* A sequence is a list, and its elements are at its places.
LEMMA ListElements ==
  ASSUME NEW S, NEW seq \in Seq(S)
  PROVE  /\ IsList(seq) /\ ToSet(seq) \subseteq S
         /\ DOMAIN seq = 1..Len(seq) /\ \A i \in DOMAIN seq : seq[i] \in ToSet(seq)
<1>1. DOMAIN seq = 1..Len(seq) /\ ToSet(seq) \subseteq S
  BY DEF ToSet
<1>2. \A i \in 1..Len(seq) : seq[i] \in ToSet(seq)
  BY <1>1 DEF ToSet
<1>3. seq \in Seq(ToSet(seq))
  BY <1>1, <1>2
<1> QED
  BY <1>1, <1>2, <1>3 DEF IsList

\* What has a value at each place up to a number is a list.
LEMMA ListByIndex ==
  ASSUME NEW n \in Nat, NEW seq, seq = [i \in 1..n |-> seq[i]]
  PROVE  IsList(seq)
<1>1. \A i \in 1..n : seq[i] \in ToSet(seq)
  BY DEF ToSet
<1> QED
  BY <1>1 DEF IsList

\* Parsing keeps of each block what the later steps need.
LEMMA FromDictShape ==
  ASSUME NEW raw, IsConfig(raw, world.exported), NEW paths, FromDict(raw, paths) # None
  PROVE  /\ ConfigShape(FromDict(raw, paths))
         /\ DOMAIN FromDict(raw, paths) = DOMAIN raw
<1> DEFINE models == [i \in DOMAIN raw.models |-> ParseModel(raw.models[i])]
           providers == [i \in DOMAIN raw.providers |-> ParseProvider(raw.providers[i])]
           c == [raw EXCEPT !.models = models, !.providers = providers]
<1>1. FromDict(raw, paths) = c /\ None \notin ToSet(c.models) \cup ToSet(c.providers)
  BY DEF FromDict
<1>2. DOMAIN c = DOMAIN raw /\ c.models = models /\ c.providers = providers
  BY DEF IsConfig, HasKeys
<1> HIDE DEF c
<1>3. /\ \E n \in Nat : DOMAIN raw.models = 1..n
      /\ \E n \in Nat : DOMAIN raw.providers = 1..n
      /\ \A i \in DOMAIN raw.models : raw.models[i] \in ToSet(raw.models)
      /\ \A i \in DOMAIN raw.providers : raw.providers[i] \in ToSet(raw.providers)
  BY ListElements DEF IsConfig, IsList
<1>4. ASSUME NEW i \in DOMAIN raw.models
      PROVE  /\ models[i].model \in DOMAIN Looser /\ models[i].card \in Cards \cup {None}
             /\ models[i].env \in DOMAIN world.exported \cup {None}
  <2> DEFINE spec == raw.models[i]
             model == FirstOf(<<spec.model, spec.run>>)
  <2>1. IsModel(spec, world.exported) /\ ParseModel(spec) # None
    BY <1>1, <1>2, <1>3 DEF IsConfig, ToSet
  <2>2. model # None
    BY <2>1 DEF ParseModel
  <2>3. ParseModel(spec) = [spec EXCEPT !.model = model, !.key = FirstOf(<<spec.key, model>>)]
    BY <2>2 DEF ParseModel
  <2> HIDE DEF model
  <2>4. models[i].model = model /\ models[i].card = spec.card /\ models[i].env = spec.env
    BY <2>1, <2>3 DEF IsModel, HasKeys
  <2> QED
    BY <2>1, <2>2, <2>4 DEF IsModel, model
<1>5. ASSUME NEW i \in DOMAIN raw.providers
      PROVE  IsProfile(providers[i], world.exported)
  <2>1. ParseProvider(raw.providers[i]) # None
    BY <1>1, <1>2 DEF ToSet
  <2>2. ParseProvider(raw.providers[i]) = raw.providers[i]
    BY <2>1 DEF ParseProvider
  <2> QED
    BY <1>3, <2>2 DEF IsConfig
<1>6. IsList(models) /\ IsList(providers)
  <2>1. /\ models = [i \in DOMAIN raw.models |-> models[i]]
        /\ providers = [i \in DOMAIN raw.providers |-> providers[i]]
    OBVIOUS
  <2> HIDE DEF models, providers
  <2> QED
    BY <1>3, <2>1, ListByIndex
<1>7. Priced(models)
  BY <1>4, <1>6 DEF Priced
<1>8. /\ \A spec \in ToSet(models) : spec.env \in DOMAIN world.exported \cup {None}
      /\ \A profile \in ToSet(providers) : IsProfile(profile, world.exported)
  BY <1>4, <1>5 DEF ToSet
<1> HIDE DEF models, providers
<1> QED
  BY <1>1, <1>2, <1>6, <1>7, <1>8 DEF ConfigShape

\* A part of a priced list is priced.
LEMMA PartShape ==
  ASSUME NEW models, Priced(models), NEW part \in Seq(ToSet(models))
  PROVE  Priced(part) /\ ToSet(part) \subseteq ToSet(models)
<1>1. IsList(part) /\ ToSet(part) \subseteq ToSet(models)
  BY ListElements
<1>2. ASSUME NEW i \in DOMAIN part
      PROVE  part[i].model \in DOMAIN Looser /\ part[i].card \in Cards \cup {None}
  <2>1. part[i] \in ToSet(models)
    BY <1>1 DEF ToSet
  <2>2. PICK j \in DOMAIN models : models[j] = part[i]
    BY <2>1 DEF ToSet
  <2> QED
    BY <2>2 DEF Priced
<1> QED
  BY <1>1, <1>2 DEF Priced

\* A command's overrides keep the shape of a config.
LEMMA OverridesShape ==
  ASSUME NEW c, ConfigShape(c), {"models", "providers"} \subseteq DOMAIN c,
         NEW given, ApplyOverrides(c, given) # None
  PROVE  ConfigShape(ApplyOverrides(c, given))
<1> DEFINE new == ApplyOverrides(c, given)
           wanted == {spec \in ToSet(c.models) :
                         spec.key \in given.models \/ spec.model \in given.models}
<1>1. /\ new.providers = c.providers
      /\ new.models = IF given.models = {} THEN c.models ELSE Kept(c.models, wanted)
  BY DEF ApplyOverrides
<1>2. IsList(c.models) /\ Priced(c.models)
  BY DEF ConfigShape, Priced
<1>3. Kept(c.models, wanted) \in Seq(ToSet(c.models) \cap wanted)
  <2> HIDE DEF wanted
  <2> QED
    BY <1>2, KeptType
<1>4. ToSet(c.models) \cap wanted \subseteq ToSet(c.models)
  OBVIOUS
<1> HIDE DEF new, wanted
<1>5. Kept(c.models, wanted) \in Seq(ToSet(c.models))
  BY <1>3, <1>4
<1>6. c.models \in Seq(ToSet(c.models))
  BY <1>2 DEF IsList
<1>7. Priced(new.models) /\ ToSet(new.models) \subseteq ToSet(c.models)
  <2>1. new.models \in Seq(ToSet(c.models))
    BY <1>1, <1>5, <1>6
  <2> QED
    BY <1>2, <2>1, PartShape
<1> QED
  BY <1>1, <1>7 DEF ConfigShape, new

\* A config that was loaded has its shape.
LEMMA LoadedShape ==
  ASSUME world \in Worlds, Load(world.files, world.paths) # None,
         ApplyOverrides(Load(world.files, world.paths), command) # None
  PROVE  ConfigShape(ApplyOverrides(Load(world.files, world.paths), command))
<1> DEFINE raw == FirstOf(world.files)
           c == FromDict(raw, world.paths)
<1>1. raw # None /\ Load(world.files, world.paths) = c
  BY DEF Load
<1>2. raw \in ToSet(world.files)
  <2>1. world.files \in Seq(ToSet(world.files))
    BY PreparationAssumption DEF IsList
  <2>2. PICK n \in Nat : DOMAIN world.files = 1..n
    BY <2>1
  <2>3. \/ raw = None /\ \A i \in 1..n : world.files[i] = None
        \/ \E i \in 1..n : /\ world.files[i] # None /\ raw = world.files[i]
                           /\ \A j \in 1..n : j < i => world.files[j] = None
    BY <2>2, FirstOfIs
  <2> HIDE DEF raw
  <2> QED
    BY <1>1, <2>2, <2>3 DEF ToSet
<1> HIDE DEF raw
<1>3. IsConfig(raw, world.exported)
  BY <1>1, <1>2, PreparationAssumption
<1>4. ConfigShape(c) /\ {"models", "providers"} \subseteq DOMAIN c
  <2>1. c # None
    BY <1>1
  <2>2. ConfigShape(c) /\ DOMAIN c = DOMAIN raw
    BY <1>3, <2>1, FromDictShape
  <2>3. {"models", "providers"} \subseteq DOMAIN raw
    BY <1>3 DEF IsConfig, HasKeys
  <2> QED
    BY <2>2, <2>3
<1> HIDE DEF c
<1> QED
  BY <1>1, <1>4, OverridesShape

-----------------------------------------------------------------------------
(* The inductive invariant: what each step has left for those after it *)

EnvironIs ==
    environ = IF pc = "env" THEN world.exported
              ELSE [name \in DOMAIN world.exported |-> ValueOf(name)]

ConfigIs ==
    pc \in {"collaborators", "cases", "preflight", "report", "reported", "connect", "ready"}
    => ConfigShape(config)

PricesAre ==
    pc \in {"cases", "preflight", "report", "reported", "connect", "ready"} =>
        /\ overrides \in [DOMAIN Looser -> Cards]
        /\ CardsKept(overrides, config.models, Len(config.models))

\* Why preflight leaves a model out.
Missing(spec) == RequiresApiKey(spec) # None /\ Environ(RequiresApiKey(spec)) = None
Unwell(spec) == Checked(spec) /\ spec.key \notin world.healthy
SkippedAre ==
    /\ pc = "env" => skipped = {}
    /\ \A spec \in skipped : Missing(spec) \/ Unwell(spec)

\* What a model it lets pass has shown.
PassedAre ==
    pc \in {"report", "reported", "connect", "ready"} =>
        \A spec \in ToSet(EnabledModels(config)) \ skipped :
            ~Missing(spec) /\ (Checked(spec) => Connects(spec, ProviderFor(config, spec)))

RowIs == row = "running" => pc \in {"connect", "ready", "refused"}

KeysAre ==
    pc = "ready" =>
        keys = [i \in DOMAIN Runnable |-> ApiKey(Runnable[i], ProviderFor(config, Runnable[i]))]

IInv ==
    /\ world \in Worlds
    /\ EnvironIs
    /\ ConfigIs
    /\ PricesAre
    /\ SkippedAre
    /\ PassedAre
    /\ RowIs
    /\ KeysAre
    /\ StuckRowsHaveACause

\* What the models are asked for only changes with the environment.
LEMMA SameAnswers ==
  ASSUME UNCHANGED <<world, environ>>
  PROVE  /\ \A name : Environ(name)' = Environ(name) /\ ValueOf(name)' = ValueOf(name)
         /\ \A spec : Missing(spec)' = Missing(spec) /\ Checked(spec)' = Checked(spec)
                      /\ Unwell(spec)' = Unwell(spec)
         /\ \A spec, profile : /\ ApiKey(spec, profile)' = ApiKey(spec, profile)
                               /\ Connects(spec, profile)' = Connects(spec, profile)
         /\ \A ref : ResolveSecret(ref)' = ResolveSecret(ref)
<1>1. \A name : Environ(name)' = Environ(name) /\ ValueOf(name)' = ValueOf(name)
  BY DEF Environ, ValueOf
<1>2. \A ref : ResolveSecret(ref)' = ResolveSecret(ref)
  BY <1>1 DEF ResolveSecret
<1>3. \A spec, profile : ApiKey(spec, profile)' = ApiKey(spec, profile)
  BY <1>1, <1>2 DEF ApiKey
<1>4. \A spec, profile : Connects(spec, profile)' = Connects(spec, profile)
  BY <1>3 DEF Connects
<1>5. \A spec : Missing(spec)' = Missing(spec) /\ Checked(spec)' = Checked(spec)
  BY <1>1 DEF Missing, Checked
<1>6. \A spec : Unwell(spec)' = Unwell(spec)
  BY <1>5 DEF Unwell
<1> QED
  BY <1>1, <1>2, <1>3, <1>4, <1>5, <1>6

\* What explains a refused row stays so while nothing moves.
LEMMA SameCause ==
  ASSUME UNCHANGED <<pc, world, environ, config, skipped, row>>, StuckRowsHaveACause
  PROVE  StuckRowsHaveACause'
<1>1. Runnable' = Runnable
  BY DEF Runnable
<1>2. /\ \A name : Environ(name)' = Environ(name)
      /\ \A ref : ResolveSecret(ref)' = ResolveSecret(ref)
  BY SameAnswers
<1> QED
  BY <1>1, <1>2 DEF StuckRowsHaveACause

LEMMA InitIInv ==
  ASSUME Init
  PROVE  IInv
  BY DEF Init, IInv, EnvironIs, ConfigIs, PricesAre, SkippedAre, PassedAre, RowIs, KeysAre,
         StuckRowsHaveACause

LEMMA StutterIInv ==
  ASSUME IInv, UNCHANGED vars
  PROVE  IInv'
<1>1. UNCHANGED <<pc, world, environ, config, overrides, skipped, row, keys>>
  BY DEF vars
<1>2. Runnable' = Runnable
  BY <1>1 DEF Runnable
<1>3. /\ \A name : ValueOf(name)' = ValueOf(name)
      /\ \A spec : Missing(spec)' = Missing(spec) /\ Checked(spec)' = Checked(spec)
                   /\ Unwell(spec)' = Unwell(spec)
      /\ \A spec, profile : /\ ApiKey(spec, profile)' = ApiKey(spec, profile)
                            /\ Connects(spec, profile)' = Connects(spec, profile)
  BY <1>1, SameAnswers
<1>4. EnvironIs' /\ ConfigIs' /\ PricesAre'
  BY <1>1, <1>3 DEF IInv, EnvironIs, ConfigIs, PricesAre, ConfigShape
<1>5. SkippedAre' /\ PassedAre' /\ RowIs'
  BY <1>1, <1>3 DEF IInv, SkippedAre, PassedAre, RowIs
<1>6. KeysAre'
  BY <1>1, <1>2, <1>3 DEF IInv, KeysAre
<1>7. StuckRowsHaveACause'
  BY <1>1, SameCause DEF IInv
<1> QED
  BY <1>1, <1>4, <1>5, <1>6, <1>7 DEF IInv

\* A refusal before the run has its row leaves nothing to explain.
LEMMA RefuseIInv ==
  ASSUME IInv, Refuse, pc # "env", row # "running"
  PROVE  IInv'
<1>1. pc' = "refused" /\ UNCHANGED <<world, environ, config, overrides, skipped, row, keys>>
  BY DEF Refuse
<1>2. /\ \A name : ValueOf(name)' = ValueOf(name)
      /\ \A spec : Missing(spec)' = Missing(spec) /\ Unwell(spec)' = Unwell(spec)
  BY <1>1, SameAnswers
<1>3. EnvironIs'
  BY <1>1, <1>2 DEF IInv, EnvironIs
<1>4. ConfigIs' /\ PricesAre' /\ PassedAre' /\ RowIs' /\ KeysAre' /\ StuckRowsHaveACause'
  BY <1>1 DEF ConfigIs, PricesAre, PassedAre, RowIs, KeysAre, StuckRowsHaveACause
<1>5. SkippedAre'
  BY <1>1, <1>2 DEF IInv, SkippedAre
<1> QED
  BY <1>1, <1>3, <1>4, <1>5 DEF IInv

LEMMA LoadEnvIInv ==
  ASSUME IInv, LoadEnv
  PROVE  IInv'
<1>1. /\ pc = "env" /\ pc' = "config"
      /\ UNCHANGED <<world, config, overrides, skipped, row, keys>>
  BY DEF LoadEnv
<1>2. \A name : ValueOf(name)' = ValueOf(name)
  BY <1>1 DEF ValueOf
<1>3. EnvironIs'
  <2>1. environ = world.exported
    BY <1>1 DEF IInv, EnvironIs
  <2>2. IsList(world.userEnv) /\ IsList(world.projectEnv)
    BY PreparationAssumption DEF IInv
  <2>3. environ' = [name \in DOMAIN world.exported |-> ValueOf(name)]
    BY <2>1, <2>2, LoadEnvSets
  <2> QED
    BY <1>1, <1>2, <2>3 DEF EnvironIs
<1>4. SkippedAre'
  BY <1>1 DEF IInv, SkippedAre
<1>5. ConfigIs' /\ PricesAre' /\ PassedAre' /\ KeysAre' /\ StuckRowsHaveACause'
  BY <1>1 DEF ConfigIs, PricesAre, PassedAre, KeysAre, StuckRowsHaveACause
<1>6. RowIs'
  BY <1>1 DEF IInv, RowIs
<1> QED
  BY <1>1, <1>3, <1>4, <1>5, <1>6 DEF IInv

LEMMA LoadConfigIInv ==
  ASSUME IInv, LoadConfig
  PROVE  IInv'
<1> DEFINE loaded == Load(world.files, world.paths)
<1>1. pc = "config" /\ row # "running"
  BY DEF LoadConfig, IInv, RowIs
<1>2. CASE Refuse
  BY <1>1, <1>2, RefuseIInv
<1>3. CASE /\ loaded # None /\ ApplyOverrides(loaded, command) # None
           /\ config' = ApplyOverrides(loaded, command)
           /\ pc' = "collaborators"
           /\ UNCHANGED <<world, environ, overrides, skipped, row, keys>>
  <2>1. /\ \A name : ValueOf(name)' = ValueOf(name)
        /\ \A spec : Missing(spec)' = Missing(spec) /\ Unwell(spec)' = Unwell(spec)
    BY <1>3, SameAnswers
  <2>2. EnvironIs'
    BY <1>1, <1>3, <2>1 DEF IInv, EnvironIs
  <2>3. ConfigShape(config)'
    <3>1. ConfigShape(ApplyOverrides(loaded, command))
      BY <1>3, LoadedShape DEF IInv
    <3> QED
      BY <1>3, <3>1 DEF ConfigShape
  <2>4. SkippedAre'
    BY <1>3, <2>1 DEF IInv, SkippedAre
  <2>5. PricesAre' /\ PassedAre' /\ KeysAre' /\ StuckRowsHaveACause'
    BY <1>3 DEF PricesAre, PassedAre, KeysAre, StuckRowsHaveACause
  <2>6. RowIs'
    BY <1>1, <1>3 DEF RowIs
  <2> QED
    BY <1>3, <2>2, <2>3, <2>4, <2>5, <2>6 DEF IInv, ConfigIs
<1> QED
  BY <1>2, <1>3 DEF LoadConfig

LEMMA CollaborateIInv ==
  ASSUME IInv, Collaborate
  PROVE  IInv'
<1>1. pc = "collaborators" /\ row # "running"
  BY DEF Collaborate, IInv, RowIs
<1>2. CASE Refuse
  BY <1>1, <1>2, RefuseIInv
<1>3. CASE /\ overrides' = BuildPriceBook
           /\ pc' = "cases"
           /\ UNCHANGED <<world, environ, config, skipped, row, keys>>
  <2>1. /\ \A name : ValueOf(name)' = ValueOf(name)
        /\ \A spec : Missing(spec)' = Missing(spec) /\ Unwell(spec)' = Unwell(spec)
    BY <1>3, SameAnswers
  <2>2. EnvironIs'
    BY <1>1, <1>3, <2>1 DEF IInv, EnvironIs
  <2>3. ConfigShape(config)
    BY <1>1 DEF IInv, ConfigIs
  <2>4. ConfigShape(config)'
    BY <1>3, <2>3 DEF ConfigShape
  <2>5. PricesAre'
    <3>1. \A id \in DOMAIN world.prices : world.prices[id] \in Cards
      BY PreparationAssumption DEF IInv
    <3>2. /\ BuildPriceBook \in [DOMAIN Looser -> Cards]
          /\ CardsKept(BuildPriceBook, config.models, Len(config.models))
      BY <2>3, <3>1, BookKeepsCards DEF ConfigShape
    <3> QED
      BY <1>3, <3>2 DEF PricesAre
  <2>6. SkippedAre'
    BY <1>3, <2>1 DEF IInv, SkippedAre
  <2>7. PassedAre' /\ KeysAre' /\ StuckRowsHaveACause'
    BY <1>3 DEF PassedAre, KeysAre, StuckRowsHaveACause
  <2>8. RowIs'
    BY <1>1, <1>3 DEF RowIs
  <2> QED
    BY <1>3, <2>2, <2>4, <2>5, <2>6, <2>7, <2>8 DEF IInv, ConfigIs
<1> QED
  BY <1>2, <1>3 DEF Collaborate

\* A step that only moves on before the connectors are built.
LEMMA MoveOnIInv ==
  ASSUME IInv, UNCHANGED <<world, environ, config, overrides, skipped>>,
         \/ pc = "cases" /\ pc' = "preflight" /\ row' = row
         \/ pc = "report" /\ pc' = "reported" /\ row' = row
         \/ pc = "report" /\ pc' = "connect"
  PROVE  IInv'
<1>1. /\ \A name : ValueOf(name)' = ValueOf(name)
      /\ \A spec : Missing(spec)' = Missing(spec) /\ Checked(spec)' = Checked(spec)
                   /\ Unwell(spec)' = Unwell(spec)
      /\ \A spec, profile : Connects(spec, profile)' = Connects(spec, profile)
  BY SameAnswers
<1>2. EnvironIs'
  BY <1>1 DEF IInv, EnvironIs
<1>3. ConfigIs' /\ PricesAre'
  BY DEF IInv, ConfigIs, PricesAre, ConfigShape
<1>4. SkippedAre' /\ PassedAre'
  BY <1>1 DEF IInv, SkippedAre, PassedAre
<1>5. RowIs' /\ KeysAre' /\ StuckRowsHaveACause'
  BY DEF IInv, RowIs, KeysAre, StuckRowsHaveACause
<1> QED
  BY <1>2, <1>3, <1>4, <1>5 DEF IInv

LEMMA LoadCasesIInv ==
  ASSUME IInv, LoadCases
  PROVE  IInv'
<1>1. pc = "cases" /\ row # "running"
  BY DEF LoadCases, IInv, RowIs
<1>2. CASE Refuse
  BY <1>1, <1>2, RefuseIInv
<1>3. CASE ~Refuse
  BY <1>1, <1>3, MoveOnIInv DEF LoadCases
<1> QED
  BY <1>2, <1>3

LEMMA PreflightIInv ==
  ASSUME IInv, Preflight
  PROVE  IInv'
<1> DEFINE enabled == ToSet(EnabledModels(config))
<1>1. pc = "preflight" /\ row # "running"
  BY DEF Preflight, IInv, RowIs
<1>2. CASE Refuse
  BY <1>1, <1>2, RefuseIInv
<1>3. CASE ~Refuse
  <2>1. /\ \A spec \in enabled : Checked(spec) => Connects(spec, ProviderFor(config, spec))
        /\ skipped' = {spec \in enabled : Missing(spec) \/ Unwell(spec)}
        /\ pc' = "report"
        /\ UNCHANGED <<world, environ, config, overrides, row, keys>>
    BY <1>3 DEF Preflight, Missing, Unwell
  <2>2. /\ \A name : ValueOf(name)' = ValueOf(name)
        /\ \A spec : Missing(spec)' = Missing(spec) /\ Checked(spec)' = Checked(spec)
                     /\ Unwell(spec)' = Unwell(spec)
        /\ \A spec, profile : Connects(spec, profile)' = Connects(spec, profile)
    BY <2>1, SameAnswers
  <2>3. EnvironIs' /\ ConfigIs' /\ PricesAre'
    BY <1>1, <2>1, <2>2 DEF IInv, EnvironIs, ConfigIs, PricesAre, ConfigShape
  <2>4. SkippedAre'
    BY <2>1, <2>2 DEF SkippedAre
  <2>5. PassedAre'
    BY <2>1, <2>2 DEF PassedAre
  <2>6. RowIs' /\ KeysAre' /\ StuckRowsHaveACause'
    BY <1>1, <2>1 DEF RowIs, KeysAre, StuckRowsHaveACause
  <2> QED
    BY <2>1, <2>3, <2>4, <2>5, <2>6 DEF IInv
<1> QED
  BY <1>2, <1>3

LEMMA ReportIInv ==
  ASSUME IInv, Report
  PROVE  IInv'
  BY MoveOnIInv DEF Report

LEMMA StartRunIInv ==
  ASSUME IInv, StartRun
  PROVE  IInv'
<1>1. pc = "report" /\ row # "running"
  BY DEF StartRun, IInv, RowIs
<1>2. CASE Refuse
  BY <1>1, <1>2, RefuseIInv
<1>3. CASE ~Refuse
  BY <1>1, <1>3, MoveOnIInv DEF StartRun
<1> QED
  BY <1>2, <1>3

\* The models a run calls are of the config's, are switched on, and were not
\* left out.
LEMMA RunnableIs ==
  ASSUME ConfigShape(config)
  PROVE  /\ \A spec \in ToSet(Runnable) : /\ spec \in ToSet(config.models)
                                          /\ spec \in ToSet(EnabledModels(config)) \ skipped
         /\ \A i \in DOMAIN Runnable : Runnable[i] \in ToSet(Runnable)
<1> DEFINE enabled == EnabledModels(config)
           on == {spec \in ToSet(config.models) : spec.enabled}
<1>1. enabled \in Seq(ToSet(config.models) \cap on)
  <2>1. IsList(config.models)
    BY DEF ConfigShape, Priced
  <2>2. Kept(config.models, on) \in Seq(ToSet(config.models) \cap on)
    <3> HIDE DEF on
    <3> QED
      BY <2>1, KeptType
  <2> QED
    BY <2>2 DEF EnabledModels
<1>2. IsList(enabled) /\ ToSet(enabled) \subseteq ToSet(config.models)
  <2> DEFINE S == ToSet(config.models) \cap on
  <2>1. enabled \in Seq(S) /\ S \subseteq ToSet(config.models)
    BY <1>1
  <2> HIDE DEF S, enabled
  <2>2. IsList(enabled) /\ ToSet(enabled) \subseteq S
    BY <2>1, ListElements
  <2> QED
    BY <2>1, <2>2
<1> DEFINE S == ToSet(enabled) \cap (ToSet(enabled) \ skipped)
<1>3. Runnable \in Seq(S)
  BY <1>2, KeptType DEF Runnable
<1> HIDE DEF S
<1>4. ToSet(Runnable) \subseteq S /\ \A i \in DOMAIN Runnable : Runnable[i] \in ToSet(Runnable)
  BY <1>3, ListElements
<1> QED
  BY <1>2, <1>4 DEF S

\* What preflight lets pass that cannot be connected, and why.
LEMMA CauseOf ==
  ASSUME NEW spec, ~Missing(spec), Checked(spec) => Connects(spec, ProviderFor(config, spec)),
         ~Connects(spec, ProviderFor(config, spec))
  PROVE  LET profile == ProviderFor(config, spec)
         IN \/ ResolveProvider(spec, profile) = None
            \/ spec.params # "taken"
            \/ profile # None /\ profile.ref # None /\ ResolveSecret(profile.ref) = None
            \/ ResolveProvider(spec, None) = "mock" /\ spec.env # None
                  /\ Environ(spec.env) = None
<1> DEFINE profile == ProviderFor(config, spec)
           provider == ResolveProvider(spec, None)
<1> SUFFICES ASSUME ResolveProvider(spec, profile) # None, spec.params = "taken",
                    ~(profile # None /\ profile.ref # None /\ ResolveSecret(profile.ref) = None)
             PROVE  provider = "mock" /\ spec.env # None /\ Environ(spec.env) = None
  OBVIOUS
<1>1. profile # None => spec.provider # None
  BY DEF ProviderFor
<1>2. provider # None
  <2>1. CASE profile = None
    BY <2>1
  <2>2. CASE profile # None
    BY <1>1, <2>2, NamedIsResolved
  <2> QED
    BY <2>1, <2>2
<1>0. /\ ~Connects(spec, profile) /\ ResolveProvider(spec, profile) # None
      /\ spec.params = "taken"
  OBVIOUS
<1> HIDE DEF profile, provider
<1>3. ApiKey(spec, profile) = None /\ (spec.env # None \/ (profile # None /\ profile.ref # None))
  BY <1>0 DEF Connects
<1>4. spec.env # None /\ Environ(spec.env) = None
  BY <1>3 DEF ApiKey
<1>5. provider \notin {"local", "callable"}
  BY DEF Checked, RequiresApiKey, profile, provider
<1>6. CASE provider # "mock"
  <2>1. RequiresApiKey(spec) = spec.env
    BY <1>2, <1>4, <1>5, <1>6, FirstOfTwo DEF RequiresApiKey, provider
  <2> QED
    BY <1>4, <2>1 DEF Missing
<1> QED
  BY <1>4, <1>6

LEMMA ConnectIInv ==
  ASSUME IInv, Connect
  PROVE  IInv'
<1>1. pc = "connect" /\ UNCHANGED <<world, environ, config, overrides, skipped, row>>
  BY DEF Connect, Refuse
<1>2. ConfigShape(config) /\ PassedAre
  BY <1>1 DEF IInv, ConfigIs
<1>3. /\ \A name : ValueOf(name)' = ValueOf(name) /\ Environ(name)' = Environ(name)
      /\ \A spec : Missing(spec)' = Missing(spec) /\ Checked(spec)' = Checked(spec)
                   /\ Unwell(spec)' = Unwell(spec)
      /\ \A spec, profile : /\ ApiKey(spec, profile)' = ApiKey(spec, profile)
                            /\ Connects(spec, profile)' = Connects(spec, profile)
      /\ \A ref : ResolveSecret(ref)' = ResolveSecret(ref)
  BY <1>1, SameAnswers
<1>4. Runnable' = Runnable
  BY <1>1 DEF Runnable
<1>5. pc' \in {"refused", "ready"}
  BY DEF Connect, Refuse
<1>6. EnvironIs' /\ ConfigIs' /\ PricesAre'
  BY <1>1, <1>3, <1>5 DEF IInv, EnvironIs, ConfigIs, PricesAre, ConfigShape
<1>7. SkippedAre' /\ PassedAre' /\ RowIs'
  BY <1>1, <1>3, <1>5 DEF IInv, SkippedAre, PassedAre, RowIs
<1>8. KeysAre'
  <2>1. pc' = "ready" =>
          keys' = [i \in DOMAIN Runnable |->
                     ApiKey(Runnable[i], ProviderFor(config, Runnable[i]))]
    BY DEF Connect, Refuse
  <2> QED
    BY <1>1, <1>3, <1>4, <2>1 DEF KeysAre
<1>9. StuckRowsHaveACause'
  <2>1. SUFFICES ASSUME pc' = "refused" PROVE StuckRowsHaveACause'
    BY DEF StuckRowsHaveACause
  <2>2. PICK spec \in ToSet(Runnable) : ~Connects(spec, ProviderFor(config, spec))
    BY <2>1 DEF Connect
  <2>3. spec \in ToSet(EnabledModels(config)) \ skipped
    BY <1>2, RunnableIs
  <2>4. ~Missing(spec) /\ (Checked(spec) => Connects(spec, ProviderFor(config, spec)))
    BY <1>1, <1>2, <2>3 DEF PassedAre
  <2> DEFINE profile == ProviderFor(config, spec)
  <2>5. \/ ResolveProvider(spec, profile) = None
        \/ spec.params # "taken"
        \/ profile # None /\ profile.ref # None /\ ResolveSecret(profile.ref) = None
        \/ ResolveProvider(spec, None) = "mock" /\ spec.env # None
              /\ Environ(spec.env) = None
    BY <2>2, <2>4, CauseOf
  <2> QED
    BY <1>1, <1>3, <1>4, <2>5 DEF StuckRowsHaveACause
<1> QED
  BY <1>1, <1>6, <1>7, <1>8, <1>9 DEF IInv

\* Every state of a preparation has what its step leaves for the next.
THEOREM Invariance == Spec => []IInv
<1>1. Init => IInv
  BY InitIInv
<1>2. IInv /\ [Next]_vars => IInv'
  BY StutterIInv, LoadEnvIInv, LoadConfigIInv, CollaborateIInv, LoadCasesIInv, PreflightIInv,
     ReportIInv, StartRunIInv, ConnectIInv DEF Next
<1> QED
  BY <1>1, <1>2, PTL DEF Spec

-----------------------------------------------------------------------------
(* What it gives *)

\* After the .env files, a variable has the value of the account it stands for.
LEMMA AccountIs ==
  ASSUME NEW name \in DOMAIN world.exported, pc # "env", EnvironIs
  PROVE  Environ(name) = Account(name)
<1>1. environ[name] = ValueOf(name)
  BY DEF EnvironIs
<1>2. FirstOf(<<world.exported[name], LastSaid(world.projectEnv, name),
                LastSaid(world.userEnv, name)>>) = ValueOf(name)
  BY FirstOfThree DEF ValueOf
<1> QED
  BY <1>1, <1>2 DEF Environ, Account

\* At the start of a run the keys are those of the accounts.
LEMMA IInvKeys ==
  ASSUME IInv
  PROVE  TheRightKeyIsUsed
<1> SUFFICES ASSUME pc = "ready", NEW i \in DOMAIN Runnable
             PROVE  LET spec == Runnable[i]
                        profile == ProviderFor(config, spec)
                        meant == IF profile # None /\ profile.ref # None
                                 THEN IF profile.ref.scheme = "env" THEN Account(profile.ref.body)
                                      ELSE ResolveSecret(profile.ref)
                                 ELSE IF spec.env # None THEN Account(spec.env)
                                 ELSE IF VendorKey(ResolveProvider(spec, profile)) = None THEN None
                                 ELSE Account(VendorKey(ResolveProvider(spec, profile)))
                    IN keys[i] = meant
  BY DEF TheRightKeyIsUsed
<1> DEFINE spec == Runnable[i]
           profile == ProviderFor(config, spec)
           vendor == VendorKey(ResolveProvider(spec, profile))
<1>1. keys[i] = ApiKey(spec, profile)
  BY DEF IInv, KeysAre
<1>2. ConfigShape(config) /\ spec \in ToSet(config.models)
  <2>1. ConfigShape(config)
    BY DEF IInv, ConfigIs
  <2> QED
    BY <2>1, RunnableIs
<1>3. \A name \in DOMAIN world.exported : Environ(name) = Account(name)
  BY AccountIs DEF IInv
<1>4. spec.env # None => Environ(spec.env) = Account(spec.env)
  BY <1>2, <1>3 DEF ConfigShape
<1>5. vendor # None => Environ(vendor) = Account(vendor)
  <2>1. vendor \in {"ANTHROPIC_API_KEY", "OPENAI_API_KEY", "GEMINI_API_KEY", None}
    BY DEF VendorKey
  <2>2. {"ANTHROPIC_API_KEY", "OPENAI_API_KEY", "GEMINI_API_KEY"} \subseteq DOMAIN world.exported
    BY PreparationAssumption DEF IInv
  <2> QED
    BY <1>3, <2>1, <2>2
<1>6. profile # None /\ profile.ref # None /\ profile.ref.scheme = "env"
      => Environ(profile.ref.body) = Account(profile.ref.body)
  <2>1. profile # None => profile \in ToSet(config.providers)
    <3> DEFINE found == {j \in DOMAIN config.providers : config.providers[j].id = spec.provider}
    <3>1. PICK n \in Nat : DOMAIN config.providers = 1..n
      BY <1>2 DEF ConfigShape, IsList
    <3>2. found # {} => Min(found) \in found
      <4>1. found \in SUBSET (1..n)
        BY <3>1
      <4> HIDE DEF found
      <4> QED
        BY <4>1, MinIn
    <3> QED
      BY <3>2 DEF ProviderFor, ToSet
  <2> HIDE DEF profile
  <2> QED
    BY <1>2, <1>3, <2>1 DEF ConfigShape, IsProfile
<1>7. profile # None /\ profile.ref # None /\ profile.ref.scheme = "env"
      => ResolveSecret(profile.ref) = Environ(profile.ref.body)
  BY DEF ResolveSecret
<1> HIDE DEF spec, profile, vendor
<1>8. ApiKey(spec, profile)
        = IF profile # None /\ profile.ref # None THEN ResolveSecret(profile.ref)
          ELSE IF spec.env # None THEN Environ(spec.env)
          ELSE IF vendor = None THEN None ELSE Environ(vendor)
  BY DEF ApiKey, vendor
<1>9. keys[i] = IF profile # None /\ profile.ref # None
                THEN IF profile.ref.scheme = "env" THEN Account(profile.ref.body)
                     ELSE ResolveSecret(profile.ref)
                ELSE IF spec.env # None THEN Account(spec.env)
                ELSE IF vendor = None THEN None ELSE Account(vendor)
  BY <1>1, <1>4, <1>5, <1>6, <1>7, <1>8
<1> QED
  BY <1>9 DEF spec, profile, vendor

\* A run that starts calls each model with the account its user meant: the
\* profile's, the entry's or the vendor's, and of each the exported value
\* before the project's and the project's before the user's.
THEOREM RunsUseTheKeysThatWereMeant == Spec => []TheRightKeyIsUsed
  BY Invariance, IInvKeys, PTL

LEMMA IInvSkipped ==
  ASSUME IInv
  PROVE  SkippedModelsCouldNotRun
<1> SUFFICES ASSUME NEW spec \in skipped, ProviderFor(config, spec) = None, ~HasLogin(spec)
             PROVE  LET provider == ResolveProvider(spec, None)
                    IN \/ ~Connects(spec, None)
                       \/ provider \in {"local", "callable"} /\ spec.key \notin world.healthy
                       \/ /\ VendorKey(provider) # None
                          /\ ApiKey(spec, None) = None /\ provider \notin world.logins
  BY DEF SkippedModelsCouldNotRun
<1> DEFINE provider == ResolveProvider(spec, None)
<1>1. Missing(spec) \/ Unwell(spec)
  BY DEF IInv, SkippedAre
<1>2. CASE Unwell(spec)
  BY <1>2 DEF Unwell, Checked
<1>3. CASE Missing(spec)
  <2> DEFINE vendor == VendorKey(provider)
  <2>0. spec.env = None => provider \notin world.logins
    BY DEF HasLogin
  <2>1. RequiresApiKey(spec) = IF spec.env # None THEN spec.env ELSE vendor
    BY <1>3, FirstOfTwo DEF Missing, RequiresApiKey
  <2>2. RequiresApiKey(spec) # None /\ Environ(RequiresApiKey(spec)) = None
    BY <1>3 DEF Missing
  <2> HIDE DEF provider, vendor
  <2>3. ApiKey(spec, None) = IF spec.env # None THEN Environ(spec.env)
                             ELSE IF vendor = None THEN None ELSE Environ(vendor)
    BY DEF ApiKey, vendor, provider
  <2>4. CASE spec.env # None
    BY <2>1, <2>2, <2>3, <2>4 DEF Connects
  <2>5. CASE spec.env = None
    BY <2>0, <2>1, <2>2, <2>3, <2>5 DEF vendor, provider
  <2> QED
    BY <2>4, <2>5
<1> QED
  BY <1>1, <1>2, <1>3

\* Of the models that select no profile, and whose vendor's SDK has no credentials
\* of its own for them, preflight leaves out none that could have been called.
THEOREM OnlyHopelessModelsAreSkipped == Spec => []SkippedModelsCouldNotRun
  BY Invariance, IInvSkipped, PTL

\* A row that says "running" though the command was refused has one of the
\* causes that nothing before the row looks for.
THEOREM RefusedRowsAreExplained == Spec => []StuckRowsHaveACause
<1>1. IInv => StuckRowsHaveACause
  BY DEF IInv
<1> QED
  BY <1>1, Invariance, PTL

LEMMA IInvCards ==
  ASSUME IInv
  PROVE  InlineCardsWin
<1> SUFFICES ASSUME pc \in {"reported", "ready"}, NEW i \in DOMAIN config.models,
                    NEW field \in {"input", "output"},
                    Says(config.models, i, config.models[i].model, field),
                    ~(\E j \in DOMAIN config.models :
                         j > i /\ Says(config.models, j, config.models[i].model, field))
             PROVE  GetCard(overrides, config.models[i])[field] = config.models[i].card[field]
  BY DEF InlineCardsWin, Says, NoEntry
<1> DEFINE models == config.models
           spec == models[i]
<1>1. /\ overrides \in [DOMAIN Looser -> Cards] /\ CardsKept(overrides, models, Len(models))
      /\ Priced(models)
  BY DEF IInv, PricesAre, ConfigIs, ConfigShape
<1>2. DOMAIN models = 1..Len(models) /\ spec.model \in DOMAIN Looser
  BY <1>1 DEF Priced, IsList
<1> HIDE DEF models
<1>3. overrides[spec.model][field] = spec.card[field]
  BY <1>1, <1>2 DEF CardsKept, models
<1>4. spec.card[field] # None
  BY DEF Says, models
<1>5. GetCard(overrides, spec)[field] = overrides[spec.model][field]
  BY <1>1, <1>2, <1>3, <1>4, BookIsAsked
<1> QED
  BY <1>3, <1>5 DEF models

\* What a model's own entry says of its prices is what its calls are priced
\* at, whatever the catalog, the pricing file and the models before it say.
THEOREM OwnPricesWin == Spec => []InlineCardsWin
  BY Invariance, IInvCards, PTL
=============================================================================
