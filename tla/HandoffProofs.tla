---------------------------- MODULE HandoffProofs ----------------------------
(* Proofs about the connection hand-off, for any number of workers and of   *)
(* connections.                                                            *)
EXTENDS Handoff, FiniteSetTheorems, TLAPS

\* What the channels hold, and which connections are not assigned yet.
Channels ==
    /\ queue \in [Workers -> Seq(Conns)]
    /\ \A c \in Conns : conn[c] = "backlog" <=> owner[c] = N

\* While every worker is there, the shares are those of a deal that has gone
\* round b times and is now at Target.
Dealt ==
    (\A w \in Workers : state[w] # "down")
        => \E b \in Nat : \A w \in Workers :
              Given(w) = IF w < Target THEN b + 1 ELSE b

\* The inductive invariant.
IInv == TypeOK /\ Channels /\ Dealt

-----------------------------------------------------------------------------
(* The round-robin counter modulo the number of workers.                   *)

\* A multiple of N that is smaller than N in size is zero.
LEMMA SmallMultiple ==
    ASSUME NEW d \in Int, -N < N * d, N * d < N
    PROVE  d = 0
<1>1. d >= 1 => N * d >= N
  BY HandoffAssumption
<1>2. d <= -1 => N * d <= -N
  BY HandoffAssumption
<1> QED
  BY <1>1, <1>2, HandoffAssumption

\* The remainder is the only one in range.
LEMMA ModUnique ==
    ASSUME NEW n \in Nat, NEW q \in Int, NEW r \in 0 .. N - 1, n = N * q + r
    PROVE  n % N = r
<1> DEFINE k == n \div N
           m == n % N
<1>1. k \in Int /\ m \in 0 .. N - 1 /\ n = N * k + m
  BY HandoffAssumption
<1> HIDE DEF k, m
<1>2. N * (q - k) = m - r
  BY <1>1, HandoffAssumption
<1>3. q - k = 0
  <2>1. q - k \in Int
    BY <1>1
  <2>2. -N < m - r /\ m - r < N
    BY <1>1, HandoffAssumption
  <2> QED
    BY <2>1, <2>2, <1>2, SmallMultiple
<1>4. m = r
  BY <1>1, <1>2, <1>3, HandoffAssumption
<1> QED
  BY <1>4 DEF m

\* One fetch_add passes the turn to the next worker, and from the last one to
\* the first.
LEMMA TurnPasses ==
    ASSUME NEW n \in Nat
    PROVE  (n + 1) % N = IF (n % N) + 1 = N THEN 0 ELSE (n % N) + 1
<1> DEFINE q == n \div N
           r == n % N
<1>1. q \in Int /\ r \in 0 .. N - 1 /\ n = N * q + r
  BY HandoffAssumption
<1> HIDE DEF q, r
<1>2. CASE r + 1 = N
  <2>1. n + 1 = N * (q + 1) + 0
    BY <1>1, <1>2, HandoffAssumption
  <2>2. (n + 1) % N = 0
    BY <2>1, <1>1, <1>2, HandoffAssumption, ModUnique
  <2> QED
    BY <2>2, <1>2 DEF r
<1>3. CASE r + 1 # N
  <2>1. n + 1 = N * q + (r + 1) /\ r + 1 \in 0 .. N - 1
    BY <1>1, <1>3, HandoffAssumption
  <2>2. (n + 1) % N = r + 1
    BY <2>1, <1>1, HandoffAssumption, ModUnique
  <2> QED
    BY <2>2, <1>3 DEF r
<1> QED
  BY <1>2, <1>3

\* The turn is a worker's.
LEMMA TargetIsWorker == TypeOK => Target \in Workers
BY HandoffAssumption DEF TypeOK, Target, Workers

-----------------------------------------------------------------------------
(* Shares.                                                                 *)

\* A share is a number.
LEMMA GivenNat == \A w \in Workers : Given(w) \in Nat
<1> TAKE w \in Workers
<1>1. {c \in Conns : owner[c] = w} \subseteq Conns
  OBVIOUS
<1> QED
  BY <1>1, HandoffAssumption, FS_Subset, FS_CardinalityType DEF Given

\* Assigning a connection of the backlog adds one to one share.
LEMMA GivenStep ==
    ASSUME TypeOK, NEW c \in Conns, owner[c] = N, NEW t \in Workers, Assign(c, t)
    PROVE  /\ Given(t)' = Given(t) + 1
           /\ \A v \in Workers \ {t} : Given(v)' = Given(v)
<1> DEFINE S(v) == {d \in Conns : owner[d] = v}
           T(v) == {d \in Conns : owner'[d] = v}
<1>1. /\ owner' \in [Conns -> 0 .. N] /\ owner'[c] = t
      /\ \A d \in Conns \ {c} : owner'[d] = owner[d]
  BY HandoffAssumption DEF TypeOK, Assign, Workers
<1>2. N \notin Workers
  BY HandoffAssumption DEF Workers
<1>3. T(t) = S(t) \cup {c}
  BY <1>1
<1>4. c \notin S(t)
  BY <1>2
<1>5. IsFiniteSet(S(t))
  BY HandoffAssumption, FS_Subset
<1>6. Cardinality(T(t)) = Cardinality(S(t)) + 1
  <2> HIDE DEF S, T
  <2> QED
    BY <1>3, <1>4, <1>5, FS_AddElement, Zenon
<1>7. \A v \in Workers \ {t} : T(v) = S(v)
  BY <1>1, <1>2
<1> QED
  BY <1>6, <1>7 DEF Given

-----------------------------------------------------------------------------
(* The steps.                                                              *)

\* Init establishes the invariant.
LEMMA InitInv == Init => IInv
<1> SUFFICES ASSUME Init PROVE IInv
  OBVIOUS
<1> USE HandoffAssumption
<1>1. TypeOK
  BY DEF Init, TypeOK, Workers
<1>2. Channels
  BY DEF Init, Channels, Workers
<1>3. Dealt
  <2>1. Target = 0
    BY ModUnique, 0 = N * 0 + 0 DEF Init, Target
  <2>2. \A w \in Workers : {c \in Conns : owner[c] = w} = {}
    BY DEF Init, Workers
  <2>3. \A w \in Workers : Given(w) = 0
    BY <2>2, FS_EmptySet DEF Given
  <2> QED
    BY <2>1, <2>3 DEF Dealt, Workers
<1> QED
  BY <1>1, <1>2, <1>3 DEF IInv

\* A connection sent to worker t joins its channel.
LEMMA SendKeeps ==
    ASSUME TypeOK, Channels, NEW c \in Conns, conn[c] = "backlog",
           NEW t \in Workers, Assign(c, t), next' \in Nat, state' = state,
           queue' = [queue EXCEPT ![t] = Append(@, c)],
           conn' = [conn EXCEPT ![c] = "transit"]
    PROVE  TypeOK' /\ Channels'
<1> USE HandoffAssumption DEF Workers
<1>1. /\ owner' \in [Conns -> 0 .. N] /\ owner'[c] = t
      /\ \A d \in Conns \ {c} : owner'[d] = owner[d]
  BY DEF TypeOK, Assign
<1>2. /\ conn' \in [Conns -> {"backlog", "transit", "served", "refused", "closed"}]
      /\ conn'[c] = "transit"
      /\ \A d \in Conns \ {c} : conn'[d] = conn[d]
  BY DEF TypeOK
<1>3. /\ queue' \in [Workers -> Seq(Conns)]
      /\ queue'[t] = Append(queue[t], c)
      /\ \A v \in Workers \ {t} : queue'[v] = queue[v]
  BY DEF Channels
<1>4. \A v \in Workers : \A i \in DOMAIN queue[v] : queue[v][i] # c
  BY DEF TypeOK
<1>5. \A v \in Workers : queue[v] \in Seq(Conns)
  BY DEF Channels
<1>6. /\ Len(queue'[t]) = Len(queue[t]) + 1
      /\ queue'[t][Len(queue[t]) + 1] = c
      /\ \A i \in 1 .. Len(queue[t]) : queue'[t][i] = queue[t][i]
  BY <1>3, <1>5
<1>7. ASSUME NEW v \in Workers, NEW i \in DOMAIN queue'[v]
      PROVE  /\ queue'[v][i] \in Conns
             /\ conn'[queue'[v][i]] = "transit" /\ owner'[queue'[v][i]] = v
             /\ \A j \in DOMAIN queue'[v] : queue'[v][i] = queue'[v][j] => i = j
  <2>1. CASE v # t
    BY <2>1, <1>1, <1>2, <1>3, <1>4 DEF TypeOK
  <2>2. CASE v = t /\ i = Len(queue[t]) + 1
    BY <2>2, <1>1, <1>2, <1>3, <1>4, <1>5, <1>6
  <2>3. CASE v = t /\ i # Len(queue[t]) + 1
    <3>1. i \in DOMAIN queue[t] /\ queue'[t][i] = queue[t][i]
      BY <2>3, <1>3, <1>5, <1>6
    <3>2. /\ queue[t][i] \in Conns /\ queue[t][i] # c
          /\ conn[queue[t][i]] = "transit" /\ owner[queue[t][i]] = t
          /\ \A j \in DOMAIN queue[t] : queue[t][i] = queue[t][j] => i = j
      BY <3>1, <1>4 DEF TypeOK
    <3> QED
      BY <2>3, <3>1, <3>2, <1>1, <1>2, <1>3, <1>5, <1>6, SMTT(30)
  <2> QED
    BY <2>1, <2>2, <2>3
<1>8. ASSUME NEW d \in Conns, conn'[d] = "transit"
      PROVE  \E i \in DOMAIN queue'[owner'[d]] : queue'[owner'[d]][i] = d
  <2>1. CASE d = c
    <3>1. Len(queue[t]) + 1 \in DOMAIN queue'[t]
      BY <1>3, <1>5, <1>6
    <3> QED
      BY <3>1, <2>1, <1>1, <1>6
  <2>2. CASE d # c
    <3>1. conn[d] = "transit" /\ owner'[d] = owner[d] /\ owner[d] \in Workers
      BY <2>2, <1>1, <1>2, <1>8 DEF TypeOK, Channels
    <3>2. PICK i \in DOMAIN queue[owner[d]] : queue[owner[d]][i] = d
      BY <3>1 DEF TypeOK
    <3>3. i \in DOMAIN queue'[owner[d]] /\ queue'[owner[d]][i] = d
      <4>1. CASE owner[d] = t
        BY <4>1, <3>1, <3>2, <1>3, <1>5, <1>6
      <4>2. CASE owner[d] # t
        BY <4>2, <3>1, <3>2, <1>3
      <4> QED
        BY <4>1, <4>2
    <3> QED
      BY <3>1, <3>3
  <2> QED
    BY <2>1, <2>2
<1>9. TypeOK'
  BY <1>1, <1>2, <1>7, <1>8, Zenon DEF TypeOK
<1>10. ASSUME NEW d \in Conns PROVE conn'[d] = "backlog" <=> owner'[d] = N
  <2>1. t # N
    OBVIOUS
  <2>2. CASE d = c
    BY <2>1, <2>2, <1>1, <1>2
  <2>3. CASE d # c
    BY <2>3, <1>1, <1>2, ZenonT(30) DEF Channels
  <2> QED
    BY <2>2, <2>3
<1>11. Channels'
  BY <1>3, <1>10 DEF Channels
<1> QED
  BY <1>9, <1>11

\* The head of worker w's channel leaves it, served or refused.
LEMMA AdoptKeeps ==
    ASSUME TypeOK, Channels, NEW w \in Workers, queue[w] # <<>>,
           NEW how \in {"served", "refused"},
           next' = next, state' = state, owner' = owner,
           queue' = [queue EXCEPT ![w] = Tail(@)],
           conn' = [conn EXCEPT ![Head(queue[w])] = how]
    PROVE  TypeOK' /\ Channels'
<1> USE HandoffAssumption DEF Workers
<1> DEFINE c == Head(queue[w])
<1>1. queue[w] \in Seq(Conns) /\ 1 \in DOMAIN queue[w] /\ c = queue[w][1]
  BY DEF Channels
<1>2. c \in Conns /\ conn[c] = "transit" /\ owner[c] = w
  BY <1>1 DEF TypeOK
<1> HIDE DEF c
<1>3. /\ conn' \in [Conns -> {"backlog", "transit", "served", "refused", "closed"}]
      /\ conn'[c] = how
      /\ \A d \in Conns \ {c} : conn'[d] = conn[d]
  BY <1>2 DEF TypeOK, c
<1>4. /\ queue' \in [Workers -> Seq(Conns)]
      /\ queue'[w] = Tail(queue[w])
      /\ \A v \in Workers \ {w} : queue'[v] = queue[v]
  BY <1>1 DEF Channels
<1>5. /\ Len(queue'[w]) = Len(queue[w]) - 1
      /\ \A i \in 1 .. Len(queue[w]) - 1 : queue'[w][i] = queue[w][i + 1]
  BY <1>1, <1>4
<1>6. ASSUME NEW v \in Workers, NEW i \in DOMAIN queue'[v]
      PROVE  /\ queue'[v][i] \in Conns
             /\ conn'[queue'[v][i]] = "transit" /\ owner'[queue'[v][i]] = v
             /\ \A j \in DOMAIN queue'[v] : queue'[v][i] = queue'[v][j] => i = j
  <2>1. CASE v # w
    BY <2>1, <1>2, <1>3, <1>4, SMTT(30) DEF TypeOK
  <2>2. CASE v = w
    <3>1. /\ i \in 1 .. Len(queue[w]) - 1 /\ i + 1 \in DOMAIN queue[w]
          /\ queue'[w][i] = queue[w][i + 1]
      BY <2>2, <1>1, <1>4, <1>5
    <3>2. /\ queue[w][i + 1] \in Conns
          /\ conn[queue[w][i + 1]] = "transit" /\ owner[queue[w][i + 1]] = w
          /\ \A j \in DOMAIN queue[w] : queue[w][i + 1] = queue[w][j] => i + 1 = j
      BY <3>1 DEF TypeOK
    <3>3. queue[w][i + 1] # c
      BY <3>1, <3>2, <1>1
    <3>4. \A j \in DOMAIN queue'[w] : /\ j + 1 \in DOMAIN queue[w]
                                     /\ queue'[w][j] = queue[w][j + 1]
      BY <1>1, <1>4, <1>5
    <3>5. \A j \in DOMAIN queue'[w] : queue'[w][i] = queue'[w][j] => i = j
      BY <3>1, <3>2, <3>4, <1>1, <1>4
    <3> QED
      BY <2>2, <3>1, <3>2, <3>3, <3>5, <1>3
  <2> QED
    BY <2>1, <2>2
<1>7. ASSUME NEW d \in Conns, conn'[d] = "transit"
      PROVE  \E i \in DOMAIN queue'[owner'[d]] : queue'[owner'[d]][i] = d
  <2>1. d # c /\ conn[d] = "transit" /\ owner[d] \in Workers
    BY <1>3, <1>7, SMTT(30) DEF TypeOK, Channels
  <2>2. PICK i \in DOMAIN queue[owner[d]] : queue[owner[d]][i] = d
    BY <2>1, Zenon DEF TypeOK
  <2>3. CASE owner[d] # w
    BY <2>1, <2>2, <2>3, <1>4
  <2>4. CASE owner[d] = w
    <3>1. i # 1 /\ i \in 1 .. Len(queue[w])
      BY <2>1, <2>2, <2>4, <1>1
    <3>2. i - 1 \in 1 .. Len(queue[w]) - 1 /\ (i - 1) + 1 = i
      BY <3>1, <1>1, SMTT(30)
    <3>3. i - 1 \in DOMAIN queue'[w] /\ queue'[w][i - 1] = d
      BY <3>1, <3>2, <2>2, <2>4, <1>1, <1>4, <1>5
    <3> QED
      BY <3>3, <2>4
  <2> QED
    BY <2>3, <2>4
<1>8. TypeOK'
  BY <1>3, <1>6, <1>7 DEF TypeOK
<1>9. Channels'
  BY <1>2, <1>3, <1>4 DEF Channels
<1> QED
  BY <1>8, <1>9

\* A connection of the backlog is decided on the spot, by worker w.
LEMMA KeepKeeps ==
    ASSUME TypeOK, Channels, NEW c \in Conns, conn[c] = "backlog",
           NEW w \in Workers, Assign(c, w), next' \in Nat, state' = state,
           NEW how \in {"served", "refused"}, queue' = queue,
           conn' = [conn EXCEPT ![c] = how]
    PROVE  TypeOK' /\ Channels'
<1> USE HandoffAssumption DEF Workers
<1>1. /\ owner' \in [Conns -> 0 .. N] /\ owner'[c] = w
      /\ \A d \in Conns \ {c} : owner'[d] = owner[d]
  BY DEF TypeOK, Assign
<1>2. /\ conn' \in [Conns -> {"backlog", "transit", "served", "refused", "closed"}]
      /\ conn'[c] = how
      /\ \A d \in Conns \ {c} : conn'[d] = conn[d]
  BY DEF TypeOK
<1>3. \A v \in Workers : \A i \in DOMAIN queue[v] : queue[v][i] # c
  BY DEF TypeOK
<1>4. TypeOK'
  BY <1>1, <1>2, <1>3 DEF TypeOK
<1>5. Channels'
  BY <1>1, <1>2 DEF Channels
<1> QED
  BY <1>4, <1>5

\* A worker ends: what it serves and what its channel holds is closed, and so
\* are the connections of closing, which it has just accepted.
LEMMA DownKeeps ==
    ASSUME TypeOK, Channels, NEW w \in Workers, NEW closing \in SUBSET Conns,
           \A c \in closing : conn[c] = "backlog",
           owner' = [c \in Conns |-> IF c \in closing THEN w ELSE owner[c]],
           next' \in Nat, Down(w, closing)
    PROVE  TypeOK' /\ Channels'
<1> USE HandoffAssumption DEF Workers
<1>1. /\ owner' \in [Conns -> 0 .. N] /\ \A c \in closing : owner'[c] = w
      /\ \A d \in Conns \ closing : owner'[d] = owner[d]
  BY DEF TypeOK
<1>2. /\ conn' \in [Conns -> {"backlog", "transit", "served", "refused", "closed"}]
      /\ \A d \in Conns : \/ conn'[d] = "closed"
                          \/ conn'[d] = conn[d] /\ d \notin closing
      /\ \A d \in closing : conn'[d] = "closed"
      /\ \A d \in Conns : conn[d] = "transit" =>
            conn'[d] = IF owner[d] = w THEN "closed" ELSE "transit"
      /\ \A d \in Conns \ closing : conn[d] = "backlog" <=> conn'[d] = "backlog"
  BY DEF TypeOK, Down
<1>3. /\ queue' \in [Workers -> Seq(Conns)] /\ queue'[w] = <<>>
      /\ \A v \in Workers \ {w} : queue'[v] = queue[v]
      /\ state' \in [Workers -> {"booting", "up", "down"}]
  BY DEF Channels, Down, TypeOK
<1>4. ASSUME NEW v \in Workers, NEW i \in DOMAIN queue'[v]
      PROVE  /\ queue'[v][i] \in Conns
             /\ conn'[queue'[v][i]] = "transit" /\ owner'[queue'[v][i]] = v
             /\ \A j \in DOMAIN queue'[v] : queue'[v][i] = queue'[v][j] => i = j
  <2>0. DOMAIN <<>> = {}
    OBVIOUS
  <2>1. v # w /\ queue'[v] = queue[v] /\ i \in DOMAIN queue[v]
    BY <2>0, <1>3, <1>4, Zenon
  <2>2. /\ queue[v][i] \in Conns
        /\ conn[queue[v][i]] = "transit" /\ owner[queue[v][i]] = v
        /\ \A j \in DOMAIN queue[v] : queue[v][i] = queue[v][j] => i = j
    BY <2>1 DEF TypeOK
  <2>3. queue[v][i] \notin closing
    BY <2>2
  <2> QED
    BY <2>1, <2>2, <2>3, <1>1, <1>2
<1>5. ASSUME NEW d \in Conns, conn'[d] = "transit"
      PROVE  \E i \in DOMAIN queue'[owner'[d]] : queue'[owner'[d]][i] = d
  <2>1. conn[d] = "transit" /\ d \notin closing /\ owner[d] # w
    BY <1>2, <1>5
  <2>2. owner'[d] = owner[d] /\ owner[d] \in Workers
    BY <2>1, <1>1 DEF TypeOK, Channels
  <2>3. \E i \in DOMAIN queue[owner[d]] : queue[owner[d]][i] = d
    BY <2>1 DEF TypeOK
  <2> QED
    BY <2>1, <2>2, <2>3, <1>3, Zenon
<1>6. TypeOK'
  BY <1>1, <1>2, <1>3, <1>4, <1>5, Zenon DEF TypeOK
<1>7. \A d \in Conns : conn'[d] = "backlog" <=> owner'[d] = N
  BY <1>1, <1>2 DEF Channels
<1>8. Channels'
  BY <1>3, <1>7 DEF Channels
<1> QED
  BY <1>6, <1>8

\* Every step keeps the types and the channels.
LEMMA ChannelStep == TypeOK /\ Channels /\ [Next]_vars => TypeOK' /\ Channels'
<1> SUFFICES ASSUME TypeOK, Channels, [Next]_vars PROVE TypeOK' /\ Channels'
  OBVIOUS
<1>0. next \in Nat /\ next + 1 \in Nat /\ Target \in Workers
  BY TargetIsWorker DEF TypeOK
<1>1. ASSUME NEW w \in Workers, Boot(w) PROVE TypeOK' /\ Channels'
  BY <1>1 DEF Boot, TypeOK, Channels
<1>2. ASSUME NEW w \in Workers, NEW c \in Conns, AcceptLocal(w, c)
      PROVE  TypeOK' /\ Channels'
  BY <1>2, <1>0, KeepKeeps, Zenon DEF AcceptLocal, Tick
<1>3. ASSUME NEW w \in Workers, NEW c \in Conns, AcceptRemote(w, c)
      PROVE  TypeOK' /\ Channels'
  BY <1>3, <1>0, SendKeeps, Zenon DEF AcceptRemote, Tick
<1>4. ASSUME NEW w \in Workers, Adopt(w) PROVE TypeOK' /\ Channels'
  BY <1>4, AdoptKeeps, Zenon DEF Adopt
<1>5. ASSUME NEW w \in Workers, AdoptFails(w) PROVE TypeOK' /\ Channels'
  BY <1>5, AdoptKeeps, Zenon DEF AdoptFails
<1>6. ASSUME NEW w \in Workers, Exit(w) PROVE TypeOK' /\ Channels'
  <2>1. owner' = [c \in Conns |-> IF c \in {} THEN w ELSE owner[c]]
    BY <1>6 DEF Exit, TypeOK
  <2> QED
    BY <2>1, <1>6, <1>0, DownKeeps DEF Exit
<1>7. ASSUME NEW w \in Workers, NEW c \in Conns, AcceptFails(w, c)
      PROVE  TypeOK' /\ Channels'
  <2>1. owner' = [d \in Conns |-> IF d \in {c} THEN w ELSE owner[d]]
    BY <1>7, Zenon DEF AcceptFails, Assign, TypeOK
  <2>2. next' \in Nat /\ Down(w, {c}) /\ \A d \in {c} : conn[d] = "backlog"
    BY <1>7, <1>0 DEF AcceptFails, Tick
  <2> QED
    BY <2>1, <2>2, DownKeeps
<1>8. ASSUME NEW w \in Workers, NEW c \in Conns, ReclaimFails(w, c)
      PROVE  TypeOK' /\ Channels'
  BY <1>8, <1>0, KeepKeeps, Zenon DEF ReclaimFails, Tick
<1>9. ASSUME NEW c \in Conns, Close(c) PROVE TypeOK' /\ Channels'
  BY <1>9 DEF Close, TypeOK, Channels, Workers
<1>10. CASE UNCHANGED vars
  BY <1>10 DEF vars, TypeOK, Channels
<1> QED
  BY <1>1, <1>2, <1>3, <1>4, <1>5, <1>6, <1>7, <1>8, <1>9, <1>10, Zenon
  DEF Next, Accept

\* Dealing to the worker whose turn it is keeps the deal regular.
LEMMA DealKeeps ==
    ASSUME TypeOK, Dealt, NEW c \in Conns, owner[c] = N, Assign(c, Target),
           next' = next + 1, state' = state
    PROVE  Dealt'
<1> SUFFICES ASSUME \A w \in Workers : state[w] # "down"
             PROVE  \E b \in Nat : \A w \in Workers :
                       Given(w)' = IF w < Target' THEN b + 1 ELSE b
  BY DEF Dealt
<1>1. PICK b \in Nat : \A w \in Workers :
          Given(w) = IF w < Target THEN b + 1 ELSE b
  BY DEF Dealt
<1>2. PICK t \in Workers : t = Target
  BY TargetIsWorker
<1>3. /\ Given(t)' = Given(t) + 1
      /\ \A v \in Workers \ {t} : Given(v)' = Given(v)
  BY <1>2, GivenStep
<1>4. Target' = IF t + 1 = N THEN 0 ELSE t + 1
  BY <1>2, TurnPasses DEF Target, TypeOK
<1>5. \A w \in Workers : Given(w) = IF w < t THEN b + 1 ELSE b
  BY <1>1, <1>2
<1>6. CASE t + 1 = N
  <2>1. \A w \in Workers : Given(w)' = b + 1
    BY <1>3, <1>5, <1>6, HandoffAssumption DEF Workers
  <2>2. \A w \in Workers : Given(w)' = IF w < Target' THEN (b + 1) + 1 ELSE b + 1
    BY <2>1, <1>4, <1>6 DEF Workers
  <2> QED
    BY <2>2
<1>7. CASE t + 1 # N
  <2>1. \A w \in Workers : Given(w)' = IF w < t + 1 THEN b + 1 ELSE b
    BY <1>3, <1>5, HandoffAssumption DEF Workers
  <2> QED
    BY <2>1, <1>4, <1>7
<1> QED
  BY <1>6, <1>7

\* A step that gives nothing away, and after which every worker is there,
\* keeps the deal.
LEMMA NoDealKeeps ==
    ASSUME Dealt, owner' = owner, next' = next,
           (\A w \in Workers : state'[w] # "down")
               => \A w \in Workers : state[w] # "down"
    PROVE  Dealt'
<1>1. \A w \in Workers : Given(w)' = Given(w)
  BY DEF Given
<1>2. Target' = Target
  BY DEF Target
<1> QED
  BY <1>1, <1>2 DEF Dealt

\* Every step keeps the deal regular: a worker that is gone stays gone, and
\* while none is, the connection goes to the worker whose turn it is.
LEMMA DealStep == TypeOK /\ Channels /\ Dealt /\ [Next]_vars => Dealt'
<1> SUFFICES ASSUME TypeOK, Channels, Dealt, [Next]_vars PROVE Dealt'
  OBVIOUS
<1>0. Target \in Workers
  BY TargetIsWorker
<1>1. ASSUME NEW w \in Workers, Boot(w) PROVE Dealt'
  BY <1>1, NoDealKeeps DEF Boot, TypeOK
<1>2. ASSUME NEW w \in Workers, NEW c \in Conns, AcceptLocal(w, c) PROVE Dealt'
  <2>1. CASE Target = w
    BY <2>1, <1>2, DealKeeps DEF AcceptLocal, Tick, Channels
  <2>2. CASE state[Target] = "down"
    BY <2>2, <1>0, <1>2 DEF AcceptLocal, Dealt
  <2> QED
    BY <2>1, <2>2, <1>2 DEF AcceptLocal
<1>3. ASSUME NEW w \in Workers, NEW c \in Conns, AcceptRemote(w, c) PROVE Dealt'
  BY <1>3, DealKeeps DEF AcceptRemote, Tick, Channels
<1>4. ASSUME NEW w \in Workers, Adopt(w) \/ AdoptFails(w) PROVE Dealt'
  BY <1>4, NoDealKeeps DEF Adopt, AdoptFails
<1>5. ASSUME NEW w \in Workers, NEW closing, Down(w, closing) PROVE Dealt'
  <2>1. state'[w] = "down"
    BY <1>5 DEF Down, TypeOK
  <2> QED
    BY <2>1 DEF Dealt
<1>6. ASSUME NEW w \in Workers, Exit(w) PROVE Dealt'
  BY <1>5, <1>6 DEF Exit
<1>7. ASSUME NEW w \in Workers, NEW c \in Conns, AcceptFails(w, c) PROVE Dealt'
  BY <1>5, <1>7 DEF AcceptFails
<1>8. ASSUME NEW w \in Workers, NEW c \in Conns, ReclaimFails(w, c) PROVE Dealt'
  BY <1>0, <1>8 DEF ReclaimFails, Dealt
<1>9. ASSUME NEW c \in Conns, Close(c) PROVE Dealt'
  BY <1>9, NoDealKeeps DEF Close
<1>10. CASE UNCHANGED vars
  BY <1>10, NoDealKeeps DEF vars
<1> QED
  BY <1>1, <1>2, <1>3, <1>4, <1>6, <1>7, <1>8, <1>9, <1>10, Zenon
  DEF Next, Accept

\* The inductive invariant holds in every state.
LEMMA Invariance == Spec => []IInv
<1>1. IInv /\ [Next]_vars => IInv'
  BY ChannelStep, DealStep DEF IInv
<1> QED
  BY <1>1, InitInv, PTL DEF Spec

\* HandoffConn through the workers' channels: a connection in transit is in
\* exactly one channel, once, and that channel is its worker's.
THEOREM HandoffTypeOK == Spec => []TypeOK
BY Invariance, PTL DEF IInv

\* ConnDistributor::route: whichever worker wins each accept, and however the
\* accepts and adoptions interleave, no worker is given more than one
\* connection more than another while all are there.
THEOREM HandoffBalanced == Spec => []Balanced
<1>1. IInv => Balanced
  <2> SUFFICES ASSUME IInv, \A w \in Workers : state[w] # "down",
                      NEW v \in Workers, NEW w \in Workers
               PROVE  Given(v) <= Given(w) + 1
    BY DEF Balanced
  <2> QED
    BY GivenNat DEF IInv, Dealt
<1> QED
  BY <1>1, Invariance, PTL
=============================================================================
