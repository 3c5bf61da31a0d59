------------------------ MODULE SingleInstanceProofs ------------------------
(***************************************************************************)
(* Proofs about SingleInstanceIpc.                                          *)
(*                                                                         *)
(* OneWindow is not inductive: that a second primary cannot appear rests on *)
(* a launch having nothing open before it begins, also when it then does    *)
(* without the mutex (MutexInv).                                            *)
(*                                                                         *)
(* Conserved and Overtake follow the command lines.  They need that a line  *)
(* reaches one server only and is read once (Clients, Reads), that the      *)
(* server has the newest one in hand (Newest), and where every line is that *)
(* is not in the window yet: ahead of the later ones in Pending and in the  *)
(* message loop, where a post at its second hop is ahead of all others.     *)
(***************************************************************************)
EXTENDS SingleInstanceIpc, TLAPS

USE InstanceAssumption

\* Every process that may show a window has the mutex open.
WindowHasMutex == \A p \in Procs : Window(p) => p \in handles

PcType == pc \in [Procs -> Stages] /\ handles \subseteq Procs

\* A launch that has not begun has nothing open.
OffHasNothing == \A p \in Procs : pc[p] = "off" => p \notin handles

MutexInv == PcType /\ OffHasNothing /\ OneWindow /\ (~MutexMayFail => WindowHasMutex)

-----------------------------------------------------------------------------

\* A process that goes to a stage without a window, or stays in one with it,
\* and releases the mutex only in the first case, preserves the invariant.
LEMMA StageChange ==
  ASSUME MutexInv, NEW p \in Procs, NEW stage \in Stages \ {"off"}, Goto(p, stage),
         handles' \subseteq handles \cup {p}, handles \ {p} \subseteq handles',
         stage \in WindowStages => Window(p) /\ handles' = handles
  PROVE  MutexInv'
<1>1. PcType'
  BY DEF MutexInv, PcType, Goto
<1>2. OffHasNothing'
  BY DEF MutexInv, PcType, OffHasNothing, Goto
<1>3. ASSUME NEW q \in Procs, Window(q)'
      PROVE  Window(q) /\ (q \in handles' <=> q \in handles)
  <2>1. CASE q = p
    BY <1>3, <2>1 DEF MutexInv, PcType, Goto, Window
  <2>2. CASE q # p
    BY <1>3, <2>2 DEF MutexInv, PcType, Goto, Window
  <2> QED BY <2>1, <2>2
<1>4. OneWindow'
  BY <1>3 DEF OneWindow, MutexInv
<1>5. ~MutexMayFail => WindowHasMutex'
  BY <1>3 DEF WindowHasMutex, MutexInv
<1> QED BY <1>1, <1>2, <1>4, <1>5 DEF MutexInv

\* A process becomes primary with the mutex only when nobody has it open.
LEMMA FirstLaunch ==
  ASSUME MutexInv, NEW p \in Procs, handles = {}, handles' = handles \cup {p},
         Goto(p, "starting")
  PROVE  MutexInv'
<1>1. PcType' /\ OffHasNothing'
  BY DEF MutexInv, PcType, OffHasNothing, Goto, Stages, WindowStages
<1>2. OneWindow'
  BY DEF OneWindow
<1>3. ASSUME ~MutexMayFail, NEW q \in Procs, Window(q)'
      PROVE  q \in handles'
  BY <1>3 DEF MutexInv, PcType, Goto, Window, WindowHasMutex
<1> QED BY <1>1, <1>2, <1>3 DEF MutexInv, WindowHasMutex

\* A process that falls back has no mutex, and the others keep theirs.
LEMMA FallbackLaunch ==
  ASSUME MutexInv, NEW p \in Procs, LaunchWithoutMutex(p)
  PROVE  MutexInv'
<1>1. PcType' /\ OffHasNothing'
  BY DEF LaunchWithoutMutex, BecomePrimary, Goto, MutexInv, PcType, OffHasNothing, Stages,
     WindowStages
<1>2. ASSUME NEW q \in Procs, Window(q)', q \in handles'
      PROVE  Window(q) /\ q \in handles
  BY <1>2 DEF LaunchWithoutMutex, BecomePrimary, Goto, MutexInv, PcType, OffHasNothing, Window
<1>3. OneWindow'
  BY <1>2 DEF OneWindow, MutexInv
<1> QED BY <1>1, <1>3 DEF MutexInv, LaunchWithoutMutex

LEMMA Unchanged ==
  ASSUME MutexInv, UNCHANGED <<pc, handles>>
  PROVE  MutexInv'
BY DEF MutexInv, PcType, OffHasNothing, WindowHasMutex, OneWindow, Window

-----------------------------------------------------------------------------

LEMMA InitMutex == Init => MutexInv
BY DEF Init, MutexInv, PcType, OffHasNothing, Stages, WindowStages, Window, WindowHasMutex,
   OneWindow

LEMMA NextMutex ==
  ASSUME MutexInv, [Next]_vars
  PROVE  MutexInv'
<1> USE DEF Stages, WindowStages
<1>1. CASE UNCHANGED vars
  BY <1>1, Unchanged DEF vars
<1>2. ASSUME NEW p \in Procs, ProcStep(p) PROVE MutexInv'
  <2>t. handles \subseteq Procs
    BY DEF MutexInv, PcType
  <2>1. CASE Launch(p)
    <3>1. CASE handles = {}
      BY <2>1, <3>1, FirstLaunch DEF Launch, BecomePrimary
    <3>2. CASE handles # {}
      BY <2>1, <2>t, <3>2, StageChange DEF Launch
    <3> QED BY <3>1, <3>2
  <2>2. CASE LaunchWithoutMutex(p)
    BY <2>2, FallbackLaunch
  <2>3. CASE ConnectTimeout(p)
    BY <2>3, <2>t, StageChange DEF ConnectTimeout
  <2>4. CASE Send(p)
    BY <2>4, <2>t, StageChange DEF Send
  <2>5. ASSUME NEW q \in Procs, Connect(p, q) PROVE MutexInv'
    BY <2>5, <2>t, StageChange DEF Connect
  <2>6. CASE ServerStep(p)
    BY <2>6, Unchanged DEF ServerStep, CreatePipe, ReadArgs, ReadNothing, Enqueue,
       CallHandler, ServerStops
  <2>7. CASE UiStep(p)
    <3>1. CASE SetHandler(p)
      BY <2>t, <3>1, StageChange DEF SetHandler, Window
    <3>2. CASE DrainPending(p)
      BY <2>t, <3>2, StageChange, Unchanged DEF DrainPending, Window
    <3>3. CASE RunPost(p)
      BY <3>3, Unchanged DEF RunPost
    <3>4. CASE StopServer(p)
      BY <2>t, <3>4, StageChange DEF StopServer, Window
    <3>5. CASE DisposeMutex(p)
      BY <2>t, <3>5, StageChange DEF DisposeMutex
    <3> QED BY <2>7, <3>1, <3>2, <3>3, <3>4, <3>5 DEF UiStep
  <2>8. CASE CloseWindow(p)
    BY <2>8, <2>t, StageChange DEF CloseWindow, Window
  <2>9. CASE Exit(p) \/ Crash(p)
    BY <2>9, <2>t, StageChange DEF Exit, Crash, EndProcess
  <2> QED BY <1>2, <2>1, <2>2, <2>3, <2>4, <2>5, <2>6, <2>7, <2>8, <2>9 DEF ProcStep
<1> QED BY <1>1, <1>2 DEF Next

LEMMA SpecMutex == Spec => []MutexInv
<1>1. MutexInv /\ [Next]_vars => MutexInv'
  BY NextMutex
<1> QED BY <1>1, InitMutex, PTL DEF Spec

\* Single instance, for every number of launches: no two processes that have
\* the mutex open may show a window at the same time, even when others could
\* not get the mutex and went without.
THEOREM InstanceOneWindow == Spec => []OneWindow
<1>1. MutexInv => OneWindow
  BY DEF MutexInv
<1> QED BY <1>1, SpecMutex, PTL

\* As long as the mutex works there is at most one window at all.
THEOREM InstanceOneWindowEver ==
  ASSUME ~MutexMayFail
  PROVE  Spec => [](\A p, q \in Procs : Window(p) /\ Window(q) => p = q)
<1>1. MutexInv => \A p, q \in Procs : Window(p) /\ Window(q) => p = q
  BY DEF MutexInv, WindowHasMutex, OneWindow
<1> QED BY <1>1, SpecMutex, PTL

-----------------------------------------------------------------------------
(* The way of a command line *)

Posts == [args : Procs, hop : {1, 2}]

ServerStages == {"off", "opening", "waiting", "reading", "queueing", "calling"}

TypeOK ==
  /\ srv \in [Procs -> ServerStages]
  /\ client \in [Procs -> Procs \cup {None}] /\ sent \subseteq Procs /\ queued \subseteq Procs
  /\ pending \in [Procs -> Seq(Procs)] /\ ui \in [Procs -> Seq(Posts)]
  /\ handled \in Seq(Procs) /\ arrival \in [Procs -> Seq(Procs)]

Handed(c) == pc[c] \in {"sending", "returned", "gone"}

\* A command line is sent to one server.
Clients ==
  /\ \A p \in Procs : client[p] # None <=> srv[p] \in {"reading", "queueing", "calling"}
  /\ \A p, q \in Procs : client[p] = client[q] /\ client[p] # None => p = q
  /\ \A p \in Procs : client[p] # None => Handed(client[p])
  /\ \A p \in Procs : srv[p] # "off" => pc[p] \in WindowStages \cup {"stopped"}

\* It is read once.
Reads ==
  /\ \A p \in Procs : \A c \in ToSet(arrival[p]) : Handed(c)
  /\ \A p, q \in Procs : srv[p] = "reading" => client[p] \notin ToSet(arrival[q])
  /\ \A p \in Procs : pc[p] \in {"off", "connecting", "sending", "returned"} => arrival[p] = <<>>

Live(p) == pc[p] \in {"starting", "draining", "running"}

\* What a server read is in one place, as long as its window can go on.
OnePlace(hand, taken, posted, done, read, live) ==
  /\ hand \cap (taken \cup posted \cup done) = {} /\ taken \cap (posted \cup done) = {}
  /\ posted \cap done = {}
  /\ hand \cup taken \cup posted \subseteq read
  /\ live => read \subseteq hand \cup taken \cup posted \cup done

Kept(p) ==
  OnePlace(InHand(p), ToSet(pending[p]), InUi(p), ToSet(handled), ToSet(arrival[p]), Live(p))

Distinct(posts) == \A i, j \in 1 .. Len(posts) : posts[i].args = posts[j].args => i = j

Once(p) == IsInjective(pending[p]) /\ IsInjective(arrival[p]) /\ Distinct(ui[p])

\* The last line the server read is the one it has in hand.
Newest(p) ==
  /\ srv[p] \in {"queueing", "calling"} =>
       arrival[p] # <<>> /\ arrival[p][Len(arrival[p])] = client[p] /\ client[p] \notin queued
  /\ ToSet(pending[p]) \subseteq queued

\* The command lines of some posts.
Args(posts) == {posts[i].args : i \in 1 .. Len(posts)}

\* In the message loop a post at its second hop is ahead of all at their first.
Ahead(posts, m, n) ==
  \/ posts[m].hop = 2 /\ posts[n].hop = 1
  \/ posts[m].hop = posts[n].hop /\ m < n

\* Where d is, handled, posted or waiting to be taken, c is before it or further on.
NotBehind(done, posts, waiting, c, d) ==
  /\ \A n \in 1 .. Len(done) : done[n] = d => \E m \in 1 .. n - 1 : done[m] = c
  /\ \A n \in 1 .. Len(posts) : posts[n].args = d =>
       c \in ToSet(done) \/ \E m \in 1 .. Len(posts) : posts[m].args = c /\ Ahead(posts, m, n)
  /\ \A n \in 1 .. Len(waiting) : waiting[n] = d =>
       c \in ToSet(done) \cup Args(posts) \/ \E m \in 1 .. n - 1 : waiting[m] = c

InOrder(read, done, posts, waiting, late) ==
  \A i, j \in 1 .. Len(read) :
    (i < j /\ ~(read[i] \in late /\ read[j] \notin late)) =>
      NotBehind(done, posts, waiting, read[i], read[j])

Ordered(p) == Live(p) => InOrder(arrival[p], handled, ui[p], pending[p], queued)

At(p) == Kept(p) /\ Once(p) /\ Newest(p) /\ Ordered(p)

\* What was processed or queued was read, and by one server.
Apart ==
  /\ IsInjective(handled)
  /\ \A c \in ToSet(handled) \cup queued : \E p \in Procs : c \in ToSet(arrival[p])
  /\ \A p, q \in Procs : p # q => ToSet(arrival[p]) \cap ToSet(arrival[q]) = {}

\* The processes whose lines are all right.
Good == {p \in Procs : At(p)}

Way == Apart /\ Good = Procs

IInv == MutexInv /\ TypeOK /\ Clients /\ Reads /\ Way

-----------------------------------------------------------------------------
(* Lemmas about sequences *)

LEMMA AppendElements ==
  ASSUME NEW S, NEW s \in Seq(S), NEW x \in S
  PROVE  /\ ToSet(Append(s, x)) = ToSet(s) \cup {x}
         /\ IsInjective(s) /\ x \notin ToSet(s) => IsInjective(Append(s, x))
<1>1. /\ DOMAIN Append(s, x) = 1 .. Len(s) + 1 /\ DOMAIN s = 1 .. Len(s) /\ Len(s) \in Nat
      /\ Append(s, x)[Len(s) + 1] = x /\ \A i \in 1 .. Len(s) : Append(s, x)[i] = s[i]
  OBVIOUS
<1> DEFINE t == Append(s, x)
<1> HIDE DEF t
<1>2. /\ DOMAIN t = 1 .. Len(s) + 1 /\ t[Len(s) + 1] = x
      /\ \A i \in 1 .. Len(s) : t[i] = s[i]
  BY <1>1 DEF t
<1>3. \A i \in 1 .. Len(s) + 1 : i = Len(s) + 1 \/ i \in 1 .. Len(s)
  BY <1>1
<1>4. ToSet(t) = ToSet(s) \cup {x}
  BY <1>1, <1>2, <1>3 DEF ToSet
<1>5. IsInjective(s) /\ x \notin ToSet(s) => IsInjective(t)
  BY <1>1, <1>2, <1>3 DEF ToSet, IsInjective
<1> QED BY <1>4, <1>5 DEF t

LEMMA LastAppended ==
  ASSUME NEW S, NEW s \in Seq(S), NEW x \in S
  PROVE  Append(s, x) # <<>> /\ Append(s, x)[Len(Append(s, x))] = x
<1>1. Len(Append(s, x)) = Len(s) + 1 /\ Len(s) \in Nat /\ Append(s, x)[Len(s) + 1] = x
  OBVIOUS
<1>2. Append(s, x) # <<>>
  OBVIOUS
<1> QED BY <1>1, <1>2

LEMMA TailElements ==
  ASSUME NEW S, NEW s \in Seq(S), s # <<>>, IsInjective(s)
  PROVE  /\ Head(s) \in ToSet(s) /\ ToSet(Tail(s)) = ToSet(s) \ {Head(s)}
         /\ IsInjective(Tail(s)) /\ Tail(s) \in Seq(S) /\ Head(s) \in S
<1> DEFINE t == Tail(s)
           n == Len(s)
<1>1. /\ t \in Seq(S) /\ DOMAIN t = 1 .. n - 1 /\ DOMAIN s = 1 .. n /\ n \in Nat \ {0}
      /\ Head(s) = s[1] /\ s[1] \in S /\ \A i \in 1 .. n - 1 : t[i] = s[i + 1]
  OBVIOUS
<1> HIDE DEF t, n
<1>2. \A i, j \in 1 .. n : s[i] = s[j] => i = j
  BY <1>1 DEF IsInjective
<1>3. 1 \in 1 .. n /\ \A i \in 1 .. n - 1 : i + 1 \in 1 .. n /\ i + 1 # 1
  BY <1>1
<1>4. IsInjective(t)
  BY <1>1, <1>2, <1>3 DEF IsInjective
<1>5. ToSet(t) \subseteq ToSet(s) \ {s[1]}
  BY <1>1, <1>2, <1>3 DEF ToSet
<1>6. ASSUME NEW i \in 1 .. n, i # 1
      PROVE  s[i] \in ToSet(t)
  <2>1. i - 1 \in 1 .. n - 1 /\ (i - 1) + 1 = i
    BY <1>1, <1>6
  <2>2. t[i - 1] = s[i]
    BY <1>1, <2>1
  <2> QED BY <1>1, <2>1, <2>2 DEF ToSet
<1>7. s[1] \in ToSet(s)
  BY <1>1, <1>3 DEF ToSet
<1>8. ToSet(s) \ {s[1]} \subseteq ToSet(t)
  BY <1>1, <1>6 DEF ToSet
<1> QED BY <1>1, <1>4, <1>5, <1>7, <1>8 DEF t

LEMMA AppendPost ==
  ASSUME NEW u \in Seq(Posts), NEW x \in Posts
  PROVE  /\ Append(u, x) \in Seq(Posts) /\ Len(Append(u, x)) = Len(u) + 1
         /\ Append(u, x)[Len(u) + 1] = x /\ \A i \in 1 .. Len(u) : Append(u, x)[i] = u[i]
         /\ Args(Append(u, x)) = Args(u) \cup {x.args}
         /\ Distinct(u) /\ x.args \notin Args(u) => Distinct(Append(u, x))
<1>1. /\ Append(u, x) \in Seq(Posts) /\ Len(Append(u, x)) = Len(u) + 1 /\ Len(u) \in Nat
      /\ Append(u, x)[Len(u) + 1] = x /\ \A i \in 1 .. Len(u) : Append(u, x)[i] = u[i]
  OBVIOUS
<1>2. Args(Append(u, x)) = Args(u) \cup {x.args}
  BY <1>1 DEF Args
<1>3. ASSUME Distinct(u), x.args \notin Args(u)
      PROVE  Distinct(Append(u, x))
  BY <1>1, <1>3 DEF Args, Distinct
<1> QED BY <1>1, <1>2, <1>3

LEMMA TailPosts ==
  ASSUME NEW u \in Seq(Posts), u # <<>>, Distinct(u)
  PROVE  /\ Tail(u) \in Seq(Posts) /\ Len(Tail(u)) = Len(u) - 1 /\ Len(u) \in Nat \ {0}
         /\ Head(u) = u[1] /\ u[1] \in Posts
         /\ \A i \in 1 .. Len(u) - 1 : Tail(u)[i] = u[i + 1]
         /\ u[1].args \in Args(u) /\ Args(Tail(u)) = Args(u) \ {u[1].args} /\ Distinct(Tail(u))
<1>1. /\ Tail(u) \in Seq(Posts) /\ Len(Tail(u)) = Len(u) - 1 /\ Len(u) \in Nat \ {0}
      /\ Head(u) = u[1] /\ u[1] \in Posts
      /\ \A i \in 1 .. Len(u) - 1 : Tail(u)[i] = u[i + 1]
  OBVIOUS
<1>2. Distinct(Tail(u))
  BY <1>1 DEF Distinct
<1>3. ASSUME NEW i \in 1 .. Len(u), i # 1
      PROVE  u[i].args \in Args(Tail(u))
  <2>1. i - 1 \in 1 .. Len(u) - 1 /\ Tail(u)[i - 1] = u[i]
    BY <1>1, <1>3
  <2> QED BY <1>1, <2>1 DEF Args
<1>4. \A i \in 1 .. Len(u) - 1 : u[i + 1].args \in Args(u) /\ u[i + 1].args # u[1].args
  BY <1>1 DEF Args, Distinct
<1>5. u[1].args \in Args(u)
  BY <1>1 DEF Args
<1>6. Args(Tail(u)) \subseteq Args(u) \ {u[1].args}
  BY <1>1, <1>4 DEF Args
<1>7. Args(u) \ {u[1].args} \subseteq Args(Tail(u))
  BY <1>3 DEF Args
<1> QED BY <1>1, <1>2, <1>5, <1>6, <1>7

LEMMA UiArgs == \A p \in Procs : InUi(p) = Args(ui[p])
BY DEF InUi, Args

-----------------------------------------------------------------------------
(* Types *)

LEMMA TypeStep ==
  ASSUME TypeOK, Clients, MutexInv, [Next]_vars
  PROVE  TypeOK'
<1> USE DEF TypeOK, ServerStages, Goto, ipcVars, uiVars, NextConnection
<1>1. ASSUME NEW p \in Procs,
             \/ Launch(p) \/ LaunchWithoutMutex(p) \/ ConnectTimeout(p) \/ Send(p)
             \/ \E q \in Procs : Connect(p, q)
      PROVE  TypeOK'
  <2>1. CASE Launch(p) \/ LaunchWithoutMutex(p) \/ ConnectTimeout(p)
    BY <2>1 DEF Launch, LaunchWithoutMutex, BecomePrimary, ConnectTimeout
  <2>2. CASE Send(p)
    BY <2>2 DEF Send
  <2>3. ASSUME NEW q \in Procs, Connect(p, q)
        PROVE  TypeOK'
    BY <2>3 DEF Connect
  <2> QED BY <1>1, <2>1, <2>2, <2>3
<1>2. ASSUME NEW p \in Procs,
             CreatePipe(p) \/ ReadNothing(p) \/ ServerStops(p) \/ SetHandler(p) \/ CloseWindow(p)
             \/ StopServer(p) \/ DisposeMutex(p)
      PROVE  TypeOK'
  BY <1>2 DEF CreatePipe, ReadNothing, ServerStops, SetHandler, CloseWindow, StopServer,
     DisposeMutex
<1>3. ASSUME NEW p \in Procs, ReadArgs(p)
      PROVE  TypeOK'
  <2>1. client[p] \in Procs
    BY <1>3 DEF Clients, ReadArgs
  <2>2. arrival' \in [Procs -> Seq(Procs)]
    BY <1>3, <2>1 DEF ReadArgs
  <2> QED BY <1>3, <2>2 DEF ReadArgs
<1>4. ASSUME NEW p \in Procs, Enqueue(p)
      PROVE  TypeOK'
  <2>1. client[p] \in Procs
    BY <1>4 DEF Clients, Enqueue
  <2>2. pending' \in [Procs -> Seq(Procs)]
    BY <1>4, <2>1 DEF Enqueue
  <2> QED BY <1>4, <2>1, <2>2 DEF Enqueue
<1>5. ASSUME NEW p \in Procs, CallHandler(p)
      PROVE  TypeOK'
  <2>1. [args |-> client[p], hop |-> 1] \in Posts
    BY <1>5 DEF Clients, CallHandler, Posts
  <2>2. ui' \in [Procs -> Seq(Posts)]
    BY <1>5, <2>1 DEF CallHandler, Post
  <2> QED BY <1>5, <2>2 DEF CallHandler
<1>6. ASSUME NEW p \in Procs, DrainPending(p)
      PROVE  TypeOK'
  <2>1. CASE pending[p] # <<>>
    <3> DEFINE posts == Append(ui[p], [args |-> Head(pending[p]), hop |-> 1])
    <3>1. Head(pending[p]) \in Procs /\ Tail(pending[p]) \in Seq(Procs)
      BY <2>1
    <3>2. [args |-> Head(pending[p]), hop |-> 1] \in Posts
      BY <3>1 DEF Posts
    <3>3. posts \in Seq(Posts)
      BY <3>2
    <3>4. ui' \in [Procs -> Seq(Posts)]
      <4>1. ui' = [ui EXCEPT ![p] = posts]
        BY <1>6, <2>1 DEF DrainPending, Post
      <4> HIDE DEF posts
      <4> QED BY <3>3, <4>1
    <3>5. pending' \in [Procs -> Seq(Procs)]
      BY <1>6, <2>1, <3>1 DEF DrainPending
    <3> QED BY <1>6, <3>4, <3>5 DEF DrainPending
  <2>2. CASE pending[p] = <<>>
    BY <1>6, <2>2 DEF DrainPending
  <2> QED BY <2>1, <2>2
<1>7. ASSUME NEW p \in Procs, RunPost(p)
      PROVE  TypeOK'
  <2>1. Head(ui[p]) \in Posts /\ Tail(ui[p]) \in Seq(Posts)
    BY <1>7 DEF RunPost
  <2>2. [Head(ui[p]) EXCEPT !.hop = 2] \in Posts /\ Head(ui[p]).args \in Procs
    BY <2>1 DEF Posts
  <2>3. Append(Tail(ui[p]), [Head(ui[p]) EXCEPT !.hop = 2]) \in Seq(Posts)
    BY <2>1, <2>2
  <2>4. ui' \in [Procs -> Seq(Posts)]
    <3> HIDE DEF Posts
    <3> QED BY <1>7, <2>1, <2>3 DEF RunPost
  <2>5. handled' \in Seq(Procs)
    <3>1. Append(handled, Head(ui[p]).args) \in Seq(Procs)
      BY <2>2
    <3> QED BY <1>7, <3>1 DEF RunPost
  <2> QED BY <1>7, <2>4, <2>5 DEF RunPost
<1>8. ASSUME NEW p \in Procs, Exit(p) \/ Crash(p)
      PROVE  TypeOK'
  <2>1. EndProcess(p) /\ <<>> \in Seq(Procs) /\ <<>> \in Seq(Posts)
    BY <1>8 DEF Exit, Crash
  <2> QED BY <2>1 DEF EndProcess
<1>9. CASE UNCHANGED vars
  BY <1>9 DEF vars
<1> QED BY <1>1, <1>2, <1>3, <1>4, <1>5, <1>6, <1>7, <1>8, <1>9
        DEF Next, ProcStep, ServerStep, UiStep

-----------------------------------------------------------------------------
(* Clients *)

LEMMA ClientsStep ==
  ASSUME TypeOK, Clients, MutexInv, [Next]_vars
  PROVE  Clients'
<1>0. /\ pc \in [Procs -> Stages] /\ srv \in [Procs -> ServerStages]
      /\ client \in [Procs -> Procs \cup {None}]
  BY DEF TypeOK, MutexInv, PcType
<1> USE DEF ServerStages, Clients, Handed, WindowStages, Goto, ipcVars, uiVars
<1>1. ASSUME NEW p \in Procs, Launch(p) \/ LaunchWithoutMutex(p)
      PROVE  Clients'
  BY <1>0, <1>1 DEF Launch, LaunchWithoutMutex, BecomePrimary
<1>2. ASSUME NEW p \in Procs, ConnectTimeout(p) \/ Send(p)
      PROVE  Clients'
  BY <1>0, <1>2 DEF ConnectTimeout, Send
<1>3. ASSUME NEW p \in Procs, NEW q \in Procs, Connect(p, q)
      PROVE  Clients'
  BY <1>0, <1>3 DEF Connect
<1>4. ASSUME NEW p \in Procs, CreatePipe(p) \/ ReadNothing(p) \/ ServerStops(p)
      PROVE  Clients'
  BY <1>0, <1>4 DEF CreatePipe, ReadNothing, ServerStops, NextConnection
<1>5. ASSUME NEW p \in Procs, SetHandler(p) \/ CloseWindow(p) \/ StopServer(p) \/ DisposeMutex(p)
      PROVE  Clients'
  BY <1>0, <1>5 DEF SetHandler, CloseWindow, StopServer, DisposeMutex
<1>6. ASSUME NEW p \in Procs, ReadArgs(p)
      PROVE  Clients'
  BY <1>0, <1>6 DEF ReadArgs
<1>7. ASSUME NEW p \in Procs, Enqueue(p) \/ CallHandler(p)
      PROVE  Clients'
  BY <1>0, <1>7 DEF Enqueue, CallHandler, NextConnection
<1>8. ASSUME NEW p \in Procs, DrainPending(p) \/ RunPost(p)
      PROVE  Clients'
  BY <1>0, <1>8 DEF DrainPending, RunPost
<1>9. ASSUME NEW p \in Procs, Exit(p) \/ Crash(p)
      PROVE  Clients'
  BY <1>0, <1>9 DEF Exit, Crash, EndProcess
<1>10. CASE UNCHANGED vars
  BY <1>10 DEF vars
<1> QED BY <1>1, <1>2, <1>3, <1>4, <1>5, <1>6, <1>7, <1>8, <1>9, <1>10
        DEF Next, ProcStep, ServerStep, UiStep

\* Where nothing is read, only a client that had not been connected is new.
LEMMA ReadsKept ==
  ASSUME Reads, UNCHANGED arrival,
         \A c \in Procs : Handed(c) => Handed(c)',
         \A p \in Procs : srv'[p] = "reading" =>
           \/ srv[p] = "reading" /\ client'[p] = client[p]
           \/ ~Handed(client'[p]),
         \A p \in Procs : pc'[p] \in {"off", "connecting", "sending", "returned"} =>
           pc[p] \in {"off", "connecting", "sending", "returned"},
         TypeOK
  PROVE  Reads'
<1>1. \A p \in Procs : ToSet(arrival[p]) \subseteq Procs
  BY DEF TypeOK, ToSet
<1> HIDE DEF Handed
<1> QED BY <1>1 DEF Reads

LEMMA ReadsStep ==
  ASSUME TypeOK, Clients, Reads, MutexInv, [Next]_vars
  PROVE  Reads'
<1>0. /\ pc \in [Procs -> Stages] /\ srv \in [Procs -> ServerStages]
      /\ client \in [Procs -> Procs \cup {None}]
  BY DEF TypeOK, MutexInv, PcType
<1> USE DEF ServerStages, Handed, WindowStages, Goto, ipcVars, uiVars
<1>1. ASSUME NEW p \in Procs, Launch(p) \/ LaunchWithoutMutex(p)
      PROVE  Reads'
  BY <1>0, <1>1, ReadsKept DEF Launch, LaunchWithoutMutex, BecomePrimary
<1>2. ASSUME NEW p \in Procs, ConnectTimeout(p) \/ Send(p)
      PROVE  Reads'
  BY <1>0, <1>2, ReadsKept DEF ConnectTimeout, Send
<1>3. ASSUME NEW p \in Procs, NEW q \in Procs, Connect(p, q)
      PROVE  Reads'
  <2>1. UNCHANGED arrival /\ ~Handed(p) /\ client'[q] = p
    BY <1>0, <1>3 DEF Connect
  <2>2. \A c \in Procs : Handed(c) => Handed(c)'
    BY <1>0, <1>3 DEF Connect
  <2>3. \A r \in Procs : r # q => srv'[r] = srv[r] /\ client'[r] = client[r]
    BY <1>0, <1>3 DEF Connect
  <2>4. \A r \in Procs : pc'[r] \in {"off", "connecting", "sending", "returned"} =>
          pc[r] \in {"off", "connecting", "sending", "returned"}
    BY <1>0, <1>3 DEF Connect
  <2> HIDE DEF Handed
  <2> QED BY <2>1, <2>2, <2>3, <2>4, ReadsKept
<1>4. ASSUME NEW p \in Procs, CreatePipe(p) \/ ReadNothing(p) \/ ServerStops(p)
      PROVE  Reads'
  BY <1>0, <1>4, ReadsKept DEF CreatePipe, ReadNothing, ServerStops, NextConnection
<1>5. ASSUME NEW p \in Procs, SetHandler(p) \/ CloseWindow(p) \/ StopServer(p) \/ DisposeMutex(p)
      PROVE  Reads'
  BY <1>0, <1>5, ReadsKept DEF SetHandler, CloseWindow, StopServer, DisposeMutex
<1>6. ASSUME NEW p \in Procs, ReadArgs(p)
      PROVE  Reads'
  <2>1. /\ client[p] \in Procs /\ Handed(client[p]) /\ srv[p] = "reading" /\ pc' = pc
        /\ arrival' = [arrival EXCEPT ![p] = Append(@, client[p])] /\ client' = client
        /\ \A q \in Procs : srv'[q] = "reading" => srv[q] = "reading" /\ q # p
    BY <1>0, <1>6 DEF ReadArgs, Clients
  <2>2. /\ ToSet(arrival'[p]) = ToSet(arrival[p]) \cup {client[p]}
        /\ \A q \in Procs \ {p} : arrival'[q] = arrival[q]
    BY <2>1, AppendElements DEF TypeOK
  <2>3. pc[p] \notin {"off", "connecting", "sending", "returned"}
    BY <2>1 DEF Clients
  <2>4. \A q \in Procs : srv'[q] = "reading" => client[q] # client[p]
    BY <2>1 DEF Clients
  <2> QED BY <2>1, <2>2, <2>3, <2>4 DEF Reads
<1>7. ASSUME NEW p \in Procs, Enqueue(p) \/ CallHandler(p)
      PROVE  Reads'
  BY <1>0, <1>7, ReadsKept DEF Enqueue, CallHandler, NextConnection
<1>8. ASSUME NEW p \in Procs, DrainPending(p) \/ RunPost(p)
      PROVE  Reads'
  BY <1>0, <1>8, ReadsKept DEF DrainPending, RunPost
<1>9. ASSUME NEW p \in Procs, Exit(p) \/ Crash(p)
      PROVE  Reads'
  BY <1>0, <1>9, ReadsKept DEF Exit, Crash, EndProcess
<1>10. CASE UNCHANGED vars
  BY <1>10, ReadsKept DEF vars
<1> QED BY <1>1, <1>2, <1>3, <1>4, <1>5, <1>6, <1>7, <1>8, <1>9, <1>10
        DEF Next, ProcStep, ServerStep, UiStep

-----------------------------------------------------------------------------
(* What was read is kept, once, and in order *)

\* Where no line moves and no window opens that its server has read for.
SameLines ==
  /\ UNCHANGED <<arrival, pending, ui, handled, queued>>
  /\ \A p \in Procs :
       /\ InHand(p)' = InHand(p)
       /\ srv'[p] \in {"queueing", "calling"} => srv'[p] = srv[p] /\ client'[p] = client[p]
       /\ Live(p)' => Live(p) \/ arrival[p] = <<>>

LEMMA SameWay ==
  ASSUME Way, SameLines
  PROVE  Way'
<1>1. \A p \in Procs : arrival[p] = <<>> => ToSet(arrival[p]) = {} /\ Len(arrival[p]) = 0
  BY DEF ToSet
<1>2. \A p \in Procs : InUi(p)' = InUi(p)
  BY DEF SameLines, InUi
<1> HIDE DEF Live
<1>3. ASSUME NEW p \in Procs
      PROVE  p \in Good'
  <2>1. At(p)
    BY DEF Way, Good
  <2>2. Kept(p)'
    <3>1. OnePlace(InHand(p)', ToSet(pending[p]), InUi(p), ToSet(handled),
                   ToSet(arrival[p]), Live(p)')
      BY <1>1, <2>1 DEF At, Kept, SameLines, OnePlace
    <3> QED BY <1>2, <3>1 DEF Kept, SameLines
  <2>3. Once(p)' /\ Newest(p)'
    BY <2>1 DEF At, Once, Newest, SameLines, Distinct
  <2>4. Ordered(p)'
    <3>1. ASSUME Live(p)'
          PROVE  InOrder(arrival[p], handled, ui[p], pending[p], queued)
      BY <1>1, <2>1, <3>1 DEF At, Ordered, SameLines, InOrder
    <3> QED BY <3>1 DEF Ordered, SameLines
  <2> QED BY <2>2, <2>3, <2>4 DEF At, Good
<1>4. Apart'
  BY DEF Way, Apart, SameLines
<1> QED BY <1>3, <1>4 DEF Way, Good

\* Most steps are of this kind.
LEMMA QuietLines ==
  ASSUME TypeOK, Clients, Reads, MutexInv, NEW p \in Procs,
         \/ Launch(p) \/ LaunchWithoutMutex(p) \/ ConnectTimeout(p) \/ Send(p)
         \/ \E q \in Procs : Connect(p, q)
         \/ CreatePipe(p) \/ ReadNothing(p) \/ ServerStops(p) \/ SetHandler(p) \/ CloseWindow(p)
         \/ StopServer(p) \/ DisposeMutex(p)
  PROVE  SameLines
<1>0. /\ pc \in [Procs -> Stages] /\ srv \in [Procs -> ServerStages]
      /\ client \in [Procs -> Procs \cup {None}]
  BY DEF TypeOK, MutexInv, PcType
<1> USE DEF ServerStages, SameLines, InHand, Live, Goto, ipcVars, uiVars
<1>1. CASE Launch(p) \/ LaunchWithoutMutex(p)
  <2>1. pc[p] = "off" /\ arrival[p] = <<>> /\ srv[p] \notin {"queueing", "calling"}
    BY <1>1 DEF Launch, LaunchWithoutMutex, Reads, Clients, WindowStages
  <2> QED BY <1>0, <1>1, <2>1 DEF Launch, LaunchWithoutMutex, BecomePrimary
<1>2. CASE ConnectTimeout(p) \/ Send(p)
  BY <1>0, <1>2 DEF ConnectTimeout, Send
<1>3. ASSUME NEW q \in Procs, Connect(p, q)
      PROVE  SameLines
  BY <1>0, <1>3 DEF Connect
<1>4. CASE CreatePipe(p) \/ ReadNothing(p) \/ ServerStops(p)
  BY <1>0, <1>4 DEF CreatePipe, ReadNothing, ServerStops, NextConnection
<1>5. CASE SetHandler(p) \/ CloseWindow(p) \/ StopServer(p) \/ DisposeMutex(p)
  BY <1>0, <1>5 DEF SetHandler, CloseWindow, StopServer, DisposeMutex
<1> QED BY <1>1, <1>2, <1>3, <1>4, <1>5

-----------------------------------------------------------------------------
(* The order, for the lines of one window *)

\* A line that is nowhere yet.
LEMMA OrderRead ==
  ASSUME NEW a \in Seq(Procs), NEW h \in Seq(Procs), NEW u \in Seq(Posts), NEW t \in Seq(Procs),
         NEW w, InOrder(a, h, u, t, w), NEW c \in Procs,
         c \notin ToSet(h) \cup Args(u) \cup ToSet(t)
  PROVE  InOrder(Append(a, c), h, u, t, w)
<1>0. Len(Append(a, c)) = Len(a) + 1
  OBVIOUS
<1> SUFFICES ASSUME NEW i \in 1 .. Len(a) + 1, NEW j \in 1 .. Len(a) + 1, i < j,
                    ~(Append(a, c)[i] \in w /\ Append(a, c)[j] \notin w)
             PROVE  NotBehind(h, u, t, Append(a, c)[i], Append(a, c)[j])
  BY <1>0 DEF InOrder
<1>1. CASE j = Len(a) + 1
  <2>1. Append(a, c)[j] = c
    BY <1>1
  <2>2. /\ \A n \in 1 .. Len(h) : h[n] # c
        /\ \A n \in 1 .. Len(u) : u[n].args # c
        /\ \A n \in 1 .. Len(t) : t[n] # c
    BY DEF ToSet, Args
  <2> QED BY <2>1, <2>2 DEF NotBehind
<1>2. CASE j # Len(a) + 1
  <2>1. i \in 1 .. Len(a) /\ j \in 1 .. Len(a)
    BY <1>2
  <2>2. Append(a, c)[i] = a[i] /\ Append(a, c)[j] = a[j]
    BY <2>1
  <2> QED BY <2>1, <2>2 DEF InOrder
<1> QED BY <1>1, <1>2

\* Lines of another window are posted, queued and handled.
LEMMA OrderOther ==
  ASSUME NEW a \in Seq(Procs), NEW h \in Seq(Procs), NEW u \in Seq(Posts), NEW t \in Seq(Procs),
         NEW w, InOrder(a, h, u, t, w), NEW c \in Procs, c \notin ToSet(a)
  PROVE  InOrder(a, Append(h, c), u, t, w) /\ InOrder(a, h, u, t, w \cup {c})
<1>1. \A i \in 1 .. Len(a) : a[i] # c
  BY DEF ToSet
<1>2. InOrder(a, h, u, t, w \cup {c})
  BY <1>1 DEF InOrder
<1>3. ASSUME NEW x \in Procs, NEW y \in Procs, y # c, NotBehind(h, u, t, x, y)
      PROVE  NotBehind(Append(h, c), u, t, x, y)
  <2>1. /\ Len(Append(h, c)) = Len(h) + 1 /\ Append(h, c)[Len(h) + 1] = c /\ Len(h) \in Nat
        /\ \A n \in 1 .. Len(h) : Append(h, c)[n] = h[n]
    OBVIOUS
  <2>2. ToSet(Append(h, c)) = ToSet(h) \cup {c}
    BY AppendElements
  <2>3. ASSUME NEW n \in 1 .. Len(h) + 1, Append(h, c)[n] = y
        PROVE  \E m \in 1 .. n - 1 : Append(h, c)[m] = x
    <3>1. n \in 1 .. Len(h) /\ h[n] = y
      BY <1>3, <2>1, <2>3
    <3>2. PICK m \in 1 .. n - 1 : h[m] = x
      BY <1>3, <3>1 DEF NotBehind
    <3>3. m \in 1 .. Len(h)
      BY <2>1, <3>1
    <3> QED BY <2>1, <3>2, <3>3
  <2> QED BY <1>3, <2>1, <2>2, <2>3 DEF NotBehind
<1>4. InOrder(a, Append(h, c), u, t, w)
  BY <1>1, <1>3 DEF InOrder
<1> QED BY <1>2, <1>4


LEMMA PostAt ==
  ASSUME NEW u \in Seq(Posts), NEW n \in 1 .. Len(u)
  PROVE  u[n] \in Posts /\ u[n].hop \in {1, 2} /\ u[n].args \in Procs
<1>1. u[n] \in Posts
  OBVIOUS
<1> QED BY <1>1 DEF Posts

\* The newest line goes to the end of Pending.
LEMMA OrderEnqueue ==
  ASSUME NEW a \in Seq(Procs), NEW h \in Seq(Procs), NEW u \in Seq(Posts), NEW t \in Seq(Procs),
         NEW w, InOrder(a, h, u, t, w), NEW c \in Procs, IsInjective(a), a # <<>>,
         a[Len(a)] = c, c \notin ToSet(h) \cup Args(u) \cup ToSet(t),
         ToSet(a) \ {c} \subseteq ToSet(h) \cup Args(u) \cup ToSet(t)
  PROVE  InOrder(a, h, u, Append(t, c), w \cup {c})
<1>0. /\ Len(Append(t, c)) = Len(t) + 1 /\ Append(t, c)[Len(t) + 1] = c /\ Len(t) \in Nat
      /\ \A n \in 1 .. Len(t) : Append(t, c)[n] = t[n]
  OBVIOUS
<1>1. ASSUME NEW i \in 1 .. Len(a), i < Len(a)
      PROVE  a[i] # c /\ a[i] \in ToSet(h) \cup Args(u) \cup ToSet(t)
  <2>1. a[i] # c
    BY <1>1 DEF IsInjective
  <2> QED BY <2>1 DEF ToSet
<1>2. ASSUME NEW x \in Procs, NEW y \in Procs, y # c, NotBehind(h, u, t, x, y)
      PROVE  NotBehind(h, u, Append(t, c), x, y)
  <2>1. ASSUME NEW n \in 1 .. Len(t) + 1, Append(t, c)[n] = y
        PROVE  x \in ToSet(h) \cup Args(u) \/ \E m \in 1 .. n - 1 : Append(t, c)[m] = x
    <3>1. n \in 1 .. Len(t) /\ t[n] = y
      BY <1>0, <1>2, <2>1
    <3>2. CASE x \notin ToSet(h) \cup Args(u)
      <4>1. PICK m \in 1 .. n - 1 : t[m] = x
        BY <1>2, <3>1, <3>2 DEF NotBehind
      <4> QED BY <1>0, <3>1, <4>1
    <3> QED BY <3>2
  <2> QED BY <1>0, <1>2, <2>1 DEF NotBehind
<1>3. ASSUME NEW x \in Procs, x \in ToSet(h) \cup Args(u) \cup ToSet(t)
      PROVE  NotBehind(h, u, Append(t, c), x, c)
  <2>1. /\ \A n \in 1 .. Len(h) : h[n] # c
        /\ \A n \in 1 .. Len(u) : u[n].args # c
        /\ \A n \in 1 .. Len(t) : t[n] # c
    BY DEF ToSet, Args
  <2>2. ASSUME x \notin ToSet(h) \cup Args(u)
        PROVE  \E m \in 1 .. Len(t) : Append(t, c)[m] = x
    BY <1>0, <1>3, <2>2 DEF ToSet
  <2>3. ASSUME NEW n \in 1 .. Len(t) + 1, Append(t, c)[n] = c
        PROVE  n = Len(t) + 1
    BY <1>0, <2>1, <2>3
  <2>4. ASSUME NEW n \in 1 .. Len(t) + 1, Append(t, c)[n] = c
        PROVE  x \in ToSet(h) \cup Args(u) \/ \E m \in 1 .. n - 1 : Append(t, c)[m] = x
    <3>1. n - 1 = Len(t)
      BY <1>0, <2>3, <2>4
    <3> QED BY <2>2, <3>1
  <2> QED BY <1>0, <2>1, <2>4 DEF NotBehind
<1> SUFFICES ASSUME NEW i \in 1 .. Len(a), NEW j \in 1 .. Len(a), i < j,
                    ~(a[i] \in w \cup {c} /\ a[j] \notin w \cup {c})
             PROVE  NotBehind(h, u, Append(t, c), a[i], a[j])
  BY DEF InOrder
<1>4. a[i] \in Procs /\ a[j] \in Procs /\ i < Len(a)
  OBVIOUS
<1>5. CASE a[j] = c
  BY <1>1, <1>3, <1>4, <1>5
<1>6. CASE a[j] # c
  <2>1. NotBehind(h, u, t, a[i], a[j])
    BY <1>6 DEF InOrder
  <2> QED BY <1>2, <1>4, <1>6, <2>1
<1> QED BY <1>5, <1>6

\* A line dispatched after the handler was set goes to the end of the posts.
LEMMA OrderCall ==
  ASSUME NEW a \in Seq(Procs), NEW h \in Seq(Procs), NEW u \in Seq(Posts), NEW t \in Seq(Procs),
         NEW w, InOrder(a, h, u, t, w), NEW c \in Procs, IsInjective(a), a # <<>>,
         a[Len(a)] = c, c \notin ToSet(h) \cup Args(u) \cup ToSet(t),
         ToSet(a) \ {c} \subseteq ToSet(h) \cup Args(u) \cup ToSet(t),
         c \notin w, ToSet(t) \subseteq w
  PROVE  InOrder(a, h, Append(u, [args |-> c, hop |-> 1]), t, w)
<1> DEFINE post == [args |-> c, hop |-> 1]
           v == Append(u, post)
<1>0. /\ post \in Posts /\ post.args = c /\ post.hop = 1
      /\ Len(v) = Len(u) + 1 /\ v[Len(u) + 1] = post /\ Len(u) \in Nat
      /\ \A n \in 1 .. Len(u) : v[n] = u[n]
      /\ \A n \in 1 .. Len(u) : u[n].hop \in {1, 2}
      /\ Args(v) = Args(u) \cup {c}
  <2>1. post \in Posts /\ post.args = c /\ post.hop = 1
    BY DEF Posts
  <2>2. \A n \in 1 .. Len(u) : u[n].hop \in {1, 2}
    BY PostAt
  <2> HIDE DEF post
  <2> QED BY <2>1, <2>2, AppendPost
<1> HIDE DEF post, v
<1>1. ASSUME NEW i \in 1 .. Len(a), i < Len(a)
      PROVE  a[i] # c /\ a[i] \in ToSet(h) \cup Args(u) \cup ToSet(t)
  <2>1. a[i] # c
    BY <1>1 DEF IsInjective
  <2> QED BY <2>1 DEF ToSet
<1>2. ASSUME NEW x \in Procs, NEW y \in Procs, y # c, NotBehind(h, u, t, x, y)
      PROVE  NotBehind(h, v, t, x, y)
  <2>1. ASSUME NEW n \in 1 .. Len(v), v[n].args = y, x \notin ToSet(h)
        PROVE  \E m \in 1 .. Len(v) : v[m].args = x /\ Ahead(v, m, n)
    <3>1. n \in 1 .. Len(u) /\ u[n].args = y
      BY <1>0, <1>2, <2>1
    <3>2. PICK m \in 1 .. Len(u) : u[m].args = x /\ Ahead(u, m, n)
      BY <1>2, <2>1, <3>1 DEF NotBehind
    <3> QED BY <1>0, <3>1, <3>2 DEF Ahead
  <2> QED BY <1>0, <1>2, <2>1 DEF NotBehind
<1>3. ASSUME NEW x \in Procs, x \in ToSet(h) \cup Args(u)
      PROVE  NotBehind(h, v, t, x, c)
  <2>1. /\ \A n \in 1 .. Len(h) : h[n] # c
        /\ \A n \in 1 .. Len(u) : u[n].args # c
        /\ \A n \in 1 .. Len(t) : t[n] # c
    BY DEF ToSet, Args
  <2>2. ASSUME NEW n \in 1 .. Len(v), v[n].args = c, x \notin ToSet(h)
        PROVE  \E m \in 1 .. Len(v) : v[m].args = x /\ Ahead(v, m, n)
    <3>1. n = Len(u) + 1
      BY <1>0, <2>1, <2>2
    <3>2. PICK m \in 1 .. Len(u) : u[m].args = x
      BY <1>3, <2>2 DEF Args
    <3>3. Ahead(v, m, n)
      BY <1>0, <3>1, <3>2 DEF Ahead
    <3> QED BY <1>0, <3>2, <3>3
  <2> QED BY <2>1, <2>2 DEF NotBehind
<1> SUFFICES ASSUME NEW i \in 1 .. Len(a), NEW j \in 1 .. Len(a), i < j,
                    ~(a[i] \in w /\ a[j] \notin w)
             PROVE  NotBehind(h, v, t, a[i], a[j])
  BY DEF InOrder, v, post
<1>4. a[i] \in Procs /\ a[j] \in Procs /\ i < Len(a)
  OBVIOUS
<1>5. CASE a[j] = c
  BY <1>1, <1>3, <1>4, <1>5
<1>6. CASE a[j] # c
  <2>1. NotBehind(h, u, t, a[i], a[j])
    BY <1>6 DEF InOrder
  <2> QED BY <1>2, <1>4, <1>6, <2>1
<1> QED BY <1>5, <1>6

\* The first line of Pending goes to the end of the posts.
LEMMA OrderDrain ==
  ASSUME NEW a \in Seq(Procs), NEW h \in Seq(Procs), NEW u \in Seq(Posts), NEW t \in Seq(Procs),
         NEW w, InOrder(a, h, u, t, w), t # <<>>
  PROVE  InOrder(a, h, Append(u, [args |-> Head(t), hop |-> 1]), Tail(t), w)
<1> DEFINE c == Head(t)
           post == [args |-> c, hop |-> 1]
           v == Append(u, post)
           s == Tail(t)
<1>0. /\ c = t[1] /\ c \in Procs /\ Len(t) \in Nat \ {0} /\ Len(s) = Len(t) - 1
      /\ \A n \in 1 .. Len(s) : s[n] = t[n + 1]
  OBVIOUS
<1>1. /\ post \in Posts /\ post.args = c /\ post.hop = 1
      /\ Len(v) = Len(u) + 1 /\ v[Len(u) + 1] = post /\ Len(u) \in Nat
      /\ \A n \in 1 .. Len(u) : v[n] = u[n]
      /\ \A n \in 1 .. Len(u) : u[n].hop \in {1, 2}
      /\ Args(v) = Args(u) \cup {c}
  <2> HIDE DEF c
  <2>1. post \in Posts /\ post.args = c /\ post.hop = 1
    BY <1>0 DEF Posts
  <2>2. \A n \in 1 .. Len(u) : u[n].hop \in {1, 2}
    BY PostAt
  <2> HIDE DEF post
  <2> QED BY <2>1, <2>2, AppendPost
<1> HIDE DEF c, post, v, s
<1>3. ASSUME NEW x \in Procs, NEW y \in Procs, NotBehind(h, u, t, x, y)
      PROVE  NotBehind(h, v, s, x, y)
  <2>1. ASSUME NEW n \in 1 .. Len(v), v[n].args = y, x \notin ToSet(h)
        PROVE  \E m \in 1 .. Len(v) : v[m].args = x /\ Ahead(v, m, n)
    <3>1. CASE n \in 1 .. Len(u)
      <4>1. PICK m \in 1 .. Len(u) : u[m].args = x /\ Ahead(u, m, n)
        BY <1>1, <1>3, <2>1, <3>1 DEF NotBehind
      <4> QED BY <1>1, <3>1, <4>1 DEF Ahead
    <3>2. CASE n = Len(u) + 1
      <4>1. y = t[1] /\ 1 \in 1 .. Len(t)
        BY <1>0, <1>1, <2>1, <3>2
      <4>2. x \in Args(u)
        BY <1>3, <2>1, <4>1 DEF NotBehind
      <4>3. PICK m \in 1 .. Len(u) : u[m].args = x
        BY <4>2 DEF Args
      <4>4. Ahead(v, m, n)
        BY <1>1, <3>2, <4>3 DEF Ahead
      <4>5. m \in 1 .. Len(v) /\ v[m].args = x
        BY <1>1, <4>3
      <4> QED BY <4>4, <4>5
    <3>3. n \in 1 .. Len(u) \/ n = Len(u) + 1
      <4>1. Len(v) = Len(u) + 1 /\ Len(u) \in Nat
        BY <1>1
      <4> QED BY <4>1
    <3> QED BY <3>1, <3>2, <3>3
  <2>2. ASSUME NEW n \in 1 .. Len(s), s[n] = y, x \notin ToSet(h) \cup Args(v)
        PROVE  \E m \in 1 .. n - 1 : s[m] = x
    <3>1. n + 1 \in 1 .. Len(t) /\ t[n + 1] = y
      BY <1>0, <2>2
    <3>2. PICK m \in 1 .. (n + 1) - 1 : t[m] = x
      BY <1>1, <1>3, <2>2, <3>1 DEF NotBehind
    <3>3. m # 1
      BY <1>0, <1>1, <2>2, <3>2
    <3>4. m - 1 \in 1 .. n - 1 /\ m - 1 \in 1 .. Len(s) /\ (m - 1) + 1 = m
      BY <1>0, <3>2, <3>3
    <3> QED BY <1>0, <3>2, <3>4
  <2> QED BY <1>3, <2>1, <2>2 DEF NotBehind
<1>4. InOrder(a, h, v, s, w)
  BY <1>3 DEF InOrder
<1> QED BY <1>4 DEF c, post, v, s

\* The first post goes to the end for its second hop.
LEMMA RotatePosts ==
  ASSUME NEW u \in Seq(Posts), u # <<>>, Distinct(u)
  PROVE  LET v == Append(Tail(u), [u[1] EXCEPT !.hop = 2]) IN
         /\ Len(v) = Len(u) /\ Len(u) \in Nat \ {0}
         /\ v[Len(u)].args = u[1].args /\ v[Len(u)].hop = 2
         /\ \A n \in 1 .. Len(u) - 1 : v[n] = u[n + 1]
         /\ Args(v) = Args(u) /\ Distinct(v)
<1> DEFINE post == [u[1] EXCEPT !.hop = 2]
           s == Tail(u)
           k == Len(u)
           v == Append(s, post)
<1>0. /\ s \in Seq(Posts) /\ Len(s) = k - 1 /\ k \in Nat \ {0} /\ u[1] \in Posts
      /\ \A i \in 1 .. k - 1 : s[i] = u[i + 1]
      /\ u[1].args \in Args(u) /\ Args(s) = Args(u) \ {u[1].args} /\ Distinct(s)
  BY TailPosts
<1>1. post \in Posts /\ post.args = u[1].args /\ post.hop = 2
  BY <1>0 DEF Posts
<1> HIDE DEF post, s, k
<1>2. /\ Len(v) = Len(s) + 1 /\ v[Len(s) + 1] = post
      /\ \A n \in 1 .. Len(s) : v[n] = s[n]
      /\ Args(v) = Args(s) \cup {post.args}
      /\ Distinct(s) /\ post.args \notin Args(s) => Distinct(v)
  BY <1>0, <1>1, AppendPost
<1> HIDE DEF v
<1>3. Args(v) = Args(u) /\ Distinct(v)
  BY <1>0, <1>1, <1>2
<1>4. Len(v) = k /\ v[k] = post /\ \A n \in 1 .. k - 1 : v[n] = u[n + 1]
  BY <1>0, <1>2
<1> QED BY <1>0, <1>1, <1>3, <1>4 DEF k, v, s, post

LEMMA OrderRotate ==
  ASSUME NEW a \in Seq(Procs), NEW h \in Seq(Procs), NEW u \in Seq(Posts), NEW t \in Seq(Procs),
         NEW w, InOrder(a, h, u, t, w), u # <<>>, Distinct(u), u[1].hop = 1
  PROVE  InOrder(a, h, Append(Tail(u), [u[1] EXCEPT !.hop = 2]), t, w)
<1> DEFINE k == Len(u)
           v == Append(Tail(u), [u[1] EXCEPT !.hop = 2])
<1>2. /\ Len(v) = k /\ k \in Nat \ {0} /\ v[k].args = u[1].args /\ v[k].hop = 2
      /\ \A n \in 1 .. k - 1 : v[n] = u[n + 1]
      /\ Args(v) = Args(u)
  BY RotatePosts
<1> HIDE DEF k, v
<1>1. \A n \in 1 .. k : u[n].hop \in {1, 2}
  BY PostAt DEF k
<1>4. ASSUME NEW x \in Procs, NEW y \in Procs, NotBehind(h, u, t, x, y)
      PROVE  NotBehind(h, v, t, x, y)
  <2>1. ASSUME NEW n \in 1 .. k, v[n].args = y, x \notin ToSet(h)
        PROVE  \E m \in 1 .. k : v[m].args = x /\ Ahead(v, m, n)
    <3>1. CASE n \in 1 .. k - 1
      <4>1. n + 1 \in 1 .. k /\ u[n + 1].args = y /\ v[n] = u[n + 1]
        BY <1>2, <2>1, <3>1
      <4>2. PICK m \in 1 .. k : u[m].args = x /\ Ahead(u, m, n + 1)
        BY <1>4, <2>1, <4>1 DEF NotBehind, k
      <4>3. CASE m = 1
        <5>1. u[n + 1].hop = 1
          BY <1>1, <4>1, <4>2, <4>3 DEF Ahead
        <5>2. v[k].args = x /\ Ahead(v, k, n) /\ k \in 1 .. k
          BY <1>2, <4>1, <4>2, <4>3, <5>1 DEF Ahead
        <5> QED BY <5>2
      <4>4. CASE m # 1
        <5>1. m - 1 \in 1 .. k - 1 /\ (m - 1) + 1 = m /\ m - 1 \in 1 .. k
          BY <1>2, <4>2, <4>4
        <5>2. v[m - 1] = u[m]
          BY <1>2, <5>1
        <5>3. m - 1 < n <=> m < n + 1
          OBVIOUS
        <5>4. Ahead(v, m - 1, n)
          BY <4>1, <4>2, <5>2, <5>3 DEF Ahead
        <5> QED BY <4>2, <5>1, <5>2, <5>4
      <4> QED BY <4>3, <4>4
    <3>2. CASE n = k
      <4>1. u[1].args = y /\ 1 \in 1 .. k
        BY <1>2, <2>1, <3>2
      <4>2. PICK m \in 1 .. k : u[m].args = x /\ Ahead(u, m, 1)
        BY <1>4, <2>1, <4>1 DEF NotBehind, k
      <4>3. u[m].hop = 2 /\ m # 1
        BY <1>1, <4>2 DEF Ahead
      <4>4. m - 1 \in 1 .. k - 1 /\ (m - 1) + 1 = m /\ m - 1 \in 1 .. k /\ m - 1 < k
        BY <1>2, <4>2, <4>3
      <4>5. v[m - 1] = u[m]
        BY <1>2, <4>4
      <4>6. Ahead(v, m - 1, n)
        BY <1>2, <3>2, <4>3, <4>4, <4>5 DEF Ahead
      <4> QED BY <4>2, <4>4, <4>5, <4>6
    <3>3. n \in 1 .. k - 1 \/ n = k
      BY <1>2
    <3> QED BY <3>1, <3>2, <3>3
  <2>2. Len(v) = k /\ Args(v) = Args(u)
    BY <1>2
  <2> QED BY <1>4, <2>1, <2>2 DEF NotBehind
<1>5. InOrder(a, h, v, t, w)
  BY <1>4 DEF InOrder
<1> QED BY <1>5 DEF v

\* The first post, at its second hop, is processed.
LEMMA OrderRun ==
  ASSUME NEW a \in Seq(Procs), NEW h \in Seq(Procs), NEW u \in Seq(Posts), NEW t \in Seq(Procs),
         NEW w, InOrder(a, h, u, t, w), u # <<>>, Distinct(u), u[1].hop = 2
  PROVE  InOrder(a, Append(h, u[1].args), Tail(u), t, w)
<1> DEFINE c == u[1].args
           s == Tail(u)
           g == Append(h, c)
           k == Len(u)
<1>0. /\ Len(s) = k - 1 /\ k \in Nat \ {0} /\ u[1] \in Posts /\ c \in Procs
      /\ \A i \in 1 .. k - 1 : s[i] = u[i + 1]
      /\ Args(u) = Args(s) \cup {c} /\ 1 \in 1 .. k
  <2>1. /\ Len(s) = k - 1 /\ k \in Nat \ {0} /\ u[1] \in Posts
        /\ \A i \in 1 .. k - 1 : s[i] = u[i + 1]
        /\ u[1].args \in Args(u) /\ Args(s) = Args(u) \ {u[1].args}
    BY TailPosts
  <2> HIDE DEF s, k
  <2>2. 1 \in 1 .. k /\ Args(u) = Args(s) \cup {c}
    BY <2>1
  <2>3. c \in Procs
    BY <2>1 DEF Posts
  <2> QED BY <2>1, <2>2, <2>3
<1> HIDE DEF c, s, k
<1>1. /\ Len(g) = Len(h) + 1 /\ g[Len(h) + 1] = c /\ Len(h) \in Nat
      /\ \A n \in 1 .. Len(h) : g[n] = h[n]
  BY <1>0
<1>2. ToSet(g) = ToSet(h) \cup {c}
  BY <1>0, AppendElements
<1> HIDE DEF g
<1>3. \A n \in 1 .. k : u[n].hop \in {1, 2}
  BY PostAt DEF k
<1>4. ASSUME NEW x \in Procs, NEW y \in Procs, NotBehind(h, u, t, x, y)
      PROVE  NotBehind(g, s, t, x, y)
  <2>1. ASSUME NEW n \in 1 .. Len(g), g[n] = y
        PROVE  \E m \in 1 .. n - 1 : g[m] = x
    <3>1. CASE n \in 1 .. Len(h)
      <4>1. PICK m \in 1 .. n - 1 : h[m] = x
        BY <1>1, <1>4, <2>1, <3>1 DEF NotBehind
      <4> QED BY <1>1, <3>1, <4>1
    <3>2. CASE n = Len(h) + 1
      <4>1. u[1].args = y
        BY <1>1, <2>1, <3>2 DEF c
      <4>2. \A m \in 1 .. k : ~Ahead(u, m, 1)
        BY DEF Ahead
      <4>3. x \in ToSet(h)
        BY <1>0, <1>4, <4>1, <4>2 DEF NotBehind, k
      <4>4. PICK m \in 1 .. Len(h) : h[m] = x
        BY <4>3 DEF ToSet
      <4>5. n - 1 = Len(h)
        BY <1>1, <3>2
      <4> QED BY <1>1, <4>4, <4>5
    <3> QED BY <1>1, <2>1, <3>1, <3>2
  <2>2. ASSUME NEW n \in 1 .. Len(s), s[n].args = y, x \notin ToSet(g)
        PROVE  \E m \in 1 .. Len(s) : s[m].args = x /\ Ahead(s, m, n)
    <3>1. n + 1 \in 1 .. k /\ u[n + 1].args = y /\ s[n] = u[n + 1]
      BY <1>0, <2>2
    <3>2. PICK m \in 1 .. k : u[m].args = x /\ Ahead(u, m, n + 1)
      BY <1>2, <1>4, <2>2, <3>1 DEF NotBehind, k
    <3>3. m # 1
      BY <1>2, <2>2, <3>2 DEF c
    <3>4. m - 1 \in 1 .. Len(s) /\ (m - 1) + 1 = m
      BY <1>0, <3>2, <3>3
    <3>5. s[m - 1] = u[m]
      BY <1>0, <3>4
    <3>6. Ahead(s, m - 1, n)
      BY <3>1, <3>2, <3>4, <3>5 DEF Ahead
    <3> QED BY <3>2, <3>4, <3>5, <3>6
  <2>3. ToSet(h) \cup Args(u) = ToSet(g) \cup Args(s)
    BY <1>0, <1>2
  <2> QED BY <1>4, <2>1, <2>2, <2>3 DEF NotBehind
<1>5. InOrder(a, g, s, t, w)
  BY <1>4 DEF InOrder
<1> QED BY <1>5 DEF g, s, c

-----------------------------------------------------------------------------
(* The steps that move a line *)

\* What the other processes keep when a line that is not theirs is queued or
\* processed.
StillAt(q) ==
  /\ pc'[q] = pc[q] /\ srv'[q] = srv[q] /\ client'[q] = client[q]
  /\ pending'[q] = pending[q] /\ ui'[q] = ui[q] /\ arrival'[q] = arrival[q]

LEMMA Elsewhere ==
  ASSUME TypeOK, NEW q \in Procs, At(q), StillAt(q), NEW c \in Procs,
         handled' = handled \/ (c \notin ToSet(arrival[q]) /\ handled' = Append(handled, c)),
         queued' = queued \/ (c \notin ToSet(arrival[q]) /\ queued' = queued \cup {c})
  PROVE  q \in Good'
<1>1. /\ arrival[q] \in Seq(Procs) /\ handled \in Seq(Procs) /\ ui[q] \in Seq(Posts)
      /\ pending[q] \in Seq(Procs)
  BY DEF TypeOK
<1>2. /\ InHand(q)' = InHand(q) /\ InUi(q)' = InUi(q) /\ Live(q)' = Live(q)
      /\ ToSet(pending[q])' = ToSet(pending[q]) /\ ToSet(arrival[q])' = ToSet(arrival[q])
  BY DEF StillAt, InHand, InUi, Live, ToSet
<1>3. ToSet(handled)' = ToSet(handled)
      \/ (ToSet(handled)' = ToSet(handled) \cup {c} /\ c \notin ToSet(arrival[q]))
  <2>1. ToSet(Append(handled, c)) = ToSet(handled) \cup {c}
    BY <1>1, AppendElements
  <2> QED BY <2>1
<1>4. Kept(q)'
  BY <1>2, <1>3 DEF At, Kept, OnePlace
<1>5. Once(q)'
  BY DEF At, Once, StillAt
<1>6. Newest(q)'
  <2>1. srv[q] \in {"queueing", "calling"} => client[q] \in ToSet(arrival[q])
    BY DEF At, Kept, OnePlace, InHand
  <2>2. pending'[q] = pending[q] /\ srv'[q] = srv[q] /\ client'[q] = client[q]
        /\ arrival'[q] = arrival[q]
    BY DEF StillAt
  <2> QED BY <2>1, <2>2 DEF At, Newest
<1>7. Ordered(q)'
  <2> SUFFICES ASSUME Live(q)
               PROVE  InOrder(arrival[q], handled', ui[q], pending[q], queued')
    BY <1>2 DEF Ordered, StillAt
  <2>1. InOrder(arrival[q], handled, ui[q], pending[q], queued)
    BY DEF At, Ordered
  <2>2. CASE c \notin ToSet(arrival[q])
    <3>1. /\ InOrder(arrival[q], Append(handled, c), ui[q], pending[q], queued)
          /\ InOrder(arrival[q], handled, ui[q], pending[q], queued \cup {c})
      BY <1>1, <2>1, <2>2, OrderOther
    <3>2. InOrder(arrival[q], Append(handled, c), ui[q], pending[q], queued \cup {c})
      BY <1>1, <2>2, <3>1, OrderOther, Append(handled, c) \in Seq(Procs)
    <3> QED BY <2>1, <3>1, <3>2
  <2>3. CASE handled' = handled /\ queued' = queued
    BY <2>1, <2>3
  <2> QED BY <2>2, <2>3
<1> QED BY <1>4, <1>5, <1>6, <1>7 DEF At, Good

\* A line no server had read is in no place.
LEMMA Unread ==
  ASSUME Way, NEW c, \A q \in Procs : c \notin ToSet(arrival[q])
  PROVE  /\ c \notin ToSet(handled) /\ c \notin queued
         /\ \A q \in Procs : c \notin ToSet(pending[q]) /\ c \notin Args(ui[q])
BY UiArgs DEF Way, Good, Apart, At, Kept, OnePlace

LEMMA ReadArgsWay ==
  ASSUME TypeOK, Clients, Reads, MutexInv, Way, NEW p \in Procs, ReadArgs(p)
  PROVE  Way'
<1> DEFINE c == client[p]
<1>1. /\ c \in Procs /\ srv[p] = "reading" /\ srv' = [srv EXCEPT ![p] = srv'[p]]
      /\ srv'[p] \in {"queueing", "calling"} /\ arrival' = [arrival EXCEPT ![p] = Append(@, c)]
      /\ UNCHANGED <<pc, client, pending, ui, handled, queued>>
  BY DEF ReadArgs, Clients, TypeOK, uiVars
<1>2. \A q \in Procs : c \notin ToSet(arrival[q])
  BY <1>1 DEF Reads
<1>3. /\ c \notin ToSet(handled) /\ c \notin queued
      /\ \A q \in Procs : c \notin ToSet(pending[q]) /\ c \notin Args(ui[q])
  BY <1>2, Unread
<1>4. /\ arrival[p] \in Seq(Procs) /\ handled \in Seq(Procs) /\ ui[p] \in Seq(Posts)
      /\ pending[p] \in Seq(Procs) /\ arrival'[p] = Append(arrival[p], c)
      /\ \A q \in Procs \ {p} : StillAt(q)
  BY <1>1 DEF TypeOK, StillAt
<1>5. /\ ToSet(arrival'[p]) = ToSet(arrival[p]) \cup {c}
      /\ IsInjective(arrival[p]) => IsInjective(arrival'[p])
  BY <1>1, <1>2, <1>4, AppendElements
<1>6. At(p)
  BY DEF Way, Good
<1>7. p \in Good'
  <2>1. InHand(p) = {} /\ InHand(p)' = {c} /\ InUi(p)' = InUi(p) /\ Live(p)' = Live(p)
    BY <1>1 DEF InHand, InUi, Live
  <2>2. c \notin InUi(p)
    BY <1>3, UiArgs
  <2>3. OnePlace({c}, ToSet(pending[p]), InUi(p), ToSet(handled), ToSet(arrival'[p]), Live(p))
    BY <1>3, <1>5, <1>6, <2>1, <2>2 DEF At, Kept, OnePlace
  <2>4. Kept(p)'
    BY <1>1, <2>1, <2>3 DEF Kept
  <2>5. Once(p)'
    BY <1>1, <1>5, <1>6 DEF At, Once
  <2>6. Newest(p)'
    <3>1. Append(arrival[p], c) # <<>>
          /\ Append(arrival[p], c)[Len(Append(arrival[p], c))] = c
      BY LastAppended, <1>1, <1>4
    <3> QED BY <1>1, <1>3, <1>4, <1>6, <3>1 DEF At, Newest
  <2>7. Ordered(p)'
    <3>1. ASSUME Live(p)
          PROVE  InOrder(Append(arrival[p], c), handled, ui[p], pending[p], queued)
      BY <1>1, <1>3, <1>4, <1>6, <3>1, OrderRead DEF At, Ordered
    <3> QED BY <1>1, <1>4, <2>1, <3>1 DEF Ordered
  <2> QED BY <2>4, <2>5, <2>6, <2>7 DEF At, Good
<1>8. ASSUME NEW q \in Procs, q # p
      PROVE  q \in Good'
  <2>1. At(q) /\ StillAt(q) /\ UNCHANGED <<handled, queued>>
    BY <1>1, <1>4, <1>8 DEF Way, Good
  <2> QED BY <1>1, <2>1, Elsewhere
<1>9. Apart'
  <2>1. \A q \in Procs : ToSet(arrival[q]) \subseteq ToSet(arrival'[q])
    BY <1>4, <1>5 DEF StillAt
  <2>2. \A q \in Procs \ {p} : ToSet(arrival'[q]) = ToSet(arrival[q]) /\ c \notin ToSet(arrival[q])
    BY <1>2, <1>4 DEF StillAt
  <2>3. \A d \in ToSet(handled') \cup queued' : \E q \in Procs : d \in ToSet(arrival'[q])
    BY <1>1, <2>1 DEF Way, Apart
  <2>4. ASSUME NEW q \in Procs, NEW r \in Procs, q # r
        PROVE  ToSet(arrival'[q]) \cap ToSet(arrival'[r]) = {}
    <3>1. ToSet(arrival[q]) \cap ToSet(arrival[r]) = {}
      BY <2>4 DEF Way, Apart
    <3> QED BY <1>5, <2>2, <2>4, <3>1
  <2> QED BY <1>1, <2>3, <2>4 DEF Way, Apart
<1> QED BY <1>7, <1>8, <1>9 DEF Way, Good

\* A line moves in p: what has been read stays what it was.
LEMMA Moved ==
  ASSUME TypeOK, Way, NEW p \in Procs, NEW c \in Procs, c \in ToSet(arrival[p]),
         UNCHANGED arrival, \A q \in Procs \ {p} : StillAt(q), p \in Good',
         handled' = handled \/ (c \notin ToSet(handled) /\ handled' = Append(handled, c)),
         queued' = queued \/ queued' = queued \cup {c}
  PROVE  Way'
<1>1. \A q \in Procs \ {p} : c \notin ToSet(arrival[q])
  BY DEF Way, Apart
<1>2. ASSUME NEW q \in Procs, q # p
      PROVE  q \in Good'
  <2>1. At(q) /\ StillAt(q) /\ c \notin ToSet(arrival[q])
    BY <1>1, <1>2 DEF Way, Good
  <2> QED BY <2>1, Elsewhere
<1>3. Apart'
  <2>1. handled \in Seq(Procs)
    BY DEF TypeOK
  <2>2. /\ ToSet(Append(handled, c)) = ToSet(handled) \cup {c}
        /\ IsInjective(handled) /\ c \notin ToSet(handled) => IsInjective(Append(handled, c))
    BY <2>1, AppendElements
  <2>3. /\ IsInjective(handled')
        /\ ToSet(handled') \cup queued' \subseteq ToSet(handled) \cup queued \cup {c}
    BY <2>2 DEF Way, Apart
  <2> QED BY <2>3 DEF Way, Apart
<1> QED BY <1>2, <1>3 DEF Way, Good

\* The line in hand: it was read, last, and is nowhere else.
LEMMA InHandOf ==
  ASSUME TypeOK, Clients, Way, NEW p \in Procs, srv[p] \in {"queueing", "calling"}
  PROVE  /\ client[p] \in Procs /\ client[p] \in ToSet(arrival[p]) /\ client[p] \notin queued
         /\ arrival[p] # <<>> /\ arrival[p][Len(arrival[p])] = client[p]
         /\ client[p] \notin ToSet(pending[p]) \cup Args(ui[p]) \cup ToSet(handled)
         /\ Live(p) => ToSet(arrival[p]) \ {client[p]} \subseteq
                         ToSet(handled) \cup Args(ui[p]) \cup ToSet(pending[p])
         /\ InHand(p) = {client[p]} /\ At(p)
<1>1. client[p] \in Procs
  BY DEF Clients, TypeOK
<1>2. At(p) /\ InHand(p) = {client[p]} /\ InUi(p) = Args(ui[p])
  BY UiArgs DEF Way, Good, InHand
<1> QED BY <1>1, <1>2 DEF At, Kept, OnePlace, Newest

LEMMA EnqueueWay ==
  ASSUME TypeOK, Clients, Reads, MutexInv, Way, NEW p \in Procs, Enqueue(p)
  PROVE  Way'
<1> DEFINE c == client[p]
<1>1. /\ srv[p] = "queueing" /\ srv' = [srv EXCEPT ![p] = "opening"]
      /\ client' = [client EXCEPT ![p] = None]
      /\ pending' = [pending EXCEPT ![p] = Append(@, c)] /\ queued' = queued \cup {c}
      /\ UNCHANGED <<pc, arrival, ui, handled>>
  BY DEF Enqueue, NextConnection
<1>2. /\ c \in Procs /\ c \in ToSet(arrival[p]) /\ arrival[p] # <<>>
      /\ arrival[p][Len(arrival[p])] = c
      /\ c \notin ToSet(pending[p]) \cup Args(ui[p]) \cup ToSet(handled)
      /\ Live(p) => ToSet(arrival[p]) \ {c} \subseteq
                      ToSet(handled) \cup Args(ui[p]) \cup ToSet(pending[p])
      /\ InHand(p) = {c} /\ At(p)
  BY <1>1, InHandOf
<1>3. /\ arrival[p] \in Seq(Procs) /\ handled \in Seq(Procs) /\ ui[p] \in Seq(Posts)
      /\ pending[p] \in Seq(Procs) /\ pending'[p] = Append(pending[p], c)
      /\ srv'[p] = "opening" /\ \A q \in Procs \ {p} : StillAt(q)
  BY <1>1 DEF TypeOK, StillAt
<1> HIDE DEF c
<1>4. /\ ToSet(pending'[p]) = ToSet(pending[p]) \cup {c}
      /\ IsInjective(pending[p]) /\ c \notin ToSet(pending[p]) => IsInjective(pending'[p])
  BY <1>2, <1>3, AppendElements
<1>5. p \in Good'
  <2>1. /\ InHand(p)' = {} /\ InUi(p)' = InUi(p) /\ Live(p)' = Live(p)
    BY <1>1, <1>3 DEF InHand, InUi, Live
  <2>2. c \notin InUi(p)
    BY <1>2, UiArgs
  <2>3. OnePlace({}, ToSet(pending'[p]), InUi(p), ToSet(handled), ToSet(arrival[p]), Live(p))
    BY <1>2, <1>4, <2>2 DEF At, Kept, OnePlace
  <2>4. Kept(p)'
    BY <1>1, <2>1, <2>3 DEF Kept
  <2>5. Once(p)'
    BY <1>1, <1>2, <1>4 DEF At, Once
  <2>6. Newest(p)'
    BY <1>1, <1>2, <1>3, <1>4 DEF At, Newest
  <2>7. Ordered(p)'
    <3>1. ASSUME Live(p)
          PROVE  InOrder(arrival[p], handled, ui[p], Append(pending[p], c), queued \cup {c})
      BY <1>2, <1>3, <3>1, OrderEnqueue DEF At, Ordered, Once
    <3> QED BY <1>1, <1>3, <2>1, <3>1 DEF Ordered
  <2> QED BY <2>4, <2>5, <2>6, <2>7 DEF At, Good
<1> QED BY <1>1, <1>2, <1>3, <1>5, Moved

LEMMA CallHandlerWay ==
  ASSUME TypeOK, Clients, Reads, MutexInv, Way, NEW p \in Procs, CallHandler(p)
  PROVE  Way'
<1> DEFINE c == client[p]
           post == [args |-> c, hop |-> 1]
<1>1. /\ srv[p] = "calling" /\ srv' = [srv EXCEPT ![p] = "opening"]
      /\ client' = [client EXCEPT ![p] = None]
      /\ ui' = [ui EXCEPT ![p] = Append(@, post)]
      /\ UNCHANGED <<pc, arrival, pending, handled, queued>>
  BY DEF CallHandler, NextConnection, Post
<1>2. /\ c \in Procs /\ c \in ToSet(arrival[p]) /\ c \notin queued /\ arrival[p] # <<>>
      /\ arrival[p][Len(arrival[p])] = c
      /\ c \notin ToSet(pending[p]) \cup Args(ui[p]) \cup ToSet(handled)
      /\ Live(p) => ToSet(arrival[p]) \ {c} \subseteq
                      ToSet(handled) \cup Args(ui[p]) \cup ToSet(pending[p])
      /\ InHand(p) = {c} /\ At(p)
  BY <1>1, InHandOf
<1>p. post \in Posts /\ post.args = c
  BY <1>2 DEF Posts
<1> HIDE DEF post
<1>3. /\ arrival[p] \in Seq(Procs) /\ handled \in Seq(Procs) /\ ui[p] \in Seq(Posts)
      /\ pending[p] \in Seq(Procs) /\ ui'[p] = Append(ui[p], post)
      /\ srv'[p] = "opening" /\ \A q \in Procs \ {p} : StillAt(q)
  BY <1>1 DEF TypeOK, StillAt
<1> HIDE DEF c
<1>4. /\ Args(ui'[p]) = Args(ui[p]) \cup {c}
      /\ Distinct(ui[p]) /\ c \notin Args(ui[p]) => Distinct(ui'[p])
  BY <1>p, <1>3, AppendPost
<1>5. p \in Good'
  <2>1. /\ InHand(p)' = {} /\ InUi(p) = Args(ui[p]) /\ Live(p)' = Live(p)
        /\ InUi(p)' = Args(ui'[p])
    BY <1>1, <1>3 DEF InHand, InUi, Args, Live
  <2>3. OnePlace({}, ToSet(pending[p]), Args(ui'[p]), ToSet(handled), ToSet(arrival[p]), Live(p))
    BY <1>2, <1>4, <2>1 DEF At, Kept, OnePlace
  <2>4. Kept(p)'
    BY <1>1, <2>1, <2>3 DEF Kept
  <2>5. Once(p)'
    BY <1>1, <1>2, <1>4 DEF At, Once
  <2>6. Newest(p)'
    BY <1>1, <1>2, <1>3, <1>4 DEF At, Newest
  <2>7. Ordered(p)'
    <3>1. ASSUME Live(p)
          PROVE  InOrder(arrival[p], handled, Append(ui[p], post), pending[p], queued)
      BY <1>2, <1>3, <3>1, OrderCall DEF At, Ordered, Once, Newest, post
    <3> QED BY <1>1, <1>3, <2>1, <3>1 DEF Ordered
  <2> QED BY <2>4, <2>5, <2>6, <2>7 DEF At, Good
<1> QED BY <1>1, <1>2, <1>3, <1>5, Moved

LEMMA DrainPendingWay ==
  ASSUME TypeOK, Clients, Reads, MutexInv, Way, NEW p \in Procs, DrainPending(p),
         pending[p] # <<>>
  PROVE  Way'
<1> DEFINE c == Head(pending[p])
           post == [args |-> c, hop |-> 1]
<1>1. /\ pc[p] = "draining" /\ pending' = [pending EXCEPT ![p] = Tail(@)]
      /\ ui' = [ui EXCEPT ![p] = Append(@, post)]
      /\ UNCHANGED <<pc, srv, client, arrival, handled, queued>>
  BY DEF DrainPending, Post, ipcVars
<1>2. At(p)
  BY DEF Way, Good
<1>3. /\ arrival[p] \in Seq(Procs) /\ handled \in Seq(Procs) /\ ui[p] \in Seq(Posts)
      /\ pending[p] \in Seq(Procs) /\ ui'[p] = Append(ui[p], post)
      /\ pending'[p] = Tail(pending[p]) /\ \A q \in Procs \ {p} : StillAt(q)
  BY <1>1 DEF TypeOK, StillAt
<1> HIDE DEF post
<1>4. /\ c \in ToSet(pending[p]) /\ ToSet(pending'[p]) = ToSet(pending[p]) \ {c}
      /\ IsInjective(pending'[p]) /\ c \in Procs
  BY <1>2, <1>3, TailElements DEF At, Once
<1> HIDE DEF c
<1>5. InUi(p) = Args(ui[p]) /\ InUi(p)' = Args(ui'[p])
  BY UiArgs DEF InUi, Args
<1>6. c \notin Args(ui[p]) /\ c \notin ToSet(handled) /\ c \in ToSet(arrival[p])
  BY <1>2, <1>4, <1>5 DEF At, Kept, OnePlace
<1>7. /\ Args(ui'[p]) = Args(ui[p]) \cup {c}
      /\ Distinct(ui[p]) /\ c \notin Args(ui[p]) => Distinct(ui'[p])
  <2>1. post \in Posts /\ post.args = c
    BY <1>4 DEF Posts, post
  <2> QED BY <1>3, <2>1, AppendPost
<1>8. p \in Good'
  <2>1. InHand(p)' = InHand(p) /\ Live(p)' = Live(p)
    BY <1>1 DEF InHand, Live
  <2>2. OnePlace(InHand(p), ToSet(pending'[p]), Args(ui'[p]), ToSet(handled),
                 ToSet(arrival[p]), Live(p))
    BY <1>2, <1>4, <1>5, <1>6, <1>7 DEF At, Kept, OnePlace
  <2>3. Kept(p)'
    BY <1>1, <1>5, <2>1, <2>2 DEF Kept
  <2>4. Once(p)'
    BY <1>1, <1>2, <1>4, <1>6, <1>7 DEF At, Once
  <2>5. Newest(p)'
    BY <1>1, <1>2, <1>4 DEF At, Newest
  <2>6. Ordered(p)'
    <3>1. ASSUME Live(p)
          PROVE  InOrder(arrival[p], handled, Append(ui[p], post), Tail(pending[p]), queued)
      BY <1>2, <1>3, <3>1, OrderDrain DEF At, Ordered, post, c
    <3> QED BY <1>1, <1>3, <2>1, <3>1 DEF Ordered
  <2> QED BY <2>3, <2>4, <2>5, <2>6 DEF At, Good
<1> QED BY <1>1, <1>3, <1>4, <1>6, <1>8, Moved

LEMMA RunPostWay ==
  ASSUME TypeOK, Clients, Reads, MutexInv, Way, NEW p \in Procs, RunPost(p)
  PROVE  Way'
<1> DEFINE c == ui[p][1].args
<1>1. At(p)
  BY DEF Way, Good
<1>2. /\ ui[p] # <<>> /\ UNCHANGED <<pc, srv, client, arrival, pending, queued>>
  BY DEF RunPost, ipcVars
<1>3. /\ arrival[p] \in Seq(Procs) /\ handled \in Seq(Procs) /\ ui[p] \in Seq(Posts)
      /\ pending[p] \in Seq(Procs) /\ \A q \in Procs \ {p} : ui'[q] = ui[q]
  <2>1. \A q \in Procs \ {p} : ui'[q] = ui[q]
    BY DEF RunPost, TypeOK
  <2> QED BY <2>1 DEF TypeOK
<1>4. \A q \in Procs \ {p} : StillAt(q)
  BY <1>2, <1>3 DEF StillAt
<1>5. /\ Tail(ui[p]) \in Seq(Posts) /\ Head(ui[p]) = ui[p][1] /\ ui[p][1] \in Posts
      /\ c \in Args(ui[p]) /\ Args(Tail(ui[p])) = Args(ui[p]) \ {c} /\ Distinct(Tail(ui[p]))
  BY <1>1, <1>2, <1>3, TailPosts DEF At, Once
<1>6. c \in Procs /\ ui[p][1].hop \in {1, 2}
  BY <1>5 DEF Posts
<1>7. InUi(p) = Args(ui[p]) /\ InUi(p)' = Args(ui'[p])
  BY UiArgs DEF InUi, Args
<1>8. c \notin ToSet(handled) /\ c \in ToSet(arrival[p])
  BY <1>1, <1>5, <1>7 DEF At, Kept, OnePlace
<1>9. InHand(p)' = InHand(p) /\ Live(p)' = Live(p)
  BY <1>2 DEF InHand, Live
<1>10. Newest(p)'
  BY <1>1, <1>2 DEF At, Newest
<1>11. CASE ui[p][1].hop = 1
  <2> DEFINE v == Append(Tail(ui[p]), [ui[p][1] EXCEPT !.hop = 2])
  <2>1. ui'[p] = v /\ UNCHANGED handled
    BY <1>3, <1>5, <1>11 DEF RunPost, TypeOK
  <2>2. Args(v) = Args(ui[p]) /\ Distinct(v)
    BY <1>1, <1>2, <1>3, RotatePosts DEF At, Once
  <2>3. Live(p) => InOrder(arrival[p], handled, v, pending[p], queued)
    BY <1>1, <1>2, <1>3, <1>11, OrderRotate DEF At, Once, Ordered
  <2> HIDE DEF v
  <2>4. Kept(p)'
    BY <1>1, <1>2, <1>7, <1>9, <2>1, <2>2 DEF At, Kept
  <2>5. Once(p)' /\ Ordered(p)'
    BY <1>1, <1>2, <1>9, <2>1, <2>2, <2>3 DEF At, Once, Ordered
  <2>6. p \in Good'
    BY <1>10, <2>4, <2>5 DEF At, Good
  <2> QED BY <1>2, <1>4, <1>6, <1>8, <2>1, <2>6, Moved
<1>12. CASE ui[p][1].hop = 2
  <2>1. ui'[p] = Tail(ui[p]) /\ handled' = Append(handled, c)
    BY <1>3, <1>5, <1>12 DEF RunPost, TypeOK
  <2>2. Live(p) => InOrder(arrival[p], Append(handled, c), Tail(ui[p]), pending[p], queued)
    BY <1>1, <1>2, <1>3, <1>12, OrderRun DEF At, Once, Ordered
  <2>3. ToSet(handled') = ToSet(handled) \cup {c}
    BY <1>3, <1>6, <2>1, AppendElements
  <2> HIDE DEF c
  <2>4. OnePlace(InHand(p), ToSet(pending[p]), Args(ui'[p]), ToSet(handled'),
                 ToSet(arrival[p]), Live(p))
    BY <1>1, <1>5, <1>7, <1>8, <2>1, <2>3 DEF At, Kept, OnePlace
  <2>5. Kept(p)'
    BY <1>2, <1>7, <1>9, <2>4 DEF Kept
  <2>6. Once(p)' /\ Ordered(p)'
    BY <1>1, <1>2, <1>5, <1>9, <2>1, <2>2 DEF At, Once, Ordered
  <2>7. p \in Good'
    BY <1>10, <2>5, <2>6 DEF At, Good
  <2> QED BY <1>2, <1>4, <1>6, <1>8, <2>1, <2>7, Moved
<1> QED BY <1>6, <1>11, <1>12

\* What a process that ends had in hand is lost; its window is gone.
LEMMA EndProcessWay ==
  ASSUME TypeOK, MutexInv, Way, NEW p \in Procs, EndProcess(p)
  PROVE  Way'
<1>1. /\ pc'[p] = "gone" /\ srv'[p] = "off" /\ pending'[p] = <<>> /\ ui'[p] = <<>>
      /\ UNCHANGED <<arrival, handled, queued>> /\ \A q \in Procs \ {p} : StillAt(q)
  BY DEF EndProcess, Goto, TypeOK, MutexInv, PcType, StillAt
<1>2. Args(<<>>) = {} /\ Distinct(<<>>) /\ ToSet(<<>>) = {} /\ IsInjective(<<>>)
  BY DEF Args, Distinct, ToSet, IsInjective
<1>3. At(p)
  BY DEF Way, Good
<1>4. InUi(p)' = {} /\ InHand(p)' = {} /\ ~Live(p)'
  BY <1>1, <1>2 DEF InUi, Args, InHand, Live
<1>5. Kept(p)'
  BY <1>1, <1>2, <1>4 DEF Kept, OnePlace
<1>6. Once(p)' /\ Newest(p)' /\ Ordered(p)'
  BY <1>1, <1>2, <1>3, <1>4 DEF At, Once, Newest, Ordered
<1>7. ASSUME NEW q \in Procs, q # p
      PROVE  q \in Good'
  <2>1. At(q) /\ StillAt(q)
    BY <1>1, <1>7 DEF Way, Good
  <2> QED BY <1>1, <2>1, Elsewhere
<1>8. Apart'
  BY <1>1 DEF Way, Apart
<1> QED BY <1>5, <1>6, <1>7, <1>8 DEF Way, At, Good

-----------------------------------------------------------------------------
(* The invariant, and what it says *)

LEMMA InitIInv == Init => IInv
<1> SUFFICES ASSUME Init PROVE IInv
  OBVIOUS
<1>1. MutexInv
  BY InitMutex
<1>2. TypeOK /\ Clients /\ Reads
  <2>1. <<>> \in Seq(Procs) /\ <<>> \in Seq(Posts) /\ ToSet(<<>>) = {}
    BY DEF ToSet
  <2> QED BY <2>1 DEF Init, TypeOK, ServerStages, Clients, Reads, Handed
<1>3. ASSUME NEW p \in Procs
      PROVE  At(p)
  <2>1. Args(<<>>) = {} /\ Distinct(<<>>) /\ ToSet(<<>>) = {} /\ IsInjective(<<>>)
    BY DEF Args, Distinct, ToSet, IsInjective
  <2>2. /\ pc[p] = "off" /\ srv[p] = "off" /\ pending[p] = <<>> /\ ui[p] = <<>>
        /\ arrival[p] = <<>> /\ handled = <<>>
    BY DEF Init
  <2>3. InUi(p) = {} /\ InHand(p) = {} /\ ~Live(p)
    BY <2>1, <2>2, UiArgs DEF InHand, Live
  <2> QED BY <2>1, <2>2, <2>3 DEF At, Kept, OnePlace, Once, Newest, Ordered
<1>4. Apart
  <2>1. ToSet(<<>>) = {} /\ IsInjective(<<>>)
    BY DEF ToSet, IsInjective
  <2> QED BY <2>1 DEF Init, Apart
<1> QED BY <1>1, <1>2, <1>3, <1>4 DEF IInv, Way, Good

LEMMA WayStep ==
  ASSUME IInv, [Next]_vars
  PROVE  Way'
<1> USE DEF IInv
<1>1. ASSUME NEW p \in Procs, ProcStep(p)
      PROVE  Way'
  <2>1. CASE \/ Launch(p) \/ LaunchWithoutMutex(p) \/ ConnectTimeout(p) \/ Send(p)
             \/ \E q \in Procs : Connect(p, q)
             \/ CreatePipe(p) \/ ReadNothing(p) \/ ServerStops(p) \/ SetHandler(p)
             \/ CloseWindow(p) \/ StopServer(p) \/ DisposeMutex(p)
    BY <2>1, QuietLines, SameWay
  <2>2. CASE ReadArgs(p) \/ Enqueue(p) \/ CallHandler(p) \/ RunPost(p)
    BY <2>2, ReadArgsWay, EnqueueWay, CallHandlerWay, RunPostWay
  <2>3. CASE DrainPending(p)
    <3>1. CASE pending[p] # <<>>
      BY <2>3, <3>1, DrainPendingWay
    <3>2. CASE pending[p] = <<>>
      <4>1. SameLines
        BY <2>3, <3>2 DEF DrainPending, SameLines, InHand, Live, Goto, ipcVars, MutexInv, PcType
      <4> QED BY <4>1, SameWay
    <3> QED BY <3>1, <3>2
  <2>4. CASE Exit(p) \/ Crash(p)
    BY <2>4, EndProcessWay DEF Exit, Crash
  <2> QED BY <1>1, <2>1, <2>2, <2>3, <2>4 DEF ProcStep, ServerStep, UiStep
<1>2. CASE UNCHANGED vars
  <2>1. SameLines
    BY <1>2 DEF vars, ipcVars, uiVars, SameLines, InHand, Live
  <2> QED BY <2>1, SameWay
<1> QED BY <1>1, <1>2 DEF Next

LEMMA SpecIInv == Spec => []IInv
<1>1. IInv /\ [Next]_vars => IInv'
  BY NextMutex, TypeStep, ClientsStep, ReadsStep, WayStep DEF IInv
<1> QED BY <1>1, InitIInv, PTL DEF Spec

\* A line read by the server of a window is in one place, for every number of
\* launches and of lines: Pending, the dispatch, the message loop and the
\* processed lines never share one and, until the window closes, never lose one.
THEOREM InstanceConserved == Spec => []Conserved
<1>1. IInv => Conserved
  <2> SUFFICES ASSUME IInv, NEW p \in Procs, Live(p), NEW c \in ToSet(arrival[p])
               PROVE  \E k \in 1 .. 4 :
                        c \in Places(p)[k] /\ \A j \in 1 .. 4 : j # k => c \notin Places(p)[j]
    BY DEF IInv, Way, Apart, Conserved, Live
  <2>1. Kept(p)
    BY DEF IInv, Way, Good, At
  <2>2. /\ Places(p)[1] = InHand(p) /\ Places(p)[2] = ToSet(pending[p])
        /\ Places(p)[3] = InUi(p) /\ Places(p)[4] = ToSet(handled)
    BY DEF Places
  <2>3. \A j \in 1 .. 4 : j = 1 \/ j = 2 \/ j = 3 \/ j = 4
    OBVIOUS
  <2>4. \/ c \in InHand(p) \/ c \in ToSet(pending[p]) \/ c \in InUi(p) \/ c \in ToSet(handled)
    BY <2>1 DEF Kept, OnePlace
  <2>5. CASE c \in InHand(p)
    <3>1. \A j \in 1 .. 4 : j # 1 => c \notin Places(p)[j]
      BY <2>1, <2>2, <2>3, <2>5 DEF Kept, OnePlace
    <3> QED BY <2>2, <2>5, <3>1
  <2>6. CASE c \in ToSet(pending[p])
    <3>1. \A j \in 1 .. 4 : j # 2 => c \notin Places(p)[j]
      BY <2>1, <2>2, <2>3, <2>6 DEF Kept, OnePlace
    <3> QED BY <2>2, <2>6, <3>1
  <2>7. CASE c \in InUi(p)
    <3>1. \A j \in 1 .. 4 : j # 3 => c \notin Places(p)[j]
      BY <2>1, <2>2, <2>3, <2>7 DEF Kept, OnePlace
    <3> QED BY <2>2, <2>7, <3>1
  <2>8. CASE c \in ToSet(handled)
    <3>1. \A j \in 1 .. 4 : j # 4 => c \notin Places(p)[j]
      BY <2>1, <2>2, <2>3, <2>8 DEF Kept, OnePlace
    <3> QED BY <2>2, <2>8, <3>1
  <2> QED BY <2>4, <2>5, <2>6, <2>7, <2>8
<1> QED BY <1>1, SpecIInv, PTL

\* Of two lines its server read the window processes the later one after the
\* earlier, unless only the earlier waited in Pending, whatever the interleaving
\* of the server, the drain of Pending and the two hops of the message loop.
THEOREM InstanceOvertake == Spec => []Overtake
<1>1. IInv => Overtake
  <2> SUFFICES ASSUME IInv, NEW p \in Procs,
                      NEW i \in 1 .. Len(arrival[p]), NEW j \in 1 .. Len(arrival[p]), i < j,
                      arrival[p][j] \in ToSet(handled), pc[p] = "running",
                      ~(arrival[p][i] \in queued /\ arrival[p][j] \notin queued)
               PROVE  arrival[p][i] \in ToSet(handled)
                      /\ Before(arrival[p][i], arrival[p][j], handled)
    BY DEF Overtake
  <2> DEFINE c == arrival[p][i]
             d == arrival[p][j]
  <2>1. handled \in Seq(Procs) /\ IsInjective(handled)
    BY DEF IInv, TypeOK, Way, Apart
  <2>2. NotBehind(handled, ui[p], pending[p], c, d)
    BY DEF IInv, Way, Good, At, Ordered, Live, InOrder
  <2> HIDE DEF c, d
  <2>3. PICK n \in 1 .. Len(handled) : handled[n] = d
    BY <2>1 DEF ToSet, d
  <2>4. PICK m \in 1 .. n - 1 : handled[m] = c
    BY <2>2, <2>3 DEF NotBehind
  <2>5. m \in 1 .. Len(handled) /\ m < n
    BY <2>1, <2>3, <2>4
  <2>6. c \in ToSet(handled) /\ d \in ToSet(handled)
    BY <2>1, <2>3, <2>4, <2>5 DEF ToSet
  <2>7. \A a, b \in 1 .. Len(handled) : handled[a] = handled[b] => a = b
    BY <2>1 DEF IsInjective
  <2>8. Before(c, d, handled)
    BY <2>3, <2>4, <2>5, <2>6, <2>7 DEF Before
  <2> QED BY <2>6, <2>8 DEF c, d
<1> QED BY <1>1, SpecIInv, PTL
=============================================================================
