--------------------------- MODULE UpdaterProofs ---------------------------
(***************************************************************************)
(* Proofs about Updater, for any number of releases, hand builds and       *)
(* troubles: the binary is never missing but within a swap or after one    *)
(* that went wrong, and, if no release is taken back, no install displaces *)
(* a newer one.                                                            *)
(*                                                                         *)
(* Two processes may be checking at once, and only one of them is mid-swap *)
(* unless something untidy has happened (Order): the other finds no binary *)
(* to move aside, and gives up.                                            *)
(***************************************************************************)
EXTENDS Updater, TLAPS

Binaries == [build : 0..Hand, stamp : Nat]
Moved == [build : 1..Hand, stamp : Nat]      \* one that was moved aside
Checks == [at : {"idle", "asked", "newer", "expected", "verified", "aside", "installed",
                 "restart"},
           rel : 0..MaxRelease, sum : 0..MaxRelease, aside : Moved \cup {0}]

Types ==
    /\ latest \in 1..MaxRelease /\ clock \in 1..MaxRelease /\ latest <= clock
    /\ path \in Binaries
    /\ check \in [Updaters -> Checks]
    /\ running \in 0..Hand
    /\ lost \in BOOLEAN /\ untidy \in BOOLEAN
    /\ spent \in [withdrawn : Nat, hand : Nat, trouble : Nat]

Chosen(p) == check[p].at \in {"expected", "verified", "aside"}

\* What a check has in hand from the checksum on, and from the swap's first rename on.
InHand ==
    \A p \in Updaters :
      /\ check[p].sum <= latest \/ MaxWithdrawn # 0
      /\ Chosen(p) => check[p].sum \in Releases
      /\ check[p].at = "aside" => check[p].aside \in Moved

\* A build that is a release is none later than n.
UpTo(b, n) == b \in Releases => b <= n

\* With no release taken back: nothing on the disk is later than the latest, and
\* nothing a check may displace is later than what it will put there.
Order ==
    MaxWithdrawn = 0 =>
      /\ UpTo(path.build, latest)
      /\ \A p \in Updaters : check[p].at = "aside" => UpTo(check[p].aside.build, latest)
      /\ ~untidy => \A p \in Updaters :
           /\ Chosen(p) => UpTo(path.build, check[p].sum)
           /\ check[p].at = "aside" => path.build = 0
           /\ \A q \in Updaters :
                check[p].at = "aside" /\ Chosen(q) =>
                  /\ UpTo(check[p].aside.build, check[q].sum)
                  /\ check[q].at = "aside" => p = q

IInv == Types /\ InHand /\ NeverWithoutBinary /\ Order

-----------------------------------------------------------------------------
LEMMA Constants ==
    /\ MaxRelease \in Nat \ {0} /\ MaxWithdrawn \in Nat /\ MaxHand \in Nat /\ MaxTrouble \in Nat
    /\ Hand \in Nat /\ Hand \notin Releases /\ 0 \notin Releases
    /\ Idle \in Checks /\ Idle.at = "idle" /\ Idle.sum = 0
<1>1. /\ MaxRelease \in Nat \ {0} /\ MaxWithdrawn \in Nat /\ MaxHand \in Nat
      /\ MaxTrouble \in Nat
  BY UpdaterAssumption
<1> QED BY <1>1 DEF Hand, Releases, Idle, Checks

LEMMA InitInv == Init => IInv
<1> SUFFICES ASSUME Init PROVE IInv
  OBVIOUS
<1>1. Types
  <2>1. path \in Binaries
    BY Constants DEF Init, Binaries, Hand, Future
  <2>2. check \in [Updaters -> Checks]
    BY Constants DEF Init
  <2>3. spent \in [withdrawn : Nat, hand : Nat, trouble : Nat]
    BY DEF Init
  <2>4. 1 \in 1..MaxRelease /\ 1 \in 0..Hand
    BY Constants DEF Hand
  <2>5. lost \in BOOLEAN /\ untidy \in BOOLEAN
    BY DEF Init
  <2>6. latest \in 1..MaxRelease /\ clock \in 1..MaxRelease /\ latest <= clock /\ running \in 0..Hand
    BY <2>4 DEF Init
  <2> QED BY <2>1, <2>2, <2>3, <2>5, <2>6 DEF Types
<1>2. \A p \in Updaters : check[p] = Idle
  BY DEF Init
<1>3. path.build = 1 /\ latest = 1
  BY DEF Init
<1> QED BY <1>1, <1>2, <1>3, Constants
    DEF Init, IInv, InHand, NeverWithoutBinary, Order, Chosen, UpTo, Releases

\* A step of a check that chooses nothing new and installs nothing, or that ends it.
LEMMA Quiet ==
    ASSUME IInv, Types', latest' = latest, path'.build = path.build,
           untidy => untidy', lost => lost',
           \A p \in Updaters :
             /\ check'[p].sum \in {0, check[p].sum}
             /\ Chosen(p)' => Chosen(p) /\ check'[p].sum = check[p].sum
             /\ check'[p].at = "aside"
                  => check[p].at = "aside" /\ check'[p].aside = check[p].aside
             /\ check[p].at = "aside" => check'[p].at = "aside" \/ lost'
    PROVE  IInv'
<1>1. InHand'
  BY Constants DEF IInv, InHand, Types
<1>2. NeverWithoutBinary'
  BY DEF IInv, NeverWithoutBinary
<1>3. Order'
  BY DEF IInv, Order, UpTo, Releases
<1> QED BY <1>1, <1>2, <1>3 DEF IInv

\* Asking, comparing, downloading, stamping and giving up.
LEMMA CheckStep ==
    ASSUME IInv, NEW p \in Updaters,
           Latest(p) \/ Compare(p) \/ Download(p) \/ Stamp(p) \/ Fails(p)
    PROVE  IInv'
<1> USE DEF world, service
<1>1. PICK how \in Checks :
        /\ check' = [check EXCEPT ![p] = how]
        /\ how.sum \in {0, check[p].sum}
        /\ how.at \in {"verified"} => Chosen(p) /\ how.sum = check[p].sum
        /\ how.at \notin {"expected", "aside"} /\ check[p].at # "aside"
  <2>1. CASE Latest(p)
    <3>1. Asked \in Checks
      BY Constants DEF IInv, Types, Checks, Asked
    <3> QED BY <2>1, <3>1 DEF Latest, Goes, Asked
  <2>2. CASE Compare(p)
    <3>1. [check[p] EXCEPT !.at = "newer"] \in Checks
      BY DEF IInv, Types, Checks
    <3> QED BY <2>2, <3>1, Constants DEF Compare, Goes, IInv, Types, Checks
  <2>3. CASE Download(p)
    <3>1. [check[p] EXCEPT !.at = "verified"] \in Checks
      BY DEF IInv, Types, Checks
    <3> QED BY <2>3, <3>1, Constants DEF Download, Goes, IInv, Types, Checks, Chosen
  <2>4. CASE Stamp(p)
    <3>1. [Idle EXCEPT !.at = "restart"] \in Checks
      BY Constants DEF Checks, Idle
    <3> QED BY <2>4, <3>1, Constants DEF Stamp, Goes, Idle
  <2>5. CASE Fails(p)
    BY <2>5, Constants DEF Fails, Goes
  <2> QED BY <2>1, <2>2, <2>3, <2>4, <2>5
<1>2. /\ UNCHANGED <<latest, clock, running, lost>>
      /\ untidy' = untidy \/ untidy' = TRUE
      /\ path' = path \/ path' = [path EXCEPT !.stamp = check[p].rel]
      /\ spent' = spent \/ Trouble
  BY DEF Latest, Compare, Download, Stamp, Fails
<1>3. path' \in Binaries /\ path'.build = path.build
  BY <1>2 DEF IInv, Types, Binaries, Checks
<1>4. check' \in [Updaters -> Checks]
  BY <1>1 DEF IInv, Types
<1>5. spent' \in [withdrawn : Nat, hand : Nat, trouble : Nat]
  BY <1>2 DEF IInv, Types, Trouble, Spend
<1>6. untidy' \in BOOLEAN /\ (untidy => untidy')
  <2>1. untidy \in BOOLEAN
    BY DEF IInv, Types
  <2>2. untidy' \in BOOLEAN
    BY <1>2, <2>1, Zenon
  <2> QED BY <1>2, <2>2
<1>7. Types'
  BY <1>2, <1>3, <1>4, <1>5, <1>6 DEF IInv, Types
<1>8. \A q \in Updaters : q # p => check'[q] = check[q]
  BY <1>1 DEF IInv, Types
<1>9. check'[p].sum \in {0, check[p].sum} /\ check'[p].at # "aside" /\ check[p].at # "aside"
      /\ (Chosen(p)' => Chosen(p) /\ check'[p].sum = check[p].sum)
  BY <1>1 DEF IInv, Types, Chosen
<1> QED BY <1>2, <1>3, <1>6, <1>7, <1>8, <1>9, Quiet DEF Chosen

\* `clawdh update` beside a service that could not do it.
LEMMA FallThroughStep == ASSUME IInv, FallThrough PROVE IInv'
<1> USE DEF world, service
<1>1. Asked \in Checks
  BY Constants DEF IInv, Types, Checks, Asked
<1>2. /\ UNCHANGED <<latest, clock, running, lost, untidy, path>> /\ Trouble
      /\ check' = [check EXCEPT !["cli"] = Asked] /\ check["cli"].at = "idle"
  BY DEF FallThrough, Goes
<1>3. spent' \in [withdrawn : Nat, hand : Nat, trouble : Nat]
  BY <1>2 DEF IInv, Types, Trouble, Spend
<1>4. Types'
  BY <1>1, <1>2, <1>3 DEF IInv, Types
<1>5. \A p \in Updaters : check'[p] = IF p = "cli" THEN Asked ELSE check[p]
  BY <1>2 DEF IInv, Types
<1> QED BY <1>2, <1>4, <1>5, Quiet DEF Chosen, Asked

\* A process ends, or is started.
LEMMA ProcessStep ==
    ASSUME IInv, Handover \/ Boot \/ cmdUpdate \/ \E p \in Updaters : Killed(p)
    PROVE  IInv'
<1> USE DEF world, service
<1>1. /\ check' \in [Updaters -> Checks]
      /\ \A p \in Updaters : \/ check'[p] = check[p]
                             \/ check'[p] = Idle /\ (check[p].at = "aside" => lost')
      /\ lost => lost'
      /\ untidy => untidy'
  <2>1. CASE Handover
    BY <2>1, Constants DEF Handover, Goes, Cut, IInv, Types, Updaters
  <2>2. CASE Boot
    BY <2>2 DEF Boot, IInv, Types
  <2>3. CASE cmdUpdate
    <3>1. check' = [p \in Updaters |-> IF p = "cli" \/ running # 0 THEN Idle ELSE check[p]]
          /\ check["cli"].at = "restart"
      BY <2>3 DEF cmdUpdate
    <3>2. (lost => lost') /\ (untidy => untidy')
          /\ (running # 0 /\ check["service"].at = "aside" => lost')
      BY <2>3 DEF cmdUpdate, Cut
    <3> QED BY <3>1, <3>2, Constants DEF IInv, Types, Updaters
  <2>4. CASE \E p \in Updaters : Killed(p)
    <3>1. PICK p \in Updaters : Killed(p)
      BY <2>4
    <3>2. check' = [check EXCEPT ![p] = Idle]
          /\ (lost => lost') /\ (untidy => untidy') /\ (check[p].at = "aside" => lost')
      BY <3>1 DEF Killed, Goes, Cut
    <3> QED BY <3>2, Constants DEF IInv, Types
  <2> QED BY <2>1, <2>2, <2>3, <2>4
<1>2. /\ UNCHANGED <<latest, clock, path>>
      /\ running' \in {running, 0, path.build}
      /\ spent' = spent \/ Trouble
  BY DEF Handover, Boot, cmdUpdate, Killed, respawn
<1>3. spent' \in [withdrawn : Nat, hand : Nat, trouble : Nat]
  BY <1>2 DEF IInv, Types, Trouble, Spend
<1>4. running' \in 0..Hand
  BY <1>2, Constants DEF IInv, Types, Binaries
<1>5. lost' \in BOOLEAN /\ untidy' \in BOOLEAN
  <2>1. lost \in BOOLEAN /\ untidy \in BOOLEAN
    BY DEF IInv, Types
  <2>2. lost' = lost \/ \E p \in Updaters : lost' = (lost \/ check[p].at = "aside")
    BY DEF Handover, Boot, cmdUpdate, Killed, Cut, Updaters
  <2>3. untidy' = untidy
        \/ \E p \in Updaters : untidy' = (untidy \/ check[p].at \in {"installed", "restart"})
    BY DEF Handover, Boot, cmdUpdate, Killed, Cut, Updaters
  <2> QED BY <2>1, <2>2, <2>3, Zenon
<1>6. Types'
  BY <1>1, <1>2, <1>3, <1>4, <1>5 DEF IInv, Types
<1>7. \A p \in Updaters :
        /\ check'[p].sum \in {0, check[p].sum}
        /\ Chosen(p)' => Chosen(p) /\ check'[p].sum = check[p].sum
        /\ check'[p].at = "aside"
             => check[p].at = "aside" /\ check'[p].aside = check[p].aside
        /\ check[p].at = "aside" => check'[p].at = "aside" \/ lost'
  BY <1>1, Constants DEF Chosen
<1> QED BY <1>1, <1>2, <1>6, <1>7, Quiet

-----------------------------------------------------------------------------
\* A release is chosen: the latest one, and nothing on the disk is later.
LEMMA ChecksumStep ==
    ASSUME IInv, NEW p \in Updaters, expectedChecksum(p)
    PROVE  IInv'
<1> USE DEF world, service
<1>1. UNCHANGED <<latest, clock, running, lost, untidy, spent>> /\ check[p].at = "newer"
  BY DEF expectedChecksum
<1>2. CASE check' = [check EXCEPT ![p] = Idle]
           /\ (path' = path \/ path' = [path EXCEPT !.stamp = check[p].rel])
  <2>1. path' \in Binaries /\ path'.build = path.build
    BY <1>2 DEF IInv, Types, Binaries, Checks
  <2>2. Types'
    BY <1>1, <1>2, <2>1, Constants DEF IInv, Types
  <2>3. \A q \in Updaters : check'[q] = IF q = p THEN Idle ELSE check[q]
    BY <1>2 DEF IInv, Types
  <2> QED BY <1>1, <2>1, <2>2, <2>3, Quiet, Constants DEF Chosen
<1>3. CASE /\ check' = [check EXCEPT ![p] = [check[p] EXCEPT !.at = "expected", !.sum = latest]]
           /\ path' = path /\ path.build # 0
  <2>1. /\ check'[p].at = "expected" /\ check'[p].sum = latest /\ check'[p] \in Checks
        /\ \A q \in Updaters : q # p => check'[q] = check[q]
    <3>1. latest \in 0..MaxRelease
      BY Constants DEF IInv, Types
    <3>2. check[p] \in Checks
      BY DEF IInv, Types
    <3>3. [check[p] EXCEPT !.at = "expected", !.sum = latest] \in Checks
      BY <3>1, <3>2 DEF Checks
    <3> QED BY <1>3, <3>2, <3>3 DEF IInv, Types, Checks
  <2>2. Types'
    BY <1>1, <1>3, <2>1 DEF IInv, Types
  <2>3. latest \in Releases
    BY DEF IInv, Types, Releases
  <2>4. InHand'
    BY <1>1, <2>1, <2>3, Constants DEF IInv, InHand, Types, Chosen, Releases
  <2>5. NeverWithoutBinary'
    BY <1>3 DEF NeverWithoutBinary
  <2>6. Order'
    <3>1. ASSUME NEW q \in Updaters PROVE Chosen(q)' /\ q # p => Chosen(q)
      BY <2>1 DEF Chosen
    <3> QED BY <1>1, <1>3, <2>1, <3>1 DEF IInv, Order, Chosen
  <2> QED BY <2>2, <2>4, <2>5, <2>6 DEF IInv
<1> QED BY <1>2, <1>3 DEF expectedChecksum, Goes

\* The new binary comes to the path: by one rename, or by the second of two.
LEMMA InstallStep ==
    ASSUME IInv, NEW p \in Updaters, Rename(p) \/ MoveIn(p)
    PROVE  IInv'
<1> USE DEF world, service
<1>1. /\ UNCHANGED <<latest, clock, running, lost, spent>>
      /\ Chosen(p) /\ check[p].sum \in Releases
      /\ path' = [build |-> check[p].sum, stamp |-> clock]
      /\ untidy' = (untidy \/ check[Other(p)].at # "idle")
  BY DEF Rename, MoveIn, Met, IInv, InHand, Chosen
<1>2. /\ check'[p].at = "installed" /\ check'[p].sum = check[p].sum /\ check'[p] \in Checks
      /\ check' \in [Updaters -> Checks]
      /\ \A q \in Updaters : q # p => check'[q] = check[q]
  <2>1. CASE Rename(p)
    <3>1. [check[p] EXCEPT !.at = "installed"] \in Checks
      BY DEF IInv, Types, Checks
    <3> QED BY <2>1, <3>1 DEF Rename, Goes, IInv, Types, Checks
  <2>2. CASE MoveIn(p)
    <3>1. check' = [check EXCEPT ![p].at = "installed", ![p].aside = 0]
      BY <2>2 DEF MoveIn, Goes, IInv, Types, Checks
    <3>2. /\ check \in [Updaters -> Checks] /\ check[p] \in Checks
      BY DEF IInv, Types
    <3>3. [check[p] EXCEPT !.at = "installed", !.aside = 0] \in Checks
      BY <3>2 DEF Checks
    <3> QED BY <3>1, <3>2, <3>3 DEF Checks
  <2> QED BY <2>1, <2>2
<1>3. ~untidy' => ~untidy /\ \A q \in Updaters : ~Chosen(q)'
  BY <1>1, <1>2 DEF Chosen, Other, Updaters
<1>4. path' \in Binaries
  BY <1>1, Constants DEF IInv, Types, Binaries, Releases, Hand
<1>5. untidy' \in BOOLEAN
  <2>1. untidy \in BOOLEAN
    BY DEF IInv, Types
  <2> QED BY <1>1, <2>1, Zenon
<1>6. Types'
  BY <1>1, <1>2, <1>4, <1>5 DEF IInv, Types
<1>7. InHand'
  BY <1>1, <1>2 DEF IInv, InHand, Chosen
<1>8. NeverWithoutBinary'
  BY <1>1, Constants DEF NeverWithoutBinary
<1>9. Order'
  <2>1. MaxWithdrawn = 0 => UpTo(path.build, latest)'
    BY <1>1 DEF IInv, InHand, UpTo
  <2>2. MaxWithdrawn = 0 =>
          \A q \in Updaters : check'[q].at = "aside" => UpTo(check'[q].aside.build, latest')
    BY <1>1, <1>2 DEF IInv, Order
  <2>3. ~untidy' => \A q \in Updaters : ~Chosen(q)' /\ check'[q].at # "aside"
    BY <1>3 DEF Chosen
  <2> QED BY <2>1, <2>2, <2>3 DEF Order, UpTo
<1> QED BY <1>6, <1>7, <1>8, <1>9 DEF IInv

\* The running binary is moved aside, by one process only.
LEMMA MoveAsideStep ==
    ASSUME IInv, NEW p \in Updaters, MoveAside(p)
    PROVE  IInv'
<1> USE DEF world, service
<1>1. /\ UNCHANGED <<latest, clock, running, lost, untidy, spent>>
      /\ check[p].at = "verified" /\ Chosen(p)
  BY DEF MoveAside, Chosen
<1>2. CASE path.build = 0
  <2>1. path' = path /\ check' = [check EXCEPT ![p] = Idle]
    BY <1>2 DEF MoveAside, Goes
  <2>2. Types'
    BY <1>1, <2>1, Constants DEF IInv, Types
  <2>3. \A q \in Updaters : check'[q] = IF q = p THEN Idle ELSE check[q]
    BY <2>1 DEF IInv, Types
  <2> QED BY <1>1, <2>1, <2>2, <2>3, Quiet, Constants DEF Chosen
<1>3. CASE path.build # 0
  <2>1. /\ path' = [build |-> 0, stamp |-> 0]
        /\ check' = [check EXCEPT ![p] = [check[p] EXCEPT !.at = "aside", !.aside = path]]
    BY <1>3 DEF MoveAside, Goes
  <2>2. path \in Moved
    BY <1>3, Constants DEF IInv, Types, Binaries, Moved
  <2>3. /\ check'[p].at = "aside" /\ check'[p].aside = path
        /\ check'[p].sum = check[p].sum /\ check'[p] \in Checks
        /\ \A q \in Updaters : q # p => check'[q] = check[q]
    BY <2>1, <2>2 DEF IInv, Types, Checks
  <2>4. Types'
    <3>1. path' \in Binaries
      BY <2>1, Constants DEF Binaries
    <3> QED BY <1>1, <2>1, <2>3, <3>1 DEF IInv, Types
  <2>5. InHand'
    BY <1>1, <2>2, <2>3 DEF IInv, InHand, Chosen
  <2>6. NeverWithoutBinary'
    BY <2>3 DEF NeverWithoutBinary
  <2>7. Order'
    <3>1. \A q \in Updaters : Chosen(q)' => Chosen(q) /\ check'[q].sum = check[q].sum
      BY <1>1, <2>3 DEF Chosen
    <3>2. MaxWithdrawn = 0 /\ ~untidy =>
            \A q \in Updaters : check[q].at # "aside" /\ (Chosen(q) => UpTo(path.build, check[q].sum))
      BY <1>3 DEF IInv, Order
    <3>3. path'.build = 0 /\ \A n : UpTo(0, n)
      BY <2>1, Constants DEF UpTo
    <3>4. MaxWithdrawn = 0 =>
            \A q \in Updaters : check'[q].at = "aside" => UpTo(check'[q].aside.build, latest')
      BY <1>1, <2>3 DEF IInv, Order
    <3>5. MaxWithdrawn = 0 /\ ~untidy =>
            \A q, r \in Updaters :
               check'[q].at = "aside" /\ Chosen(r)' =>
                 /\ UpTo(check'[q].aside.build, check'[r].sum)
                 /\ check'[r].at = "aside" => q = r
      BY <2>3, <3>1, <3>2
    <3> QED BY <1>1, <3>3, <3>4, <3>5 DEF Order
  <2> QED BY <2>4, <2>5, <2>6, <2>7 DEF IInv
<1> QED BY <1>2, <1>3

\* The swap is undone, or left where it is.
LEMMA MoveInFailsStep ==
    ASSUME IInv, NEW p \in Updaters, MoveInFails(p)
    PROVE  IInv'
<1> USE DEF world, service
<1>1. /\ UNCHANGED <<latest, clock, running, untidy>> /\ Trouble
      /\ check[p].at = "aside" /\ Chosen(p) /\ check' = [check EXCEPT ![p] = Idle]
      /\ check[p].aside \in Moved
  BY DEF MoveInFails, Goes, Chosen, IInv, InHand
<1>2. \A q \in Updaters : check'[q] = IF q = p THEN Idle ELSE check[q]
  BY <1>1 DEF IInv, Types
<1>3. spent' \in [withdrawn : Nat, hand : Nat, trouble : Nat]
  BY <1>1 DEF IInv, Types, Trouble, Spend
<1>4. check' \in [Updaters -> Checks]
  BY <1>1, Constants DEF IInv, Types
<1>5. CASE path' = path /\ lost' = TRUE
  <2>1. Types'
    BY <1>1, <1>3, <1>4, <1>5 DEF IInv, Types
  <2> QED BY <1>1, <1>2, <1>5, <2>1, Quiet, Constants DEF Chosen
<1>6. CASE path' = check[p].aside /\ lost' = lost
  <2>1. path' \in Binaries /\ path'.build # 0
    BY <1>1, <1>6, Constants DEF Moved, Binaries
  <2>2. Types'
    BY <1>1, <1>3, <1>4, <1>6, <2>1 DEF IInv, Types
  <2>3. InHand'
    BY <1>1, <1>2, Constants DEF IInv, InHand, Types, Chosen
  <2>4. NeverWithoutBinary'
    BY <2>1 DEF NeverWithoutBinary
  <2>5. Order'
    <3>1. \A q \in Updaters :
            /\ Chosen(q)' => Chosen(q) /\ q # p /\ check'[q] = check[q]
            /\ check'[q].at = "aside" => check[q].at = "aside" /\ q # p /\ check'[q] = check[q]
      BY <1>2, Constants DEF Chosen
    <3>2. MaxWithdrawn = 0 => UpTo(path'.build, latest')
      BY <1>1, <1>6 DEF IInv, Order
    <3>3. MaxWithdrawn = 0 /\ ~untidy =>
            \A q \in Updaters :
               Chosen(q) => /\ UpTo(path'.build, check[q].sum)
                            /\ check[q].at = "aside" => q = p
      BY <1>1, <1>6 DEF IInv, Order
    <3>4. \A q \in Updaters : check[q].at = "aside" => Chosen(q)
      BY DEF Chosen
    <3>5. MaxWithdrawn = 0 =>
            \A q \in Updaters : check'[q].at = "aside" => UpTo(check'[q].aside.build, latest')
      BY <1>1, <3>1 DEF IInv, Order
    <3>6. MaxWithdrawn = 0 /\ ~untidy => \A q \in Updaters : check'[q].at # "aside"
      <4> SUFFICES ASSUME MaxWithdrawn = 0, ~untidy, NEW q \in Updaters,
                          check'[q].at = "aside"
                   PROVE  FALSE
        OBVIOUS
      <4>1. check[q].at = "aside" /\ q # p
        BY <3>1
      <4> QED BY <4>1, <3>3, <3>4
    <3>7. MaxWithdrawn = 0 /\ ~untidy =>
            \A q \in Updaters : Chosen(q)' => UpTo(path'.build, check'[q].sum)
      <4> SUFFICES ASSUME MaxWithdrawn = 0, ~untidy, NEW q \in Updaters, Chosen(q)'
                   PROVE  UpTo(path'.build, check'[q].sum)
        OBVIOUS
      <4>1. Chosen(q) /\ check'[q] = check[q]
        BY <3>1
      <4> QED BY <4>1, <3>3
    <3> QED BY <1>1, <3>2, <3>5, <3>6, <3>7 DEF Order
  <2> QED BY <2>2, <2>3, <2>4, <2>5 DEF IInv
<1> QED BY <1>5, <1>6 DEF MoveInFails

\* What is published and taken back, and what a person builds.
LEMMA WorldStep == ASSUME IInv, Publish \/ Withdraw \/ HandBuild PROVE IInv'
<1> USE DEF world, service
<1>1. CASE Publish \/ Withdraw
  <2>1. /\ UNCHANGED <<path, check, running, lost, untidy>>
        /\ latest' \in 1..MaxRelease /\ clock' \in 1..MaxRelease /\ latest' <= clock'
        /\ MaxWithdrawn = 0 => latest' >= latest
    BY <1>1, Constants DEF Publish, Withdraw, Spend, IInv, Types
  <2>2. spent' \in [withdrawn : Nat, hand : Nat, trouble : Nat]
    BY <1>1 DEF Publish, Withdraw, IInv, Types, Spend
  <2>3. Types'
    BY <2>1, <2>2 DEF IInv, Types
  <2>4. InHand' /\ NeverWithoutBinary'
    BY <2>1, Constants DEF IInv, InHand, NeverWithoutBinary, Chosen, Types, Checks
  <2>5. Order'
    BY <2>1, Constants DEF IInv, Order, Chosen, UpTo, Types, Releases
  <2> QED BY <2>3, <2>4, <2>5 DEF IInv
<1>2. CASE HandBuild
  <2>1. /\ UNCHANGED <<latest, clock, check, running, lost>>
        /\ path' = [build |-> Hand, stamp |-> clock]
        /\ untidy' = (untidy \/ \E p \in Updaters : check[p].at # "idle")
    BY <1>2 DEF HandBuild
  <2>2. spent' \in [withdrawn : Nat, hand : Nat, trouble : Nat]
    BY <1>2 DEF HandBuild, IInv, Types, Spend
  <2>3. path' \in Binaries /\ path'.build = Hand /\ Hand # 0
    BY <2>1, Constants DEF IInv, Types, Binaries, Hand
  <2>4. untidy' \in BOOLEAN
    <3>1. untidy \in BOOLEAN
      BY DEF IInv, Types
    <3> QED BY <2>1, <3>1, Zenon
  <2>5. Types'
    BY <2>1, <2>2, <2>3, <2>4 DEF IInv, Types
  <2>6. InHand' /\ NeverWithoutBinary'
    BY <2>1, <2>3 DEF IInv, InHand, NeverWithoutBinary, Chosen
  <2>7. ~untidy' => \A p \in Updaters : check'[p].at = "idle"
    BY <2>1
  <2>8. Order'
    BY <2>1, <2>3, <2>7, Constants DEF IInv, Order, Chosen, UpTo
  <2> QED BY <2>5, <2>6, <2>8 DEF IInv
<1> QED BY <1>1, <1>2

-----------------------------------------------------------------------------
LEMMA StepInv == IInv /\ [Next]_vars => IInv'
<1> SUFFICES ASSUME IInv, [Next]_vars PROVE IInv'
  OBVIOUS
<1>1. CASE Publish \/ Withdraw \/ HandBuild
  BY <1>1, WorldStep
<1>2. ASSUME NEW p \in Updaters,
             \/ Latest(p) \/ Compare(p) \/ Download(p) \/ Stamp(p) \/ Fails(p)
             \/ expectedChecksum(p) \/ Rename(p) \/ MoveIn(p)
             \/ MoveAside(p) \/ MoveInFails(p)
      PROVE  IInv'
  BY <1>2, CheckStep, ChecksumStep, InstallStep, MoveAsideStep, MoveInFailsStep
<1>3. CASE Handover \/ Boot \/ cmdUpdate \/ \E p \in Updaters : Killed(p)
  BY <1>3, ProcessStep
<1>4. CASE FallThrough
  BY <1>4, FallThroughStep
<1>5. CASE UNCHANGED vars
  <2>1. Types' /\ InHand'
    BY <1>5 DEF IInv, vars, world, service, Types, InHand, Chosen
  <2>2. NeverWithoutBinary' /\ Order'
    BY <1>5 DEF IInv, vars, world, service, NeverWithoutBinary, Order, Chosen
  <2> QED BY <2>1, <2>2 DEF IInv
<1> QED BY <1>1, <1>2, <1>3, <1>4, <1>5 DEF Next, Steps

LEMMA Invariant == Spec => []IInv
<1> QED BY InitInv, StepInv, PTL DEF Spec

\* Whatever two processes do to the binary at once, and wherever either is killed, it is
\* missing only within a swap or after one that went wrong (replace_windows.go).
THEOREM BinaryKept == Spec => []NeverWithoutBinary
<1>1. IInv => NeverWithoutBinary
  BY DEF IInv
<1> QED BY <1>1, Invariant, PTL

\* "Nothing is replaced by something older than what is running" (updater.go:15), as long
\* as no release is taken back: what a check found newer, still is when it is installed,
\* or the install shows as untidy.
THEOREM NothingOlderUnlessTakenBack == MaxWithdrawn = 0 => (Spec => NothingOlder)
<1> SUFFICES ASSUME MaxWithdrawn = 0 PROVE Spec => NothingOlder
  OBVIOUS
<1>1. ASSUME IInv, [Next]_vars, NEW p \in Updaters,
             check[p].at # "installed", check'[p].at = "installed", ~untidy',
             Displaced(p) \in Releases
      PROVE  path'.build >= Displaced(p)
  <2>1. ASSUME NEW q \in Updaters,
               \/ Latest(q) \/ Compare(q) \/ Download(q) \/ Stamp(q) \/ Fails(q)
               \/ expectedChecksum(q) \/ MoveAside(q) \/ MoveInFails(q) \/ Killed(q)
        PROVE  check'[p].at # "installed"
    <3>1. CASE UNCHANGED check
      BY <1>1, <3>1
    <3>2. CASE \E how : check' = [check EXCEPT ![q] = how] /\ how.at # "installed"
      BY <1>1, <3>2 DEF IInv, Types
    <3>3. Asked.at # "installed" /\ Idle.at # "installed"
          /\ [Idle EXCEPT !.at = "restart"].at # "installed"
      BY Constants DEF Asked, Idle
    <3>4. check[q] \in Checks
      BY <1>1 DEF IInv, Types
    <3>5. CASE Latest(q) \/ Stamp(q) \/ Fails(q) \/ MoveInFails(q) \/ Killed(q)
      BY <3>2, <3>3, <3>5 DEF Latest, Stamp, Fails, MoveInFails, Killed, Goes
    <3>6. CASE Compare(q) \/ Download(q)
      BY <3>2, <3>3, <3>4, <3>6 DEF Compare, Download, Goes, Checks
    <3>7. CASE expectedChecksum(q) \/ MoveAside(q)
      <4>1. /\ [check[q] EXCEPT !.at = "expected", !.sum = latest].at # "installed"
            /\ [check[q] EXCEPT !.at = "aside", !.aside = path].at # "installed"
        BY <3>4 DEF Checks
      <4>2. CASE expectedChecksum(q)
        BY <3>2, <3>3, <4>1, <4>2 DEF expectedChecksum, Goes
      <4>3. CASE MoveAside(q)
        BY <3>2, <3>3, <4>1, <4>3 DEF MoveAside, Goes
      <4> QED BY <3>7, <4>2, <4>3
    <3> QED BY <2>1, <3>5, <3>6, <3>7
  <2>2. CASE FallThrough \/ Handover \/ cmdUpdate
    BY <1>1, <2>2, Constants DEF IInv, Types, FallThrough, Handover, cmdUpdate, Goes, Asked
  <2>3. CASE Publish \/ Withdraw \/ HandBuild \/ Boot \/ UNCHANGED vars
    BY <1>1, <2>3 DEF Publish, Withdraw, HandBuild, Boot, vars
  <2>4. ASSUME NEW q \in Updaters, Rename(q) \/ MoveIn(q)
        PROVE  path'.build >= Displaced(p)
    <3>1. p = q
      BY <1>1, <2>4 DEF IInv, Types, Rename, MoveIn, Goes
    <3>2. path'.build = check[p].sum /\ Chosen(p) /\ ~untidy
      <4>1. path'.build = check[p].sum /\ Chosen(p)
        BY <2>4, <3>1 DEF Rename, MoveIn, Chosen
      <4>2. untidy => untidy'
        BY <2>4 DEF Rename, MoveIn, Met
      <4> QED BY <1>1, <4>1, <4>2
    <3>3. UpTo(Displaced(p), check[p].sum)
      BY <1>1, <3>2 DEF IInv, Order, Displaced
    <3>4. check[p].sum \in Releases
      BY <1>1, <3>2 DEF IInv, InHand
    <3> QED BY <1>1, <3>2, <3>3, <3>4, Constants DEF UpTo, Releases
  <2> QED BY <1>1, <2>1, <2>2, <2>3, <2>4 DEF Next, Steps
<1>2. IInv /\ [Next]_vars =>
        [\A p \in Updaters :
           check[p].at # "installed" /\ check'[p].at = "installed" /\ ~untidy'
             /\ Displaced(p) \in Releases
           => path'.build >= Displaced(p)]_vars
  BY <1>1
<1> QED BY <1>2, Invariant, PTL DEF Spec, NothingOlder
-----------------------------------------------------------------------------
(* No install is forgotten.                                                *)

\* The service is about to be restarted, or an install went wrong.
RestartDue ==
    \/ handing \/ untidy \/ lost
    \/ check["cli"].at = "restart" \/ \E p \in Updaters : check[p].at = "installed"

\* One swap at a time, while nothing untidy has happened.
OneSwap ==
    ~untidy => \A p \in Updaters : check[p].at = "aside" =>
                 path.build = 0 /\ \A q \in Updaters : check[q].at = "aside" => p = q

\* A service no restart is due for runs what is installed, or what a swap under way would
\* put back, or a person put a build of their own beside it.
UpToDate ==
    ~RestartDue /\ running # 0 =>
      /\ path.build \in {0, running, Hand}
      /\ \A p \in Updaters : check[p].at = "aside" => check[p].aside.build \in {running, Hand}

\* A step that installs nothing and forgets no restart.
LEMMA DueStays ==
    ASSUME OneSwap, UpToDate, RestartDue => RestartDue', untidy => untidy',
           running' = running, path'.build = path.build,
           \A p \in Updaters : check'[p].at = "aside" =>
               check[p].at = "aside" /\ check'[p].aside = check[p].aside
    PROVE  OneSwap' /\ UpToDate'
BY DEF OneSwap, UpToDate

\* A step of one updater's check.
LEMMA CheckUpToDate ==
    ASSUME IInv, OneSwap, UpToDate, NEW p \in Updaters,
           \/ Latest(p) \/ Compare(p) \/ Download(p) \/ Fails(p) \/ expectedChecksum(p)
           \/ Stamp(p) \/ (p = "cli" /\ FallThrough)
    PROVE  OneSwap' /\ UpToDate'
<1> USE DEF world, service
<1>1. PICK how :
        /\ check' = [check EXCEPT ![p] = how]
        /\ how.at # "aside" /\ check[p].at \notin {"aside", "restart"}
        /\ check[p].at = "installed" => Stamp(p) /\ (p = "cli" => how.at = "restart")
  <2>1. CASE Latest(p) \/ (p = "cli" /\ FallThrough)
    BY <2>1 DEF Latest, FallThrough, Goes, Asked
  <2>2. CASE Compare(p) \/ Download(p) \/ expectedChecksum(p)
    <3>1. check[p] \in Checks
      BY DEF IInv, Types
    <3>2. \A at \in {"newer", "verified"} : [check[p] EXCEPT !.at = at].at = at
      BY <3>1 DEF Checks
    <3>3. [check[p] EXCEPT !.at = "expected", !.sum = latest].at = "expected"
      BY <3>1 DEF Checks
    <3> QED BY <2>2, <3>2, <3>3, Constants DEF Compare, Download, expectedChecksum, Goes
  <2>3. CASE Fails(p)
    BY <2>3, Constants DEF Fails, Goes
  <2>4. CASE Stamp(p)
    <3>1. [Idle EXCEPT !.at = "restart"].at = "restart"
      BY DEF Idle
    <3>2. CASE p = "cli"
      BY <2>4, <3>1, <3>2 DEF Stamp, Goes
    <3>3. CASE p # "cli"
      BY <2>4, <3>3, Constants DEF Stamp, Goes
    <3> QED BY <3>2, <3>3
  <2> QED BY <2>1, <2>2, <2>3, <2>4
<1>2. /\ running' = running /\ lost' = lost
      /\ path' = path \/ path' = [path EXCEPT !.stamp = check[p].rel]
      /\ untidy => untidy'
      /\ handing => handing'
      /\ (Stamp(p) /\ p = "service") => handing'
  <2>1. CASE ~Stamp(p)
    BY <2>1 DEF Latest, Compare, Download, Fails, expectedChecksum, FallThrough
  <2>2. CASE Stamp(p)
    <3>1. handing' = (handing \/ p = "service") /\ UNCHANGED <<running, lost>>
      BY <2>2 DEF Stamp
    <3>2. /\ path' = path \/ path' = [path EXCEPT !.stamp = check[p].rel]
          /\ untidy => untidy'
      BY <2>2 DEF Stamp
    <3> QED BY <3>1, <3>2
  <2> QED BY <2>1, <2>2
<1>3. \A q \in Updaters : check'[q] = IF q = p THEN how ELSE check[q]
  BY <1>1 DEF IInv, Types
<1>4. RestartDue => RestartDue'
  BY <1>1, <1>2, <1>3 DEF RestartDue, Updaters
<1>5. path'.build = path.build
  BY <1>2 DEF IInv, Types, Binaries
<1> QED BY <1>1, <1>2, <1>3, <1>4, <1>5, DueStays

\* Processes end and start: what starts is what is there.
LEMMA ProcessUpToDate ==
    ASSUME IInv, OneSwap, UpToDate,
           Handover \/ Boot \/ cmdUpdate \/ \E p \in Updaters : Killed(p)
    PROVE  OneSwap' /\ UpToDate'
<1> USE DEF world, service
<1>1. /\ path' = path /\ (untidy => untidy') /\ (lost => lost')
      /\ \A p \in Updaters : check'[p] = check[p] \/ check'[p] = Idle
  <2>1. CASE Handover \/ Boot
    BY <2>1 DEF Handover, Boot, Goes, Cut, IInv, Types
  <2>2. CASE cmdUpdate
    BY <2>2 DEF cmdUpdate, Cut
  <2>3. CASE \E p \in Updaters : Killed(p)
    BY <2>3 DEF Killed, Goes, Cut, IInv, Types
  <2> QED BY <2>1, <2>2, <2>3
<1>2. OneSwap'
  BY <1>1, Constants DEF OneSwap
<1>3. CASE running' = path.build
  <2>1. SUFFICES ASSUME ~untidy', running' # 0 PROVE UpToDate'
    BY <1>2 DEF UpToDate, RestartDue
  <2>2. \A p \in Updaters : check'[p].at # "aside"
    BY <1>1, <1>3, <2>1, Constants DEF OneSwap
  <2> QED BY <1>1, <1>3, <2>2 DEF UpToDate
<1>4. CASE running' = 0
  BY <1>2, <1>4 DEF UpToDate
<1>5. CASE Killed("cli")
  <2>1. /\ UNCHANGED <<running, handing>>
        /\ check' = [check EXCEPT !["cli"] = Idle]
        /\ untidy' = (untidy \/ check["cli"].at \in {"installed", "restart"})
    BY <1>5 DEF Killed, Goes, Cut
  <2>2. RestartDue => RestartDue'
    BY <1>1, <2>1 DEF RestartDue, IInv, Types
  <2> QED BY <1>1, <2>1, <2>2, DueStays, Constants
<1>6. running' \in {path.build, 0} \/ Killed("cli")
  BY DEF Handover, Boot, cmdUpdate, Killed, respawn, Updaters
<1> QED BY <1>2, <1>3, <1>4, <1>5, <1>6

\* The swap, and a person's own build.
LEMMA SwapUpToDate ==
    ASSUME IInv, OneSwap, UpToDate,
           \/ \E p \in Updaters : Rename(p) \/ MoveIn(p) \/ MoveAside(p) \/ MoveInFails(p)
           \/ HandBuild
    PROVE  OneSwap' /\ UpToDate'
<1> USE DEF world, service
<1>1. ASSUME NEW p \in Updaters, Rename(p) \/ MoveIn(p) PROVE OneSwap' /\ UpToDate'
  <2>1. check'[p].at = "installed"
    <3>1. check[p] \in Checks
      BY DEF IInv, Types
    <3>2. [check[p] EXCEPT !.at = "installed"].at = "installed"
          /\ [check[p] EXCEPT !.at = "installed", !.aside = 0].at = "installed"
      BY <3>1 DEF Checks
    <3> QED BY <1>1, <3>2 DEF Rename, MoveIn, Goes, IInv, Types
  <2>2. ~untidy' => check[Other(p)].at = "idle"
    BY <1>1 DEF Rename, MoveIn, Met
  <2>3. \A q \in Updaters : q # p => check'[q] = check[q] /\ q = Other(p)
    BY <1>1 DEF Rename, MoveIn, Goes, IInv, Types, Updaters, Other
  <2> QED BY <2>1, <2>2, <2>3 DEF OneSwap, UpToDate, RestartDue
<1>2. ASSUME NEW p \in Updaters, MoveAside(p) PROVE OneSwap' /\ UpToDate'
  <2>1. UNCHANGED <<running, handing, untidy, lost>> /\ check[p].at = "verified"
    BY <1>2 DEF MoveAside
  <2>2. check[p] \in Checks
    BY DEF IInv, Types
  <2>3. CASE path.build = 0
    <3>1. path' = path /\ check' = [check EXCEPT ![p] = Idle]
      BY <1>2, <2>3 DEF MoveAside, Goes
    <3>2. RestartDue => RestartDue'
      BY <2>1, <3>1 DEF RestartDue, IInv, Types
    <3> QED BY <2>1, <3>1, <3>2, DueStays, Constants DEF IInv, Types
  <2>4. CASE path.build # 0
    <3>1. /\ path' = [build |-> 0, stamp |-> 0]
          /\ check' = [check EXCEPT ![p] = [check[p] EXCEPT !.at = "aside", !.aside = path]]
      BY <1>2, <2>4 DEF MoveAside, Goes
    <3>2. check'[p].at = "aside" /\ check'[p].aside = path
      BY <2>2, <3>1 DEF IInv, Types, Checks
    <3>3. \A q \in Updaters : q # p => check'[q] = check[q]
      BY <3>1 DEF IInv, Types
    <3>4. ~untidy => \A q \in Updaters : check[q].at # "aside"
      BY <2>4 DEF OneSwap
    <3>5. OneSwap'
      BY <2>1, <3>1, <3>2, <3>3, <3>4 DEF OneSwap
    <3>6. RestartDue => RestartDue'
      BY <2>1, <3>2, <3>3 DEF RestartDue, Updaters
    <3>7. UpToDate'
      BY <2>1, <2>4, <3>1, <3>2, <3>3, <3>6 DEF UpToDate
    <3> QED BY <3>5, <3>7
  <2> QED BY <2>3, <2>4
<1>3. ASSUME NEW p \in Updaters, MoveInFails(p) PROVE OneSwap' /\ UpToDate'
  <2>1. /\ UNCHANGED <<running, handing, untidy>> /\ check[p].at = "aside"
        /\ check' = [check EXCEPT ![p] = Idle]
        /\ (path' = check[p].aside /\ lost' = lost) \/ (path' = path /\ lost')
    BY <1>3 DEF MoveInFails, Goes
  <2>2. \A q \in Updaters : check'[q] = IF q = p THEN Idle ELSE check[q]
    BY <2>1 DEF IInv, Types
  <2>3. ~untidy => \A q \in Updaters : check'[q].at # "aside"
    BY <2>1, <2>2, Constants DEF OneSwap
  <2>4. lost' = lost => (RestartDue => RestartDue')
    BY <2>1, <2>2 DEF RestartDue, Updaters
  <2>5. lost' => RestartDue'
    BY DEF RestartDue
  <2>6. untidy' => RestartDue'
    BY DEF RestartDue
  <2> QED BY <2>1, <2>2, <2>3, <2>4, <2>5, <2>6 DEF OneSwap, UpToDate
<1>4. CASE HandBuild
  <2>1. /\ UNCHANGED <<running, handing, lost, check>> /\ path'.build = Hand
        /\ untidy' = (untidy \/ \E p \in Updaters : check[p].at # "idle")
    BY <1>4 DEF HandBuild
  <2>2. ~untidy' => ~untidy /\ \A p \in Updaters : check'[p].at = "idle"
    BY <2>1
  <2> QED BY <2>1, <2>2 DEF OneSwap, UpToDate, RestartDue
<1> QED BY <1>1, <1>2, <1>3, <1>4

LEMMA UpToDateStep == IInv /\ OneSwap /\ UpToDate /\ [Next]_vars => OneSwap' /\ UpToDate'
<1> SUFFICES ASSUME IInv, OneSwap, UpToDate, [Next]_vars PROVE OneSwap' /\ UpToDate'
  OBVIOUS
<1>1. CASE Publish \/ Withdraw \/ UNCHANGED vars
  <2>1. UNCHANGED <<check, path, running, handing, untidy, lost>>
    BY <1>1 DEF Publish, Withdraw, vars, service
  <2> QED BY <2>1 DEF OneSwap, UpToDate, RestartDue
<1>2. "cli" \in Updaters
  BY DEF Updaters
<1> QED BY <1>1, <1>2, CheckUpToDate, ProcessUpToDate, SwapUpToDate DEF Next, Steps

\* What was installed is run: whatever the service and `clawdh update` do to each other, a
\* service that runs another build than the installed one is about to be restarted, unless
\* an install was cut or lost, or the build is a person's own (CheckAndApply's RequestRestart,
\* cmdUpdate). What is left of Converges is that checks and restarts go on.
THEOREM InstalledIsRun == Spec => []UpToDate
<1>1. Init => OneSwap /\ UpToDate
  BY Constants DEF Init, OneSwap, UpToDate
<1> QED BY <1>1, UpToDateStep, Invariant, PTL DEF Spec
=============================================================================
