--------------------------- MODULE InvoiceProofs ---------------------------
(***************************************************************************)
(* What holds of invoices, their match and credit notes, for any number of *)
(* invoices, lines, notes, receipts, commercial versions and quantities.   *)
(***************************************************************************)
EXTENDS InvoiceMatch, SumTheorems, SequenceTheorems, TLAPS

OrderStates == {"NONE", "DRAFT", "ISSUED", "ON_HOLD", "CANCELLED", "CLOSED"}
ReceiptStates == {"NOT_RECEIVED", "PARTIALLY_RECEIVED", "FULLY_RECEIVED"}

(* The order as OrderProgress shows it: nothing was received before issue.   *)
OrderOK ==
    /\ order \in [state : OrderStates, receipt : ReceiptStates]
    /\ terms \in Seq(Terms) /\ Current <= MaxVersion
    /\ accepted \in Seq(Accepted) /\ Len(accepted) <= MaxReceipts
    /\ order.state \in {"NONE", "DRAFT"} => accepted = <<>>

(* A note is about an invoice whose lines are final.                         *)
NotesOK ==
    \A c \in Notes : note[c].state # "NONE" =>
        /\ note[c].inv \in Invoices
        /\ inv[note[c].inv].state \in {"SUBMITTED", "APPROVED", "REJECTED"}
        /\ \A n \in Index \ DOMAIN inv[note[c].inv].lines : note[c].credit[n] = 0

InvoiceRecords ==
    [state : {"NONE", "DRAFT", "SUBMITTED", "APPROVED", "REJECTED", "CANCELLED"},
     match : {"NOT_EVALUATED", "PENDING_RECEIPT", "MATCHED", "MISMATCHED"},
     version : 0 .. MaxVersion, lines : Content \cup {<<>>}, clean : BOOLEAN]
NoteRecords == [state : {"NONE", "DRAFT", "SUBMITTED"}, inv : Invoices \cup {None}, credit : Credits]
Requests == [state : {"NONE", "PENDING", "APPROVED"}, fresh : BOOLEAN]

Typed ==
    /\ inv \in [Invoices -> InvoiceRecords]
    /\ alloc \in [Invoices -> [Index -> Allocations]]
    /\ credited \in [Invoices -> [Index -> Nat]]
    /\ note \in [Notes -> NoteRecords]
    /\ request \in [Invoices -> [Kinds -> Requests]]
    /\ work \in [Invoices -> BOOLEAN]

(* What an invoice r holds and was credited, by its state: nothing before it *)
(* is submitted and after it is rejected; its whole quantity once it was     *)
(* matched, however it is evaluated later; and only an approved invoice is   *)
(* credited.  a is its allocation, cr what was credited.                     *)
Holding(r, a, cr) ==
    /\ r.state \notin {"SUBMITTED", "APPROVED"} => a = NoAllocation
    /\ r.state # "APPROVED" => \A n \in Index : cr[n] = 0
    /\ r.state = "SUBMITTED" =>
          \/ a = NoAllocation /\ r.match # "MATCHED"
          \/ \A n \in DOMAIN r.lines : SumFunction(a[n].taken) = r.lines[n].qty
    /\ r.state = "APPROVED" =>
          \A n \in DOMAIN r.lines :
             /\ r.match = "MATCHED" => SumFunction(a[n].taken) = r.lines[n].qty - cr[n]
             /\ SumFunction(a[n].taken) + a[n].excepted >= r.lines[n].qty - cr[n]
    /\ \A n \in Index : cr[n] <= IF n \in DOMAIN r.lines THEN r.lines[n].qty ELSE 0

(* What is held is held of a posted receipt, for the current terms.          *)
HoldsPosted(r, a, posted, current) ==
    \A n \in Index, k \in Slots : a[n].taken[k] > 0 => k \in posted /\ r.version = current

(* The approval requests q and the work item w of an invoice r.              *)
Decided(r, q, w) ==
    /\ r.state \in {"DRAFT", "SUBMITTED", "APPROVED"} => r.version > 0 /\ r.lines # <<>>
    /\ r.state = "APPROVED" /\ r.match = "MISMATCHED" => Allows(q["INVOICE_MATCH_EXCEPTION"])
    /\ r.state = "SUBMITTED" /\ r.match = "MISMATCHED" => w
    /\ w => r.state = "SUBMITTED" /\ r.match # "MATCHED"

(* The invoice lines that bill the order line l.                             *)
OnLine(l) == {jn \in Invoices \X Index : jn[2] \in DOMAIN inv[jn[1]].lines /\ inv[jn[1]].lines[jn[2]].line = l}

OneOfEach(S) == \A x \in S, y \in S : x[1] = y[1] => x = y

Posted(k, l) == IF k \in DOMAIN accepted THEN accepted[k][l] ELSE 0

(* Different invoices never hold more of a receipt line together than it     *)
(* accepted.                                                                 *)
SharedOnce ==
    \A k \in Slots, l \in Lines : \A S \in SUBSET OnLine(l) :
        OneOfEach(S) => SumFunctionOnSet(TakenOf(k), S) <= Posted(k, l)

InvoiceInv ==
    /\ OrderOK /\ Typed /\ NotesOK
    /\ \A i \in Invoices : /\ Holding(inv[i], alloc[i], credited[i])
                           /\ HoldsPosted(inv[i], alloc[i], DOMAIN accepted, Current)
                           /\ Decided(inv[i], request[i], work[i])
    /\ SharedOnce

(* No invoice bills the same order line twice.                               *)
BillsLinesOnce ==
    \A i \in Invoices : \A m \in DOMAIN inv[i].lines, n \in DOMAIN inv[i].lines :
        inv[i].lines[m].line = inv[i].lines[n].line => m = n

-----------------------------------------------------------------------------
(* Arithmetic                                                                *)

(* The larger of two numbers, as the community module chooses it.            *)
LEMMA MaxOfTwo ==
    ASSUME NEW a \in Int, NEW b \in Int
    PROVE  Max({a, b}) = IF a >= b THEN a ELSE b
<1>1. \E x \in {a, b} : \A y \in {a, b} : x >= y
  OBVIOUS
<1>2. Max({a, b}) \in {a, b} /\ \A y \in {a, b} : Max({a, b}) >= y
  BY <1>1 DEF Max
<1> QED BY <1>2

(* The smaller of two numbers.                                               *)
LEMMA MinOfTwo ==
    ASSUME NEW a \in Int, NEW b \in Int
    PROVE  Min({a, b}) = IF a <= b THEN a ELSE b
<1>1. \E x \in {a, b} : \A y \in {a, b} : x <= y
  OBVIOUS
<1>2. Min({a, b}) \in {a, b} /\ \A y \in {a, b} : Min({a, b}) <= y
  BY <1>1 DEF Min
<1> QED BY <1>2

(* The smaller of two numbers.                                               *)
Lesser(a, b) == IF a <= b THEN a ELSE b

(* f takes what there is, as far as q allows; a and b are the partial sums.  *)
Greedy(N, q, A, f, a, b) ==
    /\ a[0] = 0 /\ b[0] = 0
    /\ \A k \in 1..N : /\ A[k] \in Nat /\ a[k - 1] \in Nat
                       /\ a[k] = A[k] + a[k - 1] /\ b[k] = f[k] + b[k - 1]
                       /\ f[k] = Lesser(A[k], IF q <= a[k - 1] THEN 0 ELSE q - a[k - 1])

(* Partial sums that grow by what is there, as far as q allows, stay at the  *)
(* smaller of q and the partial sums of what is there.                       *)
LEMMA GreedyGrowth ==
    ASSUME NEW N \in Nat, NEW q \in Nat, NEW A, NEW f, NEW a, NEW b, Greedy(N, q, A, f, a, b)
    PROVE  \A k \in 0..N : b[k] = Lesser(a[k], q)
<1> DEFINE F == {k \in 0..N : b[k] # Lesser(a[k], q)}
<1>1. SUFFICES ASSUME F # {} PROVE FALSE
  OBVIOUS
<1>2. PICK k \in F : \A j \in F : k <= j
  <2>1. F \in SUBSET Nat
    OBVIOUS
  <2> HIDE DEF F
  <2> QED BY <1>1, <2>1, LeastNumber
<1>3. k # 0
  BY DEF Lesser, Greedy
<1>4. k - 1 \notin F /\ k - 1 \in 0..N /\ k \in 1..N
  <2>1. k \in 0..N
    OBVIOUS
  <2>2. k - 1 \in 0..N /\ k \in 1..N /\ ~(k <= k - 1)
    BY <1>3, <2>1
  <2> HIDE DEF F
  <2> QED BY <1>2, <2>2
<1>5. b[k - 1] = Lesser(a[k - 1], q)
  BY <1>4
<1>6. b[k] = Lesser(a[k], q)
  BY <1>4, <1>5 DEF Lesser, Greedy
<1> QED BY <1>6

(* Taking first what comes first takes as much as there is, and no more than *)
(* is asked for.                                                             *)
LEMMA FirstFitAddsUp ==
    ASSUME NEW N \in Nat, NEW A, NEW f, NEW q \in Nat, \A k \in 1..N : A[k] \in Nat,
           \A k \in 1..N : f[k] = Min({A[k], Max({0, q - SumFunctionOnSet(A, 1..(k - 1))})})
    PROVE  SumFunctionOnSet(f, 1..N) = Lesser(SumFunctionOnSet(A, 1..N), q)
<1> DEFINE a == [k \in 0..N |-> SumFunctionOnSet(A, 1..k)]
           b == [k \in 0..N |-> SumFunctionOnSet(f, 1..k)]
<1>1. a[0] = 0 /\ b[0] = 0
  <2>1. 1..0 = {} /\ 0 \in 0..N
    OBVIOUS
  <2> QED BY <2>1, SumOfNone
<1>2. \A k \in 0..N : IsFiniteSet(1..k) /\ 1..k \subseteq 1..N
  BY FS_Interval
<1>3. \A k \in 0..N : a[k] \in Nat
  <2> TAKE k \in 0..N
  <2>1. IsFiniteSet(1..k) /\ \A x \in 1..k : A[x] \in Nat
    BY <1>2
  <2> QED BY <2>1, SumNatural
<1>4. \A k \in 1..N : k - 1 \in 0..N /\ k \in 0..N /\ k \notin 1..(k - 1) /\ 1..k = (1..(k - 1)) \cup {k}
  OBVIOUS
<1>5. \A k \in 1..N : f[k] = Lesser(A[k], IF q <= a[k - 1] THEN 0 ELSE q - a[k - 1])
  <2> TAKE k \in 1..N
  <2>1. PICK s \in Nat : s = a[k - 1] /\ s = SumFunctionOnSet(A, 1..(k - 1))
    BY <1>3, <1>4
  <2>2. Max({0, q - s}) = IF 0 >= q - s THEN 0 ELSE q - s
    BY MaxOfTwo
  <2>3. PICK r \in Nat : r = Max({0, q - s}) /\ r = IF q <= s THEN 0 ELSE q - s
    BY <2>2
  <2>4. Min({A[k], r}) = Lesser(A[k], r)
    BY MinOfTwo DEF Lesser
  <2>5. f[k] = Min({A[k], r})
    BY <2>1, <2>3
  <2> QED BY <2>1, <2>3, <2>4, <2>5
<1>6. \A k \in 1..N : f[k] \in Int
  <2> TAKE k \in 1..N
  <2>1. a[k - 1] \in Nat /\ A[k] \in Nat
    BY <1>3, <1>4
  <2> HIDE DEF a, b
  <2> QED BY <1>5, <2>1 DEF Lesser
<1>7. \A k \in 1..N : a[k] = A[k] + a[k - 1] /\ b[k] = f[k] + b[k - 1]
  <2> TAKE k \in 1..N
  <2>1. \A x \in (1..(k - 1)) \cup {k} : x \in 1..N
    OBVIOUS
  <2>2. IsFiniteSet(1..(k - 1)) /\ k \notin 1..(k - 1) /\ 1..k = (1..(k - 1)) \cup {k}
    BY <1>2, <1>4
  <2>3. \A x \in 1..N : A[x] \in Int
    OBVIOUS
  <2>4. SumFunctionOnSet(A, (1..(k - 1)) \cup {k}) = A[k] + SumFunctionOnSet(A, 1..(k - 1))
    BY <2>1, <2>2, <2>3, SumAdds
  <2>5. SumFunctionOnSet(f, (1..(k - 1)) \cup {k}) = f[k] + SumFunctionOnSet(f, 1..(k - 1))
    BY <1>6, <2>1, <2>2, SumAdds
  <2> QED BY <1>4, <2>2, <2>4, <2>5
<1>8. \A k \in 1..N : A[k] \in Nat /\ a[k - 1] \in Nat
  BY <1>3, <1>4
<1>9. b[N] = Lesser(a[N], q)
  <2> HIDE DEF a, b
  <2>1. Greedy(N, q, A, f, a, b)
    BY <1>1, <1>5, <1>7, <1>8 DEF Greedy
  <2>2. \A k \in 0..N : b[k] = Lesser(a[k], q)
    BY <2>1, GreedyGrowth
  <2> QED BY <2>2
<1> QED BY <1>9

-----------------------------------------------------------------------------
(* What the state holds                                                      *)

(* The index sets are finite.                                                *)
LEMMA FiniteIndices == /\ IsFiniteSet(Slots) /\ IsFiniteSet(Index) /\ IsFiniteSet(Invoices \X Index)
                       /\ Slots = 1..MaxReceipts /\ MaxReceipts \in Nat
<1>1. IsFiniteSet(Slots) /\ IsFiniteSet(Index)
  BY InvoiceAssumption, FS_Interval DEF Slots, Index
<1>2. IsFiniteSet(Invoices \X Index)
  BY <1>1, InvoiceAssumption, FS_Product
<1> QED BY <1>1, <1>2, InvoiceAssumption DEF Slots

(* An allocation holds a natural number of units.                            *)
LEMMA AllocationFacts ==
    ASSUME NEW b \in Allocations
    PROVE  /\ DOMAIN b.taken = Slots /\ b.excepted \in Nat
           /\ \A k \in Slots : b.taken[k] \in Nat /\ b.taken[k] \in 0..MaxQty
           /\ SumFunction(b.taken) = SumFunctionOnSet(b.taken, Slots)
           /\ SumFunction(b.taken) \in Nat
<1>1. DOMAIN b.taken = Slots /\ b.excepted \in Nat /\ \A k \in Slots : b.taken[k] \in Nat /\ b.taken[k] \in 0..MaxQty
  BY ProgressAssumption DEF Allocations
<1>2. SumFunction(b.taken) = SumFunctionOnSet(b.taken, Slots)
  BY <1>1, Zenon DEF SumFunction, SumFunctionOnSet, FoldFunction
<1>3. SumFunctionOnSet(b.taken, Slots) \in Nat
  BY <1>1, FiniteIndices, SumNatural
<1> QED BY <1>1, <1>2, <1>3

(* A line of an invoice bills a positive quantity of an order line.          *)
LEMMA LineFacts ==
    ASSUME NEW ls \in Content \cup {<<>>}, NEW n \in DOMAIN ls
    PROVE  n \in Index /\ ls[n].line \in Lines /\ ls[n].qty \in 1..MaxQty /\ ls[n].qty \in Nat
<1>1. ls \in Content
  OBVIOUS
<1>2. PICK m \in Index : ls \in [1..m -> [line : Lines, qty : 1..MaxQty]]
  BY <1>1 DEF Content
<1>3. n \in 1..m /\ ls[n] \in [line : Lines, qty : 1..MaxQty]
  BY <1>2
<1>4. n \in Index
  BY <1>2, <1>3, InvoiceAssumption DEF Index
<1> QED BY <1>3, <1>4, ProgressAssumption

(* Nothing is held at first.                                                 *)
LEMMA NothingHeld ==
    /\ NoAllocation \in [Index -> Allocations]
    /\ \A n \in Index : /\ \A k \in Slots : NoAllocation[n].taken[k] = 0
                        /\ NoAllocation[n].excepted = 0
<1>1. 0 \in 0..MaxQty
  BY ProgressAssumption
<1> QED BY <1>1 DEF NoAllocation, Allocations

-----------------------------------------------------------------------------
(* Steps on one invoice                                                      *)

(* A step on invoice i needs to be looked at for i only.                     *)
LEMMA RowStep ==
    ASSUME InvoiceInv, UNCHANGED orderVars, NEW i \in Invoices, NEW r \in InvoiceRecords,
           NEW a \in [Index -> Allocations], NEW cr \in [Index -> Nat],
           NEW q \in [Kinds -> Requests], NEW w \in BOOLEAN,
           inv' = [inv EXCEPT ![i] = r], alloc' = [alloc EXCEPT ![i] = a],
           credited' = [credited EXCEPT ![i] = cr], request' = [request EXCEPT ![i] = q],
           work' = [work EXCEPT ![i] = w],
           Holding(r, a, cr), HoldsPosted(r, a, DOMAIN accepted, Current), Decided(r, q, w),
           note' \in [Notes -> NoteRecords], NotesOK', SharedOnce'
    PROVE  InvoiceInv'
<1>1. OrderOK'
  BY DEF InvoiceInv, OrderOK, orderVars, Current
<1>2. Typed'
  <2>1. Typed
    BY DEF InvoiceInv
  <2>2. work' \in [Invoices -> BOOLEAN]
    BY <2>1, Zenon DEF Typed
  <2> QED BY <2>1, <2>2 DEF Typed
<1>3. DOMAIN accepted' = DOMAIN accepted /\ Len(terms') = Current
  BY DEF orderVars, Current
<1>4. \A j \in Invoices :
         /\ inv'[j] = IF j = i THEN r ELSE inv[j]
         /\ alloc'[j] = IF j = i THEN a ELSE alloc[j]
         /\ credited'[j] = IF j = i THEN cr ELSE credited[j]
         /\ request'[j] = IF j = i THEN q ELSE request[j]
         /\ work'[j] = IF j = i THEN w ELSE work[j]
  BY DEF InvoiceInv, Typed
<1>5. ASSUME NEW j \in Invoices
      PROVE  /\ Holding(inv'[j], alloc'[j], credited'[j])
             /\ HoldsPosted(inv'[j], alloc'[j], DOMAIN accepted', Len(terms'))
             /\ Decided(inv'[j], request'[j], work'[j])
  <2>1. CASE j = i
    BY <1>3, <1>4, <2>1
  <2>2. CASE j # i
    BY <1>3, <1>4, <2>2 DEF InvoiceInv
  <2> QED BY <2>1, <2>2
<1>6. ASSUME NEW j \in Invoices
      PROVE  (/\ Holding(inv[j], alloc[j], credited[j])
              /\ HoldsPosted(inv[j], alloc[j], DOMAIN accepted, Current)
              /\ Decided(inv[j], request[j], work[j]))'
  <2>1. Holding(inv[j], alloc[j], credited[j])'
    BY <1>5 DEF Holding
  <2>2. HoldsPosted(inv[j], alloc[j], DOMAIN accepted, Current)'
    BY <1>5 DEF HoldsPosted, Current
  <2>3. Decided(inv[j], request[j], work[j])'
    BY <1>5, Zenon DEF Decided
  <2> QED BY <2>1, <2>2, <2>3
<1> QED BY <1>1, <1>2, <1>6 DEF InvoiceInv

(* What gives back or keeps what is held cannot share a unit twice.          *)
LEMMA ShareKept ==
    ASSUME InvoiceInv, UNCHANGED orderVars, NEW i \in Invoices, NEW r \in InvoiceRecords,
           NEW a \in [Index -> Allocations],
           inv' = [inv EXCEPT ![i] = r], alloc' = [alloc EXCEPT ![i] = a],
           \A n \in Index, k \in Slots :
              a[n].taken[k] = 0 \/ (r.lines = inv[i].lines /\ a[n].taken[k] <= alloc[i][n].taken[k])
    PROVE  SharedOnce'
<1> SUFFICES ASSUME NEW k \in Slots, NEW l \in Lines, NEW S \in SUBSET OnLine(l)', OneOfEach(S)
             PROVE  SumFunctionOnSet(TakenOf(k)', S) <= Posted(k, l)'
  BY DEF SharedOnce, OneOfEach
<1> DEFINE T == S \cap OnLine(l)
<1>1. SumFunctionOnSet(TakenOf(k), T) <= Posted(k, l)
  <2>1. T \in SUBSET OnLine(l) /\ OneOfEach(T)
    BY DEF OneOfEach
  <2> QED BY <2>1 DEF InvoiceInv, SharedOnce
<1>2. IsFiniteSet(S) /\ IsFiniteSet(T) /\ S \subseteq Invoices \X Index
  <2>1. S \subseteq Invoices \X Index
    BY DEF OnLine
  <2> QED BY <2>1, FiniteIndices, FS_Subset
<1>3. \A x \in Invoices \X Index :
         /\ alloc'[x[1]][x[2]] \in Allocations /\ alloc[x[1]][x[2]] \in Allocations
         /\ TakenOf(k)[x] = alloc[x[1]][x[2]].taken[k] /\ TakenOf(k)'[x] = alloc'[x[1]][x[2]].taken[k]
         /\ TakenOf(k)[x] \in Nat /\ TakenOf(k)'[x] \in Nat
  <2> TAKE x \in Invoices \X Index
  <2>1. alloc'[x[1]][x[2]] \in Allocations /\ alloc[x[1]][x[2]] \in Allocations
    BY DEF InvoiceInv, Typed
  <2>2. TakenOf(k)[x] = alloc[x[1]][x[2]].taken[k] /\ TakenOf(k)'[x] = alloc'[x[1]][x[2]].taken[k]
    BY DEF TakenOf
  <2> QED BY <2>1, <2>2, AllocationFacts
<1>4. \A x \in S : TakenOf(k)'[x] = 0 \/ (x \in T /\ TakenOf(k)'[x] <= TakenOf(k)[x])
  <2> TAKE x \in S
  <2>1. x \in Invoices \X Index /\ x[1] \in Invoices /\ x[2] \in Index
    BY <1>2
  <2>2. CASE x[1] = i
    <3>1. alloc'[x[1]] = a /\ inv'[x[1]] = r
      BY <2>1, <2>2 DEF InvoiceInv, Typed
    <3>2. CASE a[x[2]].taken[k] = 0
      BY <1>3, <2>1, <3>1, <3>2
    <3>3. CASE r.lines = inv[i].lines /\ a[x[2]].taken[k] <= alloc[i][x[2]].taken[k]
      <4>1. x \in OnLine(l)
        BY <2>1, <2>2, <3>1, <3>3 DEF OnLine
      <4> QED BY <1>3, <2>1, <2>2, <3>1, <3>3, <4>1
    <3> QED BY <2>1, <3>2, <3>3
  <2>3. CASE x[1] # i
    <3>1. alloc'[x[1]] = alloc[x[1]] /\ inv'[x[1]] = inv[x[1]]
      BY <2>1, <2>3 DEF InvoiceInv, Typed
    <3>2. x \in OnLine(l)
      BY <2>1, <3>1 DEF OnLine
    <3> QED BY <1>3, <2>1, <3>1, <3>2
  <2> QED BY <2>2, <2>3
<1>5. SumFunctionOnSet(TakenOf(k)', S) <= SumFunctionOnSet(TakenOf(k), T)
  <2>1. (\A x \in T : TakenOf(k)[x] \in Nat) /\ (\A x \in S : TakenOf(k)'[x] \in Int)
    BY <1>2, <1>3
  <2> HIDE DEF T
  <2> QED BY <1>2, <1>4, <2>1, SumShrinks
<1>6. Posted(k, l)' = Posted(k, l)
  BY DEF Posted, orderVars
<1>7. SumFunctionOnSet(TakenOf(k)', S) \in Int /\ SumFunctionOnSet(TakenOf(k), T) \in Int /\ Posted(k, l) \in Int
  <2>1. Posted(k, l) \in Int
    BY DEF Posted, InvoiceInv, OrderOK, Accepted
  <2>2. (\A x \in T : TakenOf(k)[x] \in Int) /\ (\A x \in S : TakenOf(k)'[x] \in Int)
    BY <1>2, <1>3
  <2> HIDE DEF T
  <2> QED BY <1>2, <2>1, <2>2, SumType
<1> QED BY <1>1, <1>5, <1>6, <1>7

(* Notes stay about final lines.                                             *)
LEMMA NotesKept ==
    ASSUME InvoiceInv, note' = note, NEW i \in Invoices, NEW r \in InvoiceRecords, inv' = [inv EXCEPT ![i] = r],
           \/ inv[i].state \in {"NONE", "DRAFT"}
           \/ r.state \in {"SUBMITTED", "APPROVED", "REJECTED", inv[i].state} /\ r.lines = inv[i].lines
    PROVE  note' \in [Notes -> NoteRecords] /\ NotesOK'
<1>1. \A j \in Invoices : inv'[j] = IF j = i THEN r ELSE inv[j]
  BY DEF InvoiceInv, Typed
<1>2. note' \in [Notes -> NoteRecords]
  BY DEF InvoiceInv, Typed
<1>3. ASSUME NEW c \in Notes, note[c].state # "NONE"
      PROVE  /\ note[c].inv \in Invoices
             /\ inv'[note[c].inv].state \in {"SUBMITTED", "APPROVED", "REJECTED"}
             /\ \A n \in Index \ DOMAIN inv'[note[c].inv].lines : note[c].credit[n] = 0
  <2>1. /\ note[c].inv \in Invoices
        /\ inv[note[c].inv].state \in {"SUBMITTED", "APPROVED", "REJECTED"}
        /\ \A n \in Index \ DOMAIN inv[note[c].inv].lines : note[c].credit[n] = 0
    BY <1>3 DEF InvoiceInv, NotesOK
  <2>2. CASE note[c].inv = i
    BY <1>1, <2>1, <2>2
  <2>3. CASE note[c].inv # i
    BY <1>1, <2>1, <2>3
  <2> QED BY <2>2, <2>3
<1> QED BY <1>2, <1>3 DEF NotesOK

(* What is known of an invoice.                                              *)
LEMMA RowFacts ==
    ASSUME InvoiceInv, NEW i \in Invoices
    PROVE  /\ inv[i] \in InvoiceRecords /\ alloc[i] \in [Index -> Allocations]
           /\ credited[i] \in [Index -> Nat] /\ request[i] \in [Kinds -> Requests] /\ work[i] \in BOOLEAN
           /\ Holding(inv[i], alloc[i], credited[i])
           /\ HoldsPosted(inv[i], alloc[i], DOMAIN accepted, Current)
           /\ Decided(inv[i], request[i], work[i])
           /\ Current \in 0..MaxVersion
<1>1. Current \in 0..MaxVersion
  BY InvoiceAssumption DEF InvoiceInv, OrderOK, Current
<1>2. work[i] \in BOOLEAN
  BY Zenon DEF InvoiceInv, Typed
<1> QED BY <1>1, <1>2 DEF InvoiceInv, Typed

(* A draft is written while nothing is held or credited.                     *)
LEMMA WriteDraftStep ==
    ASSUME InvoiceInv, UNCHANGED orderVars, NEW i \in Invoices, NEW from \in {"NONE", "DRAFT"},
           NEW lines \in Content, NEW clean \in BOOLEAN, WriteDraft(i, from, lines, clean)
    PROVE  InvoiceInv'
<1> DEFINE r == [inv[i] EXCEPT !.state = "DRAFT", !.version = Current, !.lines = lines, !.clean = clean]
<1>1. /\ r \in InvoiceRecords /\ inv' = [inv EXCEPT ![i] = r] /\ inv[i].state \in {"NONE", "DRAFT"}
      /\ r.state = "DRAFT" /\ r.lines = lines /\ r.version = Current
  BY RowFacts DEF WriteDraft, InvoiceRecords
<1> HIDE DEF r
<1>2. /\ alloc' = [alloc EXCEPT ![i] = alloc[i]] /\ credited' = [credited EXCEPT ![i] = credited[i]]
      /\ request' = [request EXCEPT ![i] = request[i]] /\ work' = [work EXCEPT ![i] = work[i]] /\ note' = note
  BY DEF WriteDraft, InvoiceInv, Typed
<1>3. alloc[i] = NoAllocation /\ \A n \in Index : credited[i][n] = 0
  BY <1>1, RowFacts DEF Holding
<1>4. Holding(r, alloc[i], credited[i])
  <2>1. \A n \in DOMAIN lines : lines[n].qty \in Nat
    BY LineFacts
  <2> QED BY <1>1, <1>3, <2>1 DEF Holding
<1>5. HoldsPosted(r, alloc[i], DOMAIN accepted, Current)
  BY <1>3, NothingHeld DEF HoldsPosted
<1>6. Decided(r, request[i], work[i])
  <2>1. lines # <<>>
    <3>1. PICK m \in Index : lines \in [1..m -> [line : Lines, qty : 1..MaxQty]]
      BY DEF Content
    <3>2. 1 \in DOMAIN lines
      BY <3>1, InvoiceAssumption DEF Index
    <3> QED BY <3>2
  <2>2. Current > 0
    BY DEF WriteDraft
  <2>3. ~ work[i]
    BY <1>1, RowFacts DEF Decided
  <2> QED BY <1>1, <2>1, <2>2, <2>3 DEF Decided
<1>7. \A n \in Index, k \in Slots : alloc[i][n].taken[k] = 0
  BY <1>3, NothingHeld
<1>8. alloc[i] \in [Index -> Allocations] /\ credited[i] \in [Index -> Nat] /\ request[i] \in [Kinds -> Requests]
      /\ work[i] \in BOOLEAN
  BY RowFacts
<1>9. SharedOnce'
  BY <1>1, <1>2, <1>7, <1>8, ShareKept
<1>10. note' \in [Notes -> NoteRecords] /\ NotesOK'
  BY <1>1, <1>2, NotesKept
<1> QED BY <1>1, <1>2, <1>4, <1>5, <1>6, <1>8, <1>9, <1>10, RowStep

(* A step that changes the state of an invoice, its exception, its requests  *)
(* and its work item, and takes nothing of a receipt.                        *)
LEMMA QuietStep ==
    ASSUME InvoiceInv, UNCHANGED orderVars, UNCHANGED <<credited, note>>,
           NEW i \in Invoices, NEW r \in InvoiceRecords,
           NEW a \in [Index -> Allocations], NEW q \in [Kinds -> Requests], NEW w \in BOOLEAN,
           inv' = [inv EXCEPT ![i] = r], alloc' = [alloc EXCEPT ![i] = a],
           request' = [request EXCEPT ![i] = q], work' = [work EXCEPT ![i] = w],
           r.lines = inv[i].lines,
           \/ inv[i].state \in {"NONE", "DRAFT"}
           \/ r.state \in {"SUBMITTED", "APPROVED", "REJECTED", inv[i].state},
           a = NoAllocation \/ (r.version = inv[i].version /\ \A n \in Index : a[n].taken = alloc[i][n].taken),
           Holding(r, a, credited[i]), Decided(r, q, w)
    PROVE  InvoiceInv'
<1>1. credited' = [credited EXCEPT ![i] = credited[i]]
  BY DEF InvoiceInv, Typed
<1>2. HoldsPosted(r, a, DOMAIN accepted, Current)
  <2>1. CASE a = NoAllocation
    BY <2>1, NothingHeld DEF HoldsPosted
  <2>2. CASE r.version = inv[i].version /\ \A n \in Index : a[n].taken = alloc[i][n].taken
    BY <2>2, RowFacts DEF HoldsPosted
  <2> QED BY <2>1, <2>2
<1>3. \A n \in Index, k \in Slots : a[n].taken[k] = 0 \/ a[n].taken[k] <= alloc[i][n].taken[k]
  <2>1. CASE a = NoAllocation
    BY <2>1, NothingHeld
  <2>2. CASE \A n \in Index : a[n].taken = alloc[i][n].taken
    BY <2>2, RowFacts, AllocationFacts
  <2> QED BY <2>1, <2>2
<1>4. SharedOnce'
  BY <1>3, ShareKept
<1>5. note' \in [Notes -> NoteRecords] /\ NotesOK'
  BY NotesKept
<1>6. PICK cr \in [Index -> Nat] : cr = credited[i]
  BY RowFacts
<1>7. credited' = [credited EXCEPT ![i] = cr] /\ Holding(r, a, cr)
  BY <1>1, <1>6
<1>8. /\ InvoiceInv /\ UNCHANGED orderVars /\ i \in Invoices /\ r \in InvoiceRecords
      /\ a \in [Index -> Allocations] /\ q \in [Kinds -> Requests] /\ w \in BOOLEAN
      /\ inv' = [inv EXCEPT ![i] = r] /\ alloc' = [alloc EXCEPT ![i] = a]
      /\ request' = [request EXCEPT ![i] = q] /\ work' = [work EXCEPT ![i] = w] /\ Decided(r, q, w)
  OBVIOUS
<1> QED BY ONLY <1>2, <1>4, <1>5, <1>6, <1>7, <1>8, RowStep

(* The lines of other invoices on an order line.                             *)
LEMMA OthersFacts ==
    ASSUME InvoiceInv, NEW i \in Invoices, NEW l \in Lines, NEW k \in Slots
    PROVE  /\ OthersOn(i, l) \subseteq Invoices \X Index /\ IsFiniteSet(OthersOn(i, l))
           /\ \A x \in Invoices \X Index : TakenOf(k)[x] = alloc[x[1]][x[2]].taken[k] /\ TakenOf(k)[x] \in Nat
           /\ SumFunctionOnSet(TakenOf(k), OthersOn(i, l)) \in Nat
<1>1. OthersOn(i, l) \subseteq Invoices \X Index
  BY DEF OthersOn
<1>2. IsFiniteSet(OthersOn(i, l))
  BY <1>1, FiniteIndices, FS_Subset
<1>3. \A x \in Invoices \X Index : TakenOf(k)[x] = alloc[x[1]][x[2]].taken[k] /\ TakenOf(k)[x] \in Nat
  <2> TAKE x \in Invoices \X Index
  <2>1. alloc[x[1]][x[2]] \in Allocations
    BY DEF InvoiceInv, Typed
  <2>2. TakenOf(k)[x] = alloc[x[1]][x[2]].taken[k]
    BY DEF TakenOf
  <2> QED BY <2>1, <2>2, AllocationFacts
<1>4. \A x \in OthersOn(i, l) : TakenOf(k)[x] \in Nat
  BY <1>1, <1>3
<1> QED BY <1>1, <1>2, <1>3, <1>4, SumNatural

(* What may be taken of a receipt is what others left of it.                 *)
LEMMA AvailableFacts ==
    ASSUME InvoiceInv, NEW i \in Invoices, NEW l \in Lines, NEW k \in Slots
    PROVE  /\ Available(i, l, k) \in Nat /\ Available(i, l, k) \in 0..MaxQty
           /\ Available(i, l, k) > 0 =>
                 k \in DOMAIN accepted /\ Available(i, l, k) + SumFunctionOnSet(TakenOf(k), OthersOn(i, l)) <= Posted(k, l)
           /\ Posted(k, l) \in Nat
<1>1. CASE k \notin DOMAIN accepted
  BY <1>1, ProgressAssumption DEF Available, Posted
<1>2. CASE k \in DOMAIN accepted
  <2>1. PICK q \in 0..MaxQty : q = accepted[k][l] /\ q = Posted(k, l)
    BY <1>2 DEF InvoiceInv, OrderOK, Accepted, Posted
  <2>2. PICK s \in Nat : s = SumFunctionOnSet(TakenOf(k), OthersOn(i, l))
    BY OthersFacts
  <2>3. Available(i, l, k) = Max({0, q - s})
    BY <1>2, <2>1, <2>2 DEF Available
  <2>4. Max({0, q - s}) = IF 0 >= q - s THEN 0 ELSE q - s
    BY MaxOfTwo
  <2> QED BY <1>2, <2>1, <2>2, <2>3, <2>4, ProgressAssumption
<1> QED BY <1>1, <1>2

(* A line takes of a receipt at most what is there.                          *)
LEMMA FirstFitFacts ==
    ASSUME InvoiceInv, NEW i \in Invoices, NEW n \in DOMAIN inv[i].lines, NEW k \in Slots
    PROVE  /\ FirstFit(i, n, k) \in Nat /\ FirstFit(i, n, k) \in 0..MaxQty
           /\ FirstFit(i, n, k) <= Available(i, inv[i].lines[n].line, k)
<1> DEFINE l == inv[i].lines[n].line
           A == [e \in Slots |-> Available(i, l, e)]
<1>1. l \in Lines /\ inv[i].lines[n].qty \in Nat
  <2>1. inv[i].lines \in Content \cup {<<>>}
    BY RowFacts DEF InvoiceRecords
  <2> QED BY <2>1, LineFacts
<1>2. \A e \in Slots : A[e] \in Nat /\ A[e] \in 0..MaxQty
  BY <1>1, AvailableFacts
<1>3. 1..(k - 1) \subseteq Slots /\ IsFiniteSet(1..(k - 1)) /\ A[k] = Available(i, l, k)
  BY FiniteIndices, FS_Interval
<1>4. PICK s \in Nat : s = SumFunctionOnSet(A, 1..(k - 1))
  <2> HIDE DEF A
  <2>1. \A e \in 1..(k - 1) : A[e] \in Nat
    BY <1>2, <1>3
  <2> QED BY <1>3, <2>1, SumNatural
<1>5. FirstFit(i, n, k) = Min({A[k], Max({0, inv[i].lines[n].qty - s})})
  BY <1>3, <1>4 DEF FirstFit
<1>6. PICK d \in Nat : d = Max({0, inv[i].lines[n].qty - s})
  BY <1>1, MaxOfTwo
<1> HIDE DEF A, l
<1>7. Min({A[k], d}) = IF A[k] <= d THEN A[k] ELSE d
  BY <1>2, MinOfTwo
<1>8. PICK m \in Nat : m = A[k] /\ m \in 0..MaxQty /\ MaxQty \in Nat
  BY <1>2, ProgressAssumption
<1>9. FirstFit(i, n, k) = IF m <= d THEN m ELSE d
  BY <1>5, <1>6, <1>7, <1>8
<1>10. Available(i, inv[i].lines[n].line, k) = m
  BY <1>3, <1>8 DEF l
<1> QED BY <1>8, <1>9, <1>10

(* A match takes the whole quantity of each line, of posted receipts.        *)
LEMMA AllocationAddsUp ==
    ASSUME InvoiceInv, NEW i \in Invoices, EnoughReceived(i)
    PROVE  /\ Allocation(i) \in [Index -> Allocations]
           /\ \A n \in Index, k \in Slots : Allocation(i)[n].taken[k] =
                 IF n \in DOMAIN inv[i].lines THEN FirstFit(i, n, k) ELSE 0
           /\ \A n \in DOMAIN inv[i].lines : SumFunction(Allocation(i)[n].taken) = inv[i].lines[n].qty
<1>1. \A n \in DOMAIN inv[i].lines : n \in Index /\ inv[i].lines[n].line \in Lines /\ inv[i].lines[n].qty \in Nat
  <2>1. inv[i].lines \in Content \cup {<<>>}
    BY RowFacts DEF InvoiceRecords
  <2> QED BY <2>1, LineFacts
<1>2. \A n \in Index, k \in Slots : (IF n \in DOMAIN inv[i].lines THEN FirstFit(i, n, k) ELSE 0) \in 0..MaxQty
  BY FirstFitFacts, ProgressAssumption
<1>3. Allocation(i) \in [Index -> Allocations]
  BY <1>2, ProgressAssumption DEF Allocation, Allocations
<1>4. \A n \in Index, k \in Slots : Allocation(i)[n].taken[k] = IF n \in DOMAIN inv[i].lines THEN FirstFit(i, n, k) ELSE 0
  BY DEF Allocation
<1>5. ASSUME NEW n \in DOMAIN inv[i].lines
      PROVE  SumFunction(Allocation(i)[n].taken) = inv[i].lines[n].qty
  <2> DEFINE l == inv[i].lines[n].line
             q == inv[i].lines[n].qty
             A == [e \in Slots |-> Available(i, l, e)]
             f == Allocation(i)[n].taken
  <2>1. \A k \in Slots : A[k] \in Nat /\ f[k] = FirstFit(i, n, k)
    BY <1>1, <1>4, AvailableFacts
  <2>2. \A k \in Slots : f[k] = Min({A[k], Max({0, q - SumFunctionOnSet(A, 1..(k - 1))})})
    BY <2>1 DEF FirstFit
  <2>3. SumFunctionOnSet(A, Slots) \in Nat /\ SumFunctionOnSet(A, Slots) >= q
    <3>1. SumFunction(A) >= q
      BY DEF EnoughReceived
    <3>2. SumFunction(A) = SumFunctionOnSet(A, DOMAIN A) /\ DOMAIN A = Slots
      BY Zenon DEF SumFunction, SumFunctionOnSet, FoldFunction
    <3> HIDE DEF A
    <3>3. SumFunctionOnSet(A, Slots) \in Nat
      BY <2>1, FiniteIndices, SumNatural
    <3> QED BY <3>1, <3>2, <3>3
  <2>4. SumFunction(f) = SumFunctionOnSet(f, Slots)
    BY <1>1, <1>3, AllocationFacts
  <2>5. q \in Nat
    BY <1>1
  <2> HIDE DEF A, f, q, l
  <2>6. SumFunctionOnSet(f, Slots) = Lesser(SumFunctionOnSet(A, Slots), q)
    <3>1. \A k \in 1..MaxReceipts : A[k] \in Nat /\ f[k] = Min({A[k], Max({0, q - SumFunctionOnSet(A, 1..(k - 1))})})
      BY <2>1, <2>2, FiniteIndices
    <3> QED BY <2>5, <3>1, FiniteIndices, FirstFitAddsUp
  <2>7. SumFunction(f) = q
    BY <2>3, <2>4, <2>5, <2>6 DEF Lesser
  <2> QED BY <2>7 DEF f, q
<1> QED BY <1>3, <1>4, <1>5

(* A match shares no unit of a receipt with another invoice.                 *)
LEMMA ShareTaken ==
    ASSUME InvoiceInv, UNCHANGED orderVars, NEW i \in Invoices, NEW r \in InvoiceRecords,
           r.lines = inv[i].lines, inv[i].version = Current, EnoughReceived(i),
           inv' = [inv EXCEPT ![i] = r], alloc' = [alloc EXCEPT ![i] = Allocation(i)], alloc[i] = NoAllocation
    PROVE  SharedOnce'
<1> SUFFICES ASSUME NEW k \in Slots, NEW l \in Lines, NEW S \in SUBSET OnLine(l)', OneOfEach(S)
             PROVE  SumFunctionOnSet(TakenOf(k)', S) <= Posted(k, l)'
  BY DEF SharedOnce, OneOfEach
<1>1. OnLine(l)' = OnLine(l) /\ Posted(k, l)' = Posted(k, l)
  <2>1. \A j \in Invoices : inv'[j].lines = inv[j].lines
    BY DEF InvoiceInv, Typed
  <2> QED BY <2>1 DEF OnLine, Posted, orderVars
<1>2. IsFiniteSet(S) /\ S \subseteq Invoices \X Index
  <2>1. S \subseteq Invoices \X Index
    BY <1>1 DEF OnLine
  <2> QED BY <2>1, FiniteIndices, FS_Subset
<1>3. \A x \in Invoices \X Index : TakenOf(k)[x] = alloc[x[1]][x[2]].taken[k] /\ TakenOf(k)[x] \in Nat
  BY OthersFacts
<1>4. \A x \in Invoices \X Index : x[1] # i => TakenOf(k)'[x] = TakenOf(k)[x]
  BY DEF TakenOf, InvoiceInv, Typed
<1>5. \A T \in SUBSET S : SumFunctionOnSet(TakenOf(k), T) <= Posted(k, l)
  <2>1. \A T \in SUBSET S : T \in SUBSET OnLine(l) /\ OneOfEach(T)
    BY <1>1 DEF OneOfEach
  <2> QED BY <2>1 DEF InvoiceInv, SharedOnce
<1>6. CASE \A x \in S : x[1] # i
  <2>1. \A x \in S : TakenOf(k)'[x] = TakenOf(k)[x]
    BY <1>2, <1>4, <1>6
  <2>2. SumFunctionOnSet(TakenOf(k)', S) = SumFunctionOnSet(TakenOf(k), S)
    BY <1>2, <2>1, SumCongruence
  <2> QED BY <1>1, <1>5, <2>2
<1>7. ASSUME NEW z \in S, z[1] = i
      PROVE  SumFunctionOnSet(TakenOf(k)', S) <= Posted(k, l)'
  <2> DEFINE T == S \ {z}
             n == z[2]
             v == FirstFit(i, n, k)
  <2>1. n \in Index /\ n \in DOMAIN inv[i].lines /\ inv[i].lines[n].line = l
    BY <1>1, <1>2, <1>7 DEF OnLine
  <2>2. TakenOf(k)'[z] = v /\ v \in Nat /\ v <= Available(i, l, k)
    <3>1. TakenOf(k)'[z] = alloc'[i][n].taken[k]
      BY <1>2, <1>7 DEF TakenOf
    <3>2. alloc'[i] = Allocation(i)
      BY DEF InvoiceInv, Typed
    <3> QED BY <2>1, <3>1, <3>2, AllocationAddsUp, FirstFitFacts
  <2>3. IsFiniteSet(T) /\ T \subseteq S /\ \A x \in T : x \in Invoices \X Index /\ x[1] # i
    BY <1>2, <1>7, FS_Subset DEF OneOfEach
  <2>4. \A x \in T : TakenOf(k)'[x] = TakenOf(k)[x] /\ TakenOf(k)[x] \in Nat
    BY <1>3, <1>4, <2>3
  <2>5. SumFunctionOnSet(TakenOf(k)', S) = v + SumFunctionOnSet(TakenOf(k)', T)
    <3>1. \A x \in S : TakenOf(k)'[x] \in Int
      <4> HIDE DEF v
      <4> QED BY <2>2, <2>4
    <3> QED BY <1>2, <2>2, <3>1, SumSplits
  <2>6. SumFunctionOnSet(TakenOf(k)', T) = SumFunctionOnSet(TakenOf(k), T)
    <3> HIDE DEF T
    <3> QED BY <2>3, <2>4, SumCongruence
  <2>7. PICK t \in Nat : t = SumFunctionOnSet(TakenOf(k), T) /\ t <= Posted(k, l)
    <3>1. SumFunctionOnSet(TakenOf(k), T) \in Nat
      <4> HIDE DEF T
      <4> QED BY <2>3, <2>4, SumNatural
    <3> QED BY <1>5, <2>3, <3>1
  <2>8. PICK av \in Nat : av = Available(i, l, k)
    BY AvailableFacts
  <2>9. PICK o \in Nat : o = SumFunctionOnSet(TakenOf(k), OthersOn(i, l))
    BY OthersFacts
  <2>10. t <= o
    <3>1. \A x \in T : TakenOf(k)[x] = 0 \/ (x \in OthersOn(i, l) /\ TakenOf(k)[x] <= TakenOf(k)[x])
      <4> TAKE x \in T
      <4>1. TakenOf(k)[x] \in Nat /\ x \in Invoices \X Index /\ x[1] # i /\ x \in OnLine(l)
        BY <1>1, <2>3, <2>4
      <4>2. CASE TakenOf(k)[x] > 0
        <5>1. alloc[x[1]][x[2]].taken[k] > 0
          BY <1>3, <4>1, <4>2
        <5>2. inv[x[1]].version = Current
          BY <4>1, <5>1, RowFacts DEF HoldsPosted
        <5>3. x \in OthersOn(i, l)
          BY <4>1, <5>2 DEF OthersOn, OnLine
        <5> QED BY <4>1, <5>3
      <4> QED BY <4>1, <4>2
    <3>2. IsFiniteSet(OthersOn(i, l)) /\ \A x \in OthersOn(i, l) : TakenOf(k)[x] \in Nat
      BY OthersFacts
    <3>3. \A x \in T : TakenOf(k)[x] \in Int
      BY <2>4
    <3> HIDE DEF T
    <3>4. SumFunctionOnSet(TakenOf(k), T) <= SumFunctionOnSet(TakenOf(k), OthersOn(i, l))
      BY <2>3, <3>1, <3>2, <3>3, SumShrinks
    <3> QED BY <2>7, <2>9, <3>4
  <2>11. PICK p \in Nat : p = Posted(k, l) /\ (av > 0 => av + o <= p)
    BY <2>8, <2>9, AvailableFacts
  <2>12. v + t <= p
    <3> HIDE DEF v
    <3> QED BY <2>2, <2>7, <2>8, <2>10, <2>11
  <2> QED BY <1>1, <2>5, <2>6, <2>7, <2>11, <2>12
<1> QED BY <1>6, <1>7

(* The match has one of three outcomes, and says MATCHED of the terms in     *)
(* force only.                                                               *)
LEMMA MatchOutcome ==
    ASSUME NEW i \in Invoices
    PROVE  /\ MatchStatus(i) \in {"PENDING_RECEIPT", "MATCHED", "MISMATCHED"}
           /\ MatchStatus(i) = "MATCHED" => inv[i].version = Current
<1>1. MatchStatus(i) \in {"PENDING_RECEIPT", "MATCHED", "MISMATCHED"}
  BY DEF MatchStatus
<1>2. MatchStatus(i) = "MATCHED" => ~ Blocking(i)
  BY DEF MatchStatus
<1>3. ~ Blocking(i) => inv[i].version = Current
  BY DEF Blocking
<1> QED BY <1>1, <1>2, <1>3

(* An evaluation takes what it matches.                                      *)
LEMMA EvaluateStep ==
    ASSUME InvoiceInv, UNCHANGED orderVars, NEW i \in Invoices, inv[i].state \in {"DRAFT", "SUBMITTED"}, Evaluate(i)
    PROVE  InvoiceInv'
<1>1. PICK status \in {"PENDING_RECEIPT", "MATCHED", "MISMATCHED"} : status = MatchStatus(i)
  BY MatchOutcome
<1> DEFINE r == [inv[i] EXCEPT !.state = "SUBMITTED", !.match = status]
           q == [p \in Kinds |-> [request[i][p] EXCEPT !.fresh = FALSE]]
           w == CASE status = "MISMATCHED" -> TRUE
                  [] status = "MATCHED" -> FALSE
                  [] status = "PENDING_RECEIPT" -> work[i]
<1>2. inv' = [inv EXCEPT ![i].state = "SUBMITTED", ![i].match = status]
  BY <1>1 DEF Evaluate
<1>3. /\ r \in InvoiceRecords /\ inv' = [inv EXCEPT ![i] = r] /\ r.state = "SUBMITTED" /\ r.match = status
      /\ r.lines = inv[i].lines /\ r.version = inv[i].version
  BY <1>2, RowFacts DEF InvoiceRecords, InvoiceInv, Typed
<1>4. q \in [Kinds -> Requests] /\ request' = [request EXCEPT ![i] = q]
  <2>1. request' = [request EXCEPT ![i] = q]
    BY DEF Evaluate
  <2>2. \A p \in Kinds : request[i][p] \in Requests
    BY RowFacts
  <2>3. \A p \in Kinds : [request[i][p] EXCEPT !.fresh = FALSE] \in Requests
    BY <2>2 DEF Requests
  <2> QED BY <2>1, <2>3
<1>5. PICK u \in BOOLEAN : /\ work' = [work EXCEPT ![i] = u]
                           /\ status = "MISMATCHED" => u
                           /\ u => status # "MATCHED"
  <2>1. work[i] \in BOOLEAN
    BY RowFacts
  <2>2. w \in BOOLEAN /\ (status = "MISMATCHED" => w) /\ (w => status # "MATCHED")
    BY <2>1, Zenon
  <2>3. work' = [work EXCEPT ![i] = w]
    BY <1>1 DEF Evaluate, WorkAfter
  <2> HIDE DEF w
  <2> QED BY <2>2, <2>3, Zenon
<1>6. UNCHANGED <<credited, note>>
  BY DEF Evaluate
<1> HIDE DEF r, q, w
<1>7. Decided(r, q, u)
  <2>1. inv[i].version > 0 /\ inv[i].lines # <<>>
    BY RowFacts DEF Decided
  <2> QED BY <1>3, <1>5, <2>1 DEF Decided
<1>8. \A n \in Index : credited[i][n] = 0
  BY RowFacts DEF Holding
<1>9. \A n \in DOMAIN inv[i].lines : n \in Index /\ inv[i].lines[n].qty \in Nat
  <2>1. inv[i].lines \in Content \cup {<<>>}
    BY RowFacts DEF InvoiceRecords
  <2> QED BY <2>1, LineFacts
<1>10. CASE status = "MATCHED" /\ alloc[i] = NoAllocation
  <2>1. EnoughReceived(i) /\ alloc' = [alloc EXCEPT ![i] = Allocation(i)] /\ inv[i].version = Current
    BY <1>1, <1>10, MatchOutcome DEF Evaluate
  <2>2. PICK a \in [Index -> Allocations] : a = Allocation(i)
    BY <2>1, AllocationAddsUp
  <2>3. Holding(r, a, credited[i])
    <3>1. \A n \in DOMAIN r.lines : SumFunction(a[n].taken) = r.lines[n].qty
      BY <1>3, <2>1, <2>2, AllocationAddsUp
    <3> QED BY <1>3, <1>8, <1>9, <3>1 DEF Holding
  <2>4. HoldsPosted(r, a, DOMAIN accepted, Current)
    <3>1. ASSUME NEW n \in Index, NEW k \in Slots, a[n].taken[k] > 0 PROVE k \in DOMAIN accepted
      <4>1. n \in DOMAIN inv[i].lines /\ a[n].taken[k] = FirstFit(i, n, k)
        BY <2>1, <2>2, <3>1, AllocationAddsUp
      <4>2. inv[i].lines[n].line \in Lines
        <5>1. inv[i].lines \in Content \cup {<<>>}
          BY RowFacts DEF InvoiceRecords
        <5> QED BY <4>1, <5>1, LineFacts
      <4>3. PICK av \in Nat : av = Available(i, inv[i].lines[n].line, k) /\ (av > 0 => k \in DOMAIN accepted)
        BY <4>2, AvailableFacts
      <4>4. FirstFit(i, n, k) \in Nat /\ FirstFit(i, n, k) <= av
        BY <4>1, <4>3, FirstFitFacts
      <4> QED BY <3>1, <4>1, <4>3, <4>4
    <3> QED BY <1>3, <2>1, <3>1 DEF HoldsPosted
  <2>5. SharedOnce'
    BY <1>3, <1>10, <2>1, ShareTaken
  <2>6. note' \in [Notes -> NoteRecords] /\ NotesOK'
    BY <1>3, <1>6, NotesKept
  <2>7. PICK cr \in [Index -> Nat] : cr = credited[i] /\ credited' = [credited EXCEPT ![i] = cr]
    BY <1>6, RowFacts DEF InvoiceInv, Typed
  <2>8. InvoiceInv /\ UNCHANGED orderVars /\ Holding(r, a, cr) /\ alloc' = [alloc EXCEPT ![i] = a]
    BY <2>1, <2>2, <2>3, <2>7
  <2> QED BY ONLY <1>3, <1>4, <1>5, <1>7, <2>4, <2>5, <2>6, <2>7, <2>8, RowStep
<1>11. CASE ~(status = "MATCHED" /\ alloc[i] = NoAllocation)
  <2>1. PICK a \in [Index -> Allocations] : a = alloc[i] /\ alloc' = [alloc EXCEPT ![i] = a]
    BY <1>1, <1>11, RowFacts DEF Evaluate, InvoiceInv, Typed
  <2>2. Holding(r, a, credited[i])
    <3>1. Holding(inv[i], alloc[i], credited[i])
      BY RowFacts
    <3> QED BY <1>3, <1>8, <1>9, <1>11, <2>1, <3>1 DEF Holding
  <2>3. InvoiceInv /\ UNCHANGED orderVars /\ (\A n \in Index : a[n].taken = alloc[i][n].taken)
    BY <2>1
  <2> QED BY ONLY <1>3, <1>4, <1>5, <1>6, <1>7, <2>1, <2>2, <2>3, QuietStep
<1> QED BY <1>10, <1>11

(* The lines of an invoice are lines.                                        *)
LEMMA RowLines ==
    ASSUME InvoiceInv, NEW i \in Invoices
    PROVE  \A n \in DOMAIN inv[i].lines : n \in Index /\ inv[i].lines[n].line \in Lines /\ inv[i].lines[n].qty \in Nat
<1>1. inv[i].lines \in Content \cup {<<>>}
  BY RowFacts DEF InvoiceRecords
<1> QED BY <1>1, LineFacts

(* A matched invoice is approved with all it holds.                          *)
LEMMA ApproveMatchedStep ==
    ASSUME InvoiceInv, UNCHANGED orderVars, NEW i \in Invoices, ApproveMatched(i)
    PROVE  InvoiceInv'
<1> DEFINE r == [inv[i] EXCEPT !.state = "APPROVED"]
<1>1. /\ r \in InvoiceRecords /\ inv' = [inv EXCEPT ![i] = r] /\ r.state = "APPROVED" /\ r.match = "MATCHED"
      /\ r.lines = inv[i].lines /\ r.version = inv[i].version
  BY RowFacts DEF InvoiceRecords, ApproveMatched, InvoiceInv, Typed
<1> HIDE DEF r
<1>2. PICK a \in [Index -> Allocations], q \in [Kinds -> Requests], w \in BOOLEAN :
         /\ a = alloc[i] /\ alloc' = [alloc EXCEPT ![i] = a]
         /\ q = request[i] /\ request' = [request EXCEPT ![i] = q]
         /\ w = work[i] /\ work' = [work EXCEPT ![i] = w]
  BY RowFacts DEF ApproveMatched, InvoiceInv, Typed
<1>3. UNCHANGED <<credited, note>> /\ inv[i].state = "SUBMITTED" /\ inv[i].match = "MATCHED"
  BY DEF ApproveMatched
<1>4. Decided(r, q, w)
  <2>1. Decided(inv[i], request[i], work[i])
    BY RowFacts
  <2>2. ~ w
    BY <1>2, <1>3, <2>1, Zenon DEF Decided
  <2> QED BY <1>1, <1>3, <2>1, <2>2 DEF Decided
<1>5. Holding(r, a, credited[i])
  <2>1. Holding(inv[i], alloc[i], credited[i])
    BY RowFacts
  <2>2. (\A n \in Index : credited[i][n] = 0) /\ \A n \in DOMAIN inv[i].lines : SumFunction(a[n].taken) = inv[i].lines[n].qty
    BY <1>2, <1>3, <2>1 DEF Holding
  <2>3. \A n \in Index : a[n].excepted \in Nat
    BY AllocationFacts
  <2> QED BY <1>1, <2>2, <2>3, RowLines DEF Holding
<1>6. InvoiceInv /\ UNCHANGED orderVars /\ \A n \in Index : a[n].taken = alloc[i][n].taken
  BY <1>2
<1> QED BY ONLY <1>1, <1>2, <1>3, <1>4, <1>5, <1>6, QuietStep

(* An exception reserves what is billed, on an approval of this evaluation.  *)
LEMMA ApproveMismatchedStep ==
    ASSUME InvoiceInv, UNCHANGED orderVars, NEW i \in Invoices, ApproveMismatched(i)
    PROVE  InvoiceInv'
<1> DEFINE r == [inv[i] EXCEPT !.state = "APPROVED"]
           a == [n \in Index |-> [alloc[i][n] EXCEPT !.excepted = IF n \in DOMAIN inv[i].lines
                                                                  THEN inv[i].lines[n].qty ELSE 0]]
<1>1. /\ r \in InvoiceRecords /\ inv' = [inv EXCEPT ![i] = r] /\ r.state = "APPROVED" /\ r.match = "MISMATCHED"
      /\ r.lines = inv[i].lines /\ r.version = inv[i].version
  BY RowFacts DEF InvoiceRecords, ApproveMismatched, AcceptException, InvoiceInv, Typed
<1>2. alloc' = [alloc EXCEPT ![i] = a]
  BY DEF ApproveMismatched, AcceptException
<1>3. \A n \in Index : /\ a[n] \in Allocations /\ a[n].taken = alloc[i][n].taken
                       /\ a[n].excepted = IF n \in DOMAIN inv[i].lines THEN inv[i].lines[n].qty ELSE 0
  <2> TAKE n \in Index
  <2>1. alloc[i][n] \in Allocations
    BY RowFacts
  <2>2. (IF n \in DOMAIN inv[i].lines THEN inv[i].lines[n].qty ELSE 0) \in 0..MaxQty
    <3>1. inv[i].lines \in Content \cup {<<>>}
      BY RowFacts DEF InvoiceRecords
    <3> QED BY <3>1, LineFacts, ProgressAssumption
  <2> QED BY <2>1, <2>2 DEF Allocations
<1>4. a \in [Index -> Allocations]
  BY <1>3
<1> HIDE DEF r, a
<1>5. PICK q \in [Kinds -> Requests] : q = request[i] /\ request' = [request EXCEPT ![i] = q]
  BY RowFacts DEF ApproveMismatched, AcceptException, InvoiceInv, Typed
<1>6. /\ UNCHANGED <<credited, note>> /\ inv[i].state = "SUBMITTED" /\ work' = [work EXCEPT ![i] = FALSE]
      /\ Allows(request[i]["INVOICE_MATCH_EXCEPTION"])
  BY DEF ApproveMismatched, AcceptException
<1>7. Decided(r, q, FALSE)
  <2>1. Decided(inv[i], request[i], work[i])
    BY RowFacts
  <2> QED BY <1>1, <1>5, <1>6, <2>1 DEF Decided
<1>8. Holding(r, a, credited[i])
  <2>1. \A n \in Index : credited[i][n] = 0
    BY <1>6, RowFacts DEF Holding
  <2>2. \A n \in DOMAIN r.lines : /\ n \in Index /\ a[n].excepted = r.lines[n].qty /\ r.lines[n].qty \in Nat
                                  /\ SumFunction(a[n].taken) \in Nat
    BY <1>1, <1>3, RowLines, AllocationFacts
  <2> QED BY <1>1, <2>1, <2>2 DEF Holding
<1>9. InvoiceInv /\ UNCHANGED orderVars /\ FALSE \in BOOLEAN /\ \A n \in Index : a[n].taken = alloc[i][n].taken
  BY <1>3
<1> QED BY ONLY <1>1, <1>2, <1>4, <1>5, <1>6, <1>7, <1>8, <1>9, QuietStep

(* An invoice that ends unpaid gives everything back.                        *)
LEMMA EndStep ==
    ASSUME InvoiceInv, UNCHANGED orderVars, NEW i \in Invoices,
           (inv[i].state = "SUBMITTED" /\ RejectInvoice(i)) \/ (inv[i].state = "DRAFT" /\ CancelInvoice(i))
    PROVE  InvoiceInv'
<1>1. PICK state \in {"REJECTED", "CANCELLED"} :
         /\ inv' = [inv EXCEPT ![i] = Ended(i, state)]
         /\ inv[i].state = "SUBMITTED" => state = "REJECTED"
  BY DEF RejectInvoice, CancelInvoice
<1> DEFINE r == Ended(i, state)
<1>2. r \in InvoiceRecords /\ r.state = state /\ r.lines = inv[i].lines /\ r.match = "NOT_EVALUATED"
  <2>1. inv[i] \in InvoiceRecords /\ 0 \in 0..MaxVersion
    BY RowFacts, InvoiceAssumption
  <2> QED BY <2>1 DEF InvoiceRecords, Ended
<1> HIDE DEF r
<1>3. UNCHANGED <<credited, note, request>> /\ inv[i].state \in {"SUBMITTED", "DRAFT"}
  BY DEF RejectInvoice, CancelInvoice
<1>4. alloc' = [alloc EXCEPT ![i] = NoAllocation]
  <2>1. inv[i].state = "DRAFT" => alloc[i] = NoAllocation
    BY RowFacts DEF Holding
  <2> QED BY <2>1 DEF RejectInvoice, CancelInvoice, InvoiceInv, Typed
<1>5. work' = [work EXCEPT ![i] = FALSE]
  <2>1. CASE RejectInvoice(i)
    BY <2>1 DEF RejectInvoice
  <2>2. CASE CancelInvoice(i)
    <3>1. work[i] = FALSE
      BY <2>2, RowFacts, Zenon DEF Decided, CancelInvoice
    <3>2. work' = work /\ work \in [Invoices -> BOOLEAN]
      BY <2>2 DEF CancelInvoice, InvoiceInv, Typed
    <3> QED BY <3>1, <3>2
  <2> QED BY <2>1, <2>2
<1>6. PICK q \in [Kinds -> Requests] : q = request[i] /\ request' = [request EXCEPT ![i] = q]
  BY <1>3, RowFacts DEF InvoiceInv, Typed
<1>7. Holding(r, NoAllocation, credited[i])
  <2>1. \A n \in Index : credited[i][n] = 0
    BY <1>3, RowFacts DEF Holding
  <2> QED BY <1>2, <2>1, RowLines DEF Holding
<1>8. Decided(r, q, FALSE)
  BY <1>2 DEF Decided
<1>9. /\ InvoiceInv /\ UNCHANGED orderVars /\ FALSE \in BOOLEAN /\ NoAllocation \in [Index -> Allocations]
      /\ inv' = [inv EXCEPT ![i] = r]
      /\ inv[i].state \in {"NONE", "DRAFT"} \/ r.state \in {"SUBMITTED", "APPROVED", "REJECTED", inv[i].state}
  BY <1>1, <1>2, <1>3, NothingHeld DEF r
<1> QED BY ONLY <1>2, <1>3, <1>4, <1>5, <1>6, <1>7, <1>8, <1>9, QuietStep

(* Requests are made and approved beside the invoice.                        *)
LEMMA RequestStep ==
    ASSUME InvoiceInv, UNCHANGED orderVars, NEW i \in Invoices,
           RequestApproval(i) \/ \E p \in Kinds : ApproveRequest(i, p)
    PROVE  InvoiceInv'
<1>1. UNCHANGED <<inv, alloc, credited, note, work>>
  BY DEF RequestApproval, ApproveRequest
<1>2. PICK p \in Kinds, s \in Requests :
         /\ request' = [request EXCEPT ![i] = [request[i] EXCEPT ![p] = s]]
         /\ inv[i].state = "APPROVED" => request[i][p].state = "PENDING"
  <2>1. \A p \in Kinds : request[i][p] \in Requests
    BY RowFacts
  <2>2. CASE RequestApproval(i)
    <3> DEFINE p == IF inv[i].match = "MISMATCHED" THEN "INVOICE_MATCH_EXCEPTION" ELSE "INVOICE_APPROVAL"
               s == [state |-> "PENDING", fresh |-> TRUE]
    <3>1. p \in Kinds /\ s \in Requests
      BY DEF Kinds, Requests
    <3>2. inv[i].state = "SUBMITTED" /\ request' = [request EXCEPT ![i][p] = s]
      BY <2>2 DEF RequestApproval
    <3> HIDE DEF p, s
    <3>3. request' = [request EXCEPT ![i] = [request[i] EXCEPT ![p] = s]]
      BY <3>2 DEF InvoiceInv, Typed
    <3> QED BY <3>1, <3>2, <3>3
  <2>3. CASE \E p \in Kinds : ApproveRequest(i, p)
    <3>1. PICK p \in Kinds : ApproveRequest(i, p)
      BY <2>3
    <3> DEFINE s == [request[i][p] EXCEPT !.state = "APPROVED"]
    <3>2. s \in Requests
      BY <2>1 DEF Requests
    <3>3. request[i][p].state = "PENDING" /\ request' = [request EXCEPT ![i] = [request[i] EXCEPT ![p] = s]]
      BY <3>1 DEF ApproveRequest, InvoiceInv, Typed
    <3> HIDE DEF s
    <3> QED BY <3>2, <3>3
  <2> QED BY <2>2, <2>3
<1> DEFINE q == [request[i] EXCEPT ![p] = s]
<1>3. q \in [Kinds -> Requests] /\ \A x \in Kinds : x # p => q[x] = request[i][x]
  BY RowFacts
<1>4. Decided(inv[i], q, work[i])
  <2>1. Decided(inv[i], request[i], work[i])
    BY RowFacts
  <2>2. ASSUME inv[i].state = "APPROVED", inv[i].match = "MISMATCHED"
        PROVE  q["INVOICE_MATCH_EXCEPTION"] = request[i]["INVOICE_MATCH_EXCEPTION"]
    <3>1. Allows(request[i]["INVOICE_MATCH_EXCEPTION"])
      BY <2>1, <2>2 DEF Decided
    <3>2. p # "INVOICE_MATCH_EXCEPTION"
      BY <1>2, <2>2, <3>1 DEF Allows
    <3> QED BY <1>3, <3>2 DEF Kinds
  <2> HIDE DEF q
  <2> QED BY <2>1, <2>2 DEF Decided
<1> HIDE DEF q
<1>5. PICK w \in BOOLEAN : w = work[i] /\ work' = [work EXCEPT ![i] = w]
  BY <1>1, RowFacts, Zenon DEF InvoiceInv, Typed
<1>6. PICK r \in InvoiceRecords, a \in [Index -> Allocations] :
         r = inv[i] /\ a = alloc[i] /\ inv' = [inv EXCEPT ![i] = r] /\ alloc' = [alloc EXCEPT ![i] = a]
  BY <1>1, RowFacts DEF InvoiceInv, Typed
<1>7. request' = [request EXCEPT ![i] = q]
  BY <1>2 DEF q
<1>8. /\ InvoiceInv /\ UNCHANGED orderVars /\ UNCHANGED <<credited, note>>
      /\ inv[i].state \in {"NONE", "DRAFT"} \/ r.state \in {"SUBMITTED", "APPROVED", "REJECTED", inv[i].state}
      /\ Holding(r, a, credited[i]) /\ Decided(r, q, w)
  BY <1>1, <1>4, <1>5, <1>6, RowFacts DEF InvoiceRecords
<1> QED BY ONLY <1>3, <1>5, <1>6, <1>7, <1>8, QuietStep

-----------------------------------------------------------------------------
(* Credit notes                                                              *)

(* Nothing of the invoices changes.                                          *)
LEMMA RowsKept ==
    ASSUME InvoiceInv, UNCHANGED orderVars, UNCHANGED <<inv, alloc, credited, request, work>>,
           note' \in [Notes -> NoteRecords], NotesOK'
    PROVE  InvoiceInv'
<1>1. OrderOK'
  BY DEF InvoiceInv, OrderOK, orderVars, Current
<1>2. Typed'
  BY DEF InvoiceInv, Typed
<1>3. SharedOnce'
  BY DEF InvoiceInv, SharedOnce, OnLine, OneOfEach, TakenOf, Posted, orderVars
<1>4. ASSUME NEW j \in Invoices
      PROVE  (/\ Holding(inv[j], alloc[j], credited[j])
              /\ HoldsPosted(inv[j], alloc[j], DOMAIN accepted, Current)
              /\ Decided(inv[j], request[j], work[j]))'
  <2>1. Holding(inv[j], alloc[j], credited[j])'
    BY RowFacts DEF Holding
  <2>2. HoldsPosted(inv[j], alloc[j], DOMAIN accepted, Current)'
    BY RowFacts DEF HoldsPosted, Current, orderVars
  <2>3. Decided(inv[j], request[j], work[j])'
    BY RowFacts DEF Decided
  <2> QED BY <2>1, <2>2, <2>3
<1> QED BY <1>1, <1>2, <1>3, <1>4 DEF InvoiceInv

(* A note is written for an invoice whose lines are final, or ends.          *)
LEMMA NoteWritten ==
    ASSUME InvoiceInv, NEW c \in Notes, NEW x \in NoteRecords, note' = [note EXCEPT ![c] = x], UNCHANGED inv,
           x.state # "NONE" => /\ x.inv \in Invoices
                               /\ inv[x.inv].state \in {"SUBMITTED", "APPROVED", "REJECTED"}
                               /\ \A n \in Index \ DOMAIN inv[x.inv].lines : x.credit[n] = 0
    PROVE  note' \in [Notes -> NoteRecords] /\ NotesOK'
<1>1. note' \in [Notes -> NoteRecords] /\ \A d \in Notes : note'[d] = IF d = c THEN x ELSE note[d]
  BY DEF InvoiceInv, Typed
<1>2. ASSUME NEW d \in Notes, note'[d].state # "NONE"
      PROVE  /\ note'[d].inv \in Invoices
             /\ inv[note'[d].inv].state \in {"SUBMITTED", "APPROVED", "REJECTED"}
             /\ \A n \in Index \ DOMAIN inv[note'[d].inv].lines : note'[d].credit[n] = 0
  <2>1. CASE d = c
    BY <1>1, <1>2, <2>1
  <2>2. CASE d # c
    BY <1>1, <1>2, <2>2 DEF InvoiceInv, NotesOK
  <2> QED BY <2>1, <2>2
<1> QED BY <1>1, <1>2 DEF NotesOK

(* The absent credit note is a note record.                                  *)
LEMMA NoNoteIsOne == NoNote \in NoteRecords /\ NoNote.state = "NONE"
<1>1. 0 \in 0..MaxQty
  BY ProgressAssumption
<1> QED BY <1>1 DEF NoNote, NoteRecords, Credits

(* Every step on a note but its application leaves the invoices alone.       *)
LEMMA DraftNoteStep ==
    ASSUME InvoiceInv, UNCHANGED orderVars, NEW c \in Notes,
           \/ \E credit \in Credits : (\E i \in Invoices : CreateCreditNote(c, i, credit)) \/ UpdateCreditNote(c, credit)
           \/ SubmitCreditNote(c) \/ CancelCreditNote(c) \/ RejectCreditNote(c)
    PROVE  InvoiceInv'
<1>1. note[c] \in NoteRecords /\ (note[c].state # "NONE" =>
           /\ note[c].inv \in Invoices
           /\ inv[note[c].inv].state \in {"SUBMITTED", "APPROVED", "REJECTED"}
           /\ \A n \in Index \ DOMAIN inv[note[c].inv].lines : note[c].credit[n] = 0)
  BY DEF InvoiceInv, Typed, NotesOK
<1>2. UNCHANGED <<inv, alloc, credited, request, work>>
  BY DEF CreateCreditNote, UpdateCreditNote, SubmitCreditNote, CancelCreditNote, RejectCreditNote, EndNote
<1>3. note' \in [Notes -> NoteRecords] /\ NotesOK'
  <2>1. ASSUME NEW credit \in Credits, NEW i \in Invoices, CreateCreditNote(c, i, credit)
        PROVE  note' \in [Notes -> NoteRecords] /\ NotesOK'
    <3> DEFINE x == [state |-> "DRAFT", inv |-> i, credit |-> credit]
    <3>1. /\ x \in NoteRecords /\ note' = [note EXCEPT ![c] = x] /\ x.inv = i /\ x.credit = credit
          /\ inv[i].state \in {"SUBMITTED", "APPROVED"} /\ \A n \in Index \ DOMAIN inv[i].lines : credit[n] = 0
      BY <2>1 DEF CreateCreditNote, NoteRecords
    <3> HIDE DEF x
    <3> QED BY <1>2, <3>1, NoteWritten
  <2>2. ASSUME NEW credit \in Credits, UpdateCreditNote(c, credit)
        PROVE  note' \in [Notes -> NoteRecords] /\ NotesOK'
    <3> DEFINE x == [note[c] EXCEPT !.credit = credit]
    <3>1. /\ x \in NoteRecords /\ note' = [note EXCEPT ![c] = x] /\ x.inv = note[c].inv /\ x.credit = credit
          /\ note[c].state = "DRAFT" /\ \A n \in Index \ DOMAIN inv[note[c].inv].lines : credit[n] = 0
      BY <1>1, <2>2 DEF UpdateCreditNote, NoteRecords, InvoiceInv, Typed
    <3> HIDE DEF x
    <3> QED BY <1>1, <1>2, <3>1, NoteWritten
  <2>3. CASE SubmitCreditNote(c)
    <3> DEFINE x == [note[c] EXCEPT !.state = "SUBMITTED"]
    <3>1. /\ x \in NoteRecords /\ note' = [note EXCEPT ![c] = x] /\ x.inv = note[c].inv /\ x.credit = note[c].credit
          /\ note[c].state = "DRAFT"
      BY <1>1, <2>3 DEF SubmitCreditNote, NoteRecords, InvoiceInv, Typed
    <3> HIDE DEF x
    <3> QED BY <1>1, <1>2, <3>1, NoteWritten
  <2>4. CASE CancelCreditNote(c) \/ RejectCreditNote(c)
    <3>1. note' = [note EXCEPT ![c] = NoNote]
      BY <2>4 DEF CancelCreditNote, RejectCreditNote, EndNote
    <3> QED BY <1>2, <3>1, NoNoteIsOne, NoteWritten
  <2> QED BY <2>1, <2>2, <2>3, <2>4
<1> QED BY <1>2, <1>3, RowsKept

(* A credit that fits releases exactly itself, of receipts first.            *)
LEMMA ReleaseAddsUp ==
    ASSUME NEW a \in Allocations, NEW b \in Allocations, NEW credit \in Nat, IsRelease(a, credit, b)
    PROVE  /\ \A k \in Slots : b.taken[k] <= a.taken[k]
           /\ SumFunction(b.taken) = SumFunction(a.taken) - Lesser(credit, SumFunction(a.taken))
           /\ b.excepted = a.excepted - Lesser(a.excepted, credit - Lesser(credit, SumFunction(a.taken)))
<1> DEFINE back == [k \in Slots |-> a.taken[k] - b.taken[k]]
<1>1. PICK t \in Nat, u \in Nat, e \in Nat :
         /\ t = SumFunction(a.taken) /\ t = SumFunctionOnSet(a.taken, Slots)
         /\ u = SumFunction(b.taken) /\ u = SumFunctionOnSet(b.taken, Slots)
         /\ e = a.excepted
  BY AllocationFacts
<1>2. \A k \in Slots : /\ a.taken[k] \in Nat /\ b.taken[k] \in Nat /\ back[k] \in Int
                       /\ back[k] >= 0 /\ a.taken[k] = b.taken[k] + back[k]
  <2>1. \A k \in Slots : a.taken[k] \in Nat /\ b.taken[k] \in Nat
    BY AllocationFacts
  <2>2. \A k \in Slots : back[k] >= 0
    BY DEF IsRelease
  <2> QED BY <2>1, <2>2
<1>3. SumFunction(back) = SumFunctionOnSet(back, Slots)
  <2>1. DOMAIN back = Slots
    OBVIOUS
  <2> HIDE DEF back
  <2> QED BY <2>1, Zenon DEF SumFunction, SumFunctionOnSet, FoldFunction
<1>4. SumFunction(back) = Min({credit, t})
  BY <1>1 DEF IsRelease
<1>5. Min({credit, t}) = Lesser(credit, t)
  BY MinOfTwo DEF Lesser
<1>6. b.excepted = e - Min({e, credit - SumFunction(back)})
  BY <1>1 DEF IsRelease
<1> HIDE DEF back
<1>7. t = u + SumFunctionOnSet(back, Slots)
  BY <1>1, <1>2, FiniteIndices, SumOfSums
<1>8. PICK f \in Int : f = SumFunction(back) /\ f = Lesser(credit, t)
  BY <1>4, <1>5 DEF Lesser
<1>9. Min({e, credit - f}) = Lesser(e, credit - f)
  BY MinOfTwo DEF Lesser
<1>10. u = t - f
  BY <1>3, <1>7, <1>8
<1>11. b.excepted = e - Lesser(e, credit - f)
  BY <1>6, <1>8, <1>9
<1> QED BY <1>1, <1>2, <1>8, <1>10, <1>11

(* What a credit that fits leaves of a holding.                              *)
LEMMA HoldingReleased ==
    ASSUME NEW t \in Nat, NEW e \in Nat, NEW q \in Nat, NEW cr \in Nat, NEW c \in Nat, cr + c <= q
    PROVE  /\ t = q - cr => t - Lesser(c, t) = q - (cr + c)
           /\ t + e >= q - cr =>
                 (t - Lesser(c, t)) + (e - Lesser(e, c - Lesser(c, t))) >= q - (cr + c)
  BY DEF Lesser

(* An applied note is counted, and gives back what it credits.               *)
LEMMA ApplyStep ==
    ASSUME InvoiceInv, UNCHANGED orderVars, NEW c \in Notes, ApplyCreditNote(c)
    PROVE  InvoiceInv'
<1>1. PICK i \in Invoices, credit \in [Index -> 0..MaxQty] :
         /\ i = note[c].inv /\ credit = note[c].credit /\ inv[i].state = "APPROVED"
         /\ \A n \in Index \ DOMAIN inv[i].lines : credit[n] = 0
  BY DEF InvoiceInv, Typed, NotesOK, NoteRecords, Credits, ApplyCreditNote
<1>2. PICK a \in [Index -> Allocations] :
         /\ \A n \in Index : IsRelease(alloc[i][n], credit[n], a[n])
         /\ alloc' = [alloc EXCEPT ![i] = a]
  BY <1>1 DEF ApplyCreditNote
<1> DEFINE sum == [n \in Index |-> credited[i][n] + credit[n]]
<1>3. /\ note' = [note EXCEPT ![c] = NoNote] /\ credited' = [credited EXCEPT ![i] = sum]
      /\ UNCHANGED <<inv, request, work>>
      /\ \A n \in DOMAIN inv[i].lines : credited[i][n] + credit[n] <= inv[i].lines[n].qty
  BY <1>1 DEF ApplyCreditNote, CreditFits
<1>4. credited[i] \in [Index -> Nat] /\ alloc[i] \in [Index -> Allocations] /\ Holding(inv[i], alloc[i], credited[i])
  BY RowFacts
<1>5. PICK cr \in [Index -> Nat] : /\ credited' = [credited EXCEPT ![i] = cr]
                                  /\ \A n \in Index : cr[n] = credited[i][n] + credit[n] /\ credit[n] \in Nat
  <2>1. sum \in [Index -> Nat] /\ \A n \in Index : sum[n] = credited[i][n] + credit[n] /\ credit[n] \in Nat
    BY <1>4, ProgressAssumption
  <2> HIDE DEF sum
  <2> QED BY <1>3, <2>1
<1>6. \A n \in Index :
         /\ \A k \in Slots : a[n].taken[k] <= alloc[i][n].taken[k]
         /\ SumFunction(a[n].taken) = SumFunction(alloc[i][n].taken) - Lesser(credit[n], SumFunction(alloc[i][n].taken))
         /\ a[n].excepted = alloc[i][n].excepted
               - Lesser(alloc[i][n].excepted, credit[n] - Lesser(credit[n], SumFunction(alloc[i][n].taken)))
  BY <1>2, <1>4, <1>5, ReleaseAddsUp
<1>7. Holding(inv[i], a, cr)
  <2>1. ASSUME NEW n \in DOMAIN inv[i].lines
        PROVE  /\ inv[i].match = "MATCHED" => SumFunction(a[n].taken) = inv[i].lines[n].qty - cr[n]
               /\ SumFunction(a[n].taken) + a[n].excepted >= inv[i].lines[n].qty - cr[n]
    <3>1. n \in Index /\ inv[i].lines[n].qty \in Nat
      BY <1>1, RowLines
    <3>2. PICK t \in Nat, e \in Nat : t = SumFunction(alloc[i][n].taken) /\ e = alloc[i][n].excepted
      BY <1>4, <3>1, AllocationFacts
    <3>3. /\ inv[i].match = "MATCHED" => t = inv[i].lines[n].qty - credited[i][n]
          /\ t + e >= inv[i].lines[n].qty - credited[i][n]
      BY <1>1, <1>4, <3>2 DEF Holding
    <3>4. credited[i][n] \in Nat /\ credit[n] \in Nat /\ credited[i][n] + credit[n] <= inv[i].lines[n].qty
      BY <1>3, <1>4, <1>5, <3>1
    <3>5. /\ SumFunction(a[n].taken) = t - Lesser(credit[n], t)
          /\ a[n].excepted = e - Lesser(e, credit[n] - Lesser(credit[n], t))
          /\ cr[n] = credited[i][n] + credit[n]
      BY <1>5, <1>6, <3>1, <3>2
    <3>6. PICK q \in Nat, x \in Nat, d \in Nat : q = inv[i].lines[n].qty /\ x = credited[i][n] /\ d = credit[n]
      BY <3>1, <3>4
    <3>7. /\ t = q - x => t - Lesser(d, t) = q - (x + d)
          /\ t + e >= q - x => (t - Lesser(d, t)) + (e - Lesser(e, d - Lesser(d, t))) >= q - (x + d)
      <4>1. x + d <= q
        BY <3>4, <3>6
      <4> QED BY <4>1, HoldingReleased
    <3> QED BY <3>3, <3>5, <3>6, <3>7
  <2>2. ASSUME NEW n \in Index
        PROVE  cr[n] <= IF n \in DOMAIN inv[i].lines THEN inv[i].lines[n].qty ELSE 0
    <3>1. CASE n \in DOMAIN inv[i].lines
      BY <1>3, <1>5, <3>1
    <3>2. CASE n \notin DOMAIN inv[i].lines
      <4>1. credited[i][n] <= 0 /\ credited[i][n] \in Nat /\ credit[n] = 0
        BY <1>1, <1>4, <3>2 DEF Holding
      <4> QED BY <1>5, <3>2, <4>1
    <3> QED BY <3>1, <3>2
  <2> QED BY <1>1, <2>1, <2>2 DEF Holding
<1>8. HoldsPosted(inv[i], a, DOMAIN accepted, Current)
  <2>1. ASSUME NEW n \in Index, NEW k \in Slots, a[n].taken[k] > 0 PROVE alloc[i][n].taken[k] > 0
    <3>1. a[n].taken[k] \in Nat /\ alloc[i][n].taken[k] \in Nat /\ a[n].taken[k] <= alloc[i][n].taken[k]
      BY <1>4, <1>6, AllocationFacts
    <3> QED BY <2>1, <3>1
  <2> QED BY <1>1, <2>1, RowFacts DEF HoldsPosted
<1>9. PICK r \in InvoiceRecords : r = inv[i] /\ inv' = [inv EXCEPT ![i] = r]
  BY <1>1, <1>3, RowFacts DEF InvoiceInv, Typed
<1>10. SharedOnce'
  BY <1>1, <1>2, <1>6, <1>9, ShareKept
<1>11. note' \in [Notes -> NoteRecords] /\ NotesOK'
  BY <1>3, NoNoteIsOne, NoteWritten
<1>12. PICK q \in [Kinds -> Requests], w \in BOOLEAN : /\ q = request[i] /\ request' = [request EXCEPT ![i] = q]
                                                      /\ w = work[i] /\ work' = [work EXCEPT ![i] = w]
  BY <1>1, <1>3, RowFacts DEF InvoiceInv, Typed
<1>13. /\ InvoiceInv /\ UNCHANGED orderVars /\ Holding(r, a, cr)
       /\ HoldsPosted(r, a, DOMAIN accepted, Current) /\ Decided(r, q, w)
  BY <1>7, <1>8, <1>9, <1>12, RowFacts
<1> QED BY ONLY i \in Invoices, <1>2, <1>5, <1>9, <1>10, <1>11, <1>12, <1>13, RowStep

-----------------------------------------------------------------------------
(* The order                                                                 *)

(* The order moves on without taking back what invoices hold: receipts are   *)
(* only added, and the terms change before the first receipt only.           *)
LEMMA OrderStep ==
    ASSUME InvoiceInv, OrderMoves
    PROVE  InvoiceInv'
<1>1. OrderOK
  BY DEF InvoiceInv
<1>2. UNCHANGED <<inv, alloc, credited, note, request, work>>
  BY DEF OrderMoves, invoiceVars
<1>3. /\ OrderOK' /\ DOMAIN accepted \subseteq DOMAIN accepted'
      /\ \A k \in DOMAIN accepted' : \A l \in Lines :
            IF k \in DOMAIN accepted THEN accepted'[k][l] = accepted[k][l] ELSE accepted'[k][l] \in Nat
      /\ Len(terms') = Len(terms) \/ accepted = <<>>
  <2>1. ASSUME NEW to \in OrderStates, order' = [order EXCEPT !.state = to],
               UNCHANGED <<terms, accepted, received>>, to \in {"NONE", "DRAFT"} => order.state = "NONE"
        PROVE  OrderOK' /\ accepted' = accepted /\ terms' = terms
    <3>1. order'.state = to /\ order' \in [state : OrderStates, receipt : ReceiptStates]
      BY <1>1, <2>1 DEF OrderOK
    <3> QED BY <1>1, <2>1, <3>1 DEF OrderOK, Current
  <2>2. ASSUME Draft \/ Hold \/ Resume \/ Cancel \/ Close
        PROVE  OrderOK' /\ accepted' = accepted /\ terms' = terms
    <3>1. PICK to \in OrderStates : /\ order' = [order EXCEPT !.state = to]
                                    /\ UNCHANGED <<terms, accepted, received>>
                                    /\ to \in {"NONE", "DRAFT"} => order.state = "NONE"
      BY <2>2 DEF Draft, Hold, Resume, Cancel, Close, Move, OrderStates
    <3> QED BY <2>1, <3>1
  <2>3. ASSUME NEW t \in Terms, Current < MaxVersion, SetTerms(t)
        PROVE  OrderOK' /\ accepted' = accepted /\ accepted = <<>>
    <3>1. /\ terms' = Append(terms, t) /\ UNCHANGED <<accepted, received>> /\ accepted = <<>>
          /\ order' \in [state : OrderStates, receipt : ReceiptStates] /\ order'.state \notin {"NONE", "DRAFT"}
      BY <1>1, <2>3 DEF SetTerms, OrderOK, OrderStates
    <3>2. terms' \in Seq(Terms) /\ Len(terms') = Len(terms) + 1
      BY <1>1, <3>1 DEF OrderOK
    <3>3. Len(terms') <= MaxVersion
      BY <1>1, <2>3, <3>2, InvoiceAssumption DEF Current, OrderOK
    <3> QED BY <1>1, <3>1, <3>2, <3>3 DEF OrderOK, Current
  <2>4. ASSUME NEW q \in Accepted, Len(accepted) < MaxReceipts, Receive(q)
        PROVE  /\ OrderOK' /\ terms' = terms /\ accepted' = Append(accepted, q)
    <3>1. accepted' = Append(accepted, q) /\ UNCHANGED terms /\ order.state = "ISSUED"
      BY <2>4 DEF Receive
    <3>2. order' \in [state : OrderStates, receipt : ReceiptStates] /\ order'.state = "ISSUED"
      BY <1>1, <2>4, <3>1 DEF Receive, OrderOK, ReceiptStates
    <3>3. accepted' \in Seq(Accepted) /\ Len(accepted') = Len(accepted) + 1
      BY <1>1, <3>1 DEF OrderOK
    <3>4. Len(accepted') <= MaxReceipts
      BY <1>1, <2>4, <3>3, InvoiceAssumption DEF OrderOK
    <3> QED BY <1>1, <3>1, <3>2, <3>3, <3>4 DEF OrderOK, Current
  <2>5. ASSUME NEW q \in Accepted, accepted' = Append(accepted, q)
        PROVE  /\ DOMAIN accepted \subseteq DOMAIN accepted'
               /\ \A k \in DOMAIN accepted' : \A l \in Lines :
                     IF k \in DOMAIN accepted THEN accepted'[k][l] = accepted[k][l] ELSE accepted'[k][l] \in Nat
    <3>1. /\ DOMAIN accepted = 1..Len(accepted) /\ DOMAIN accepted' = 1..(Len(accepted) + 1) /\ Len(accepted) \in Nat
          /\ \A k \in DOMAIN accepted : accepted'[k] = accepted[k]
          /\ accepted'[Len(accepted) + 1] = q
      BY <1>1, <2>5 DEF OrderOK
    <3>2. \A l \in Lines : q[l] \in Nat
      BY DEF Accepted
    <3> QED BY <3>1, <3>2
  <2> QED BY <2>2, <2>3, <2>4, <2>5 DEF OrderMoves
<1>4. ASSUME NEW k \in Slots, NEW l \in Lines PROVE Posted(k, l) <= Posted(k, l)' /\ Posted(k, l) \in Nat /\ Posted(k, l)' \in Nat
  <2>1. Posted(k, l) \in Nat
    BY <1>1 DEF Posted, OrderOK, Accepted
  <2> QED BY <1>3, <2>1 DEF Posted
<1>5. SharedOnce'
  <2> SUFFICES ASSUME NEW k \in Slots, NEW l \in Lines, NEW S \in SUBSET OnLine(l)', OneOfEach(S)
               PROVE  SumFunctionOnSet(TakenOf(k)', S) <= Posted(k, l)'
    BY DEF SharedOnce, OneOfEach
  <2>1. OnLine(l)' = OnLine(l) /\ TakenOf(k)' = TakenOf(k)
    BY <1>2 DEF OnLine, TakenOf
  <2>2. SumFunctionOnSet(TakenOf(k), S) <= Posted(k, l)
    BY <2>1 DEF InvoiceInv, SharedOnce
  <2>3. SumFunctionOnSet(TakenOf(k), S) \in Int
    <3>1. S \subseteq Invoices \X Index /\ IsFiniteSet(S)
      BY <2>1, FiniteIndices, FS_Subset DEF OnLine
    <3>2. \A x \in S : TakenOf(k)[x] \in Int
      <4>1. InvoiceAssumption
        BY InvoiceAssumption
      <4> TAKE x \in S
      <4>2. x[1] \in Invoices /\ x \in Invoices \X Index
        BY <3>1
      <4> QED BY <4>2, OthersFacts
    <3> QED BY <3>1, <3>2, SumType
  <2> QED BY <1>4, <2>1, <2>2, <2>3
<1>6. ASSUME NEW j \in Invoices
      PROVE  (/\ Holding(inv[j], alloc[j], credited[j])
              /\ HoldsPosted(inv[j], alloc[j], DOMAIN accepted, Current)
              /\ Decided(inv[j], request[j], work[j]))'
  <2>1. Holding(inv[j], alloc[j], credited[j])'
    BY <1>2, RowFacts DEF Holding
  <2>2. HoldsPosted(inv[j], alloc[j], DOMAIN accepted, Current)'
    <3>1. HoldsPosted(inv[j], alloc[j], DOMAIN accepted, Current)
      BY RowFacts
    <3> QED BY <1>2, <1>3, <3>1 DEF HoldsPosted, Current
  <2>3. Decided(inv[j], request[j], work[j])'
    BY <1>2, RowFacts DEF Decided
  <2> QED BY <2>1, <2>2, <2>3
<1>7. Typed' /\ NotesOK'
  <2>1. Typed /\ NotesOK
    BY DEF InvoiceInv
  <2> QED BY <1>2, <2>1 DEF Typed, NotesOK
<1> QED BY <1>3, <1>5, <1>6, <1>7 DEF InvoiceInv

-----------------------------------------------------------------------------
(* The invariant                                                             *)

(* It holds at first.                                                        *)
LEMMA InvoicesStart == Init => InvoiceInv
<1> SUFFICES ASSUME Init PROVE InvoiceInv
  OBVIOUS
<1>1. /\ order = [state |-> "NONE", receipt |-> "NOT_RECEIVED"] /\ terms = <<>> /\ accepted = <<>>
      /\ alloc = [i \in Invoices |-> NoAllocation]
  BY DEF Init, OrderInit
<1>2. OrderOK
  <2>1. 0 <= MaxVersion /\ 0 <= MaxReceipts
    BY InvoiceAssumption
  <2> QED BY <1>1, <2>1 DEF OrderOK, Current, OrderStates, ReceiptStates
<1>3. \A i \in Invoices : /\ inv[i] = [state |-> "NONE", match |-> "NOT_EVALUATED", version |-> 0,
                                       lines |-> <<>>, clean |-> FALSE]
                          /\ alloc[i] = NoAllocation /\ credited[i] = [n \in Index |-> 0]
                          /\ request[i] = [p \in Kinds |-> [state |-> "NONE", fresh |-> FALSE]] /\ work[i] = FALSE
  BY DEF Init
<1>4. Typed
  <2>1. inv \in [Invoices -> InvoiceRecords]
    BY InvoiceAssumption DEF Init, InvoiceRecords
  <2>2. alloc \in [Invoices -> [Index -> Allocations]]
    BY <1>1, NothingHeld
  <2>3. credited \in [Invoices -> [Index -> Nat]] /\ note \in [Notes -> NoteRecords] /\ work \in [Invoices -> BOOLEAN]
    BY NoNoteIsOne DEF Init
  <2>4. request \in [Invoices -> [Kinds -> Requests]]
    BY DEF Init, Requests
  <2> QED BY <2>1, <2>2, <2>3, <2>4 DEF Typed
<1>5. NotesOK
  BY NoNoteIsOne DEF Init, NotesOK
<1>6. ASSUME NEW i \in Invoices
      PROVE  /\ Holding(inv[i], alloc[i], credited[i])
             /\ HoldsPosted(inv[i], alloc[i], DOMAIN accepted, Current)
             /\ Decided(inv[i], request[i], work[i])
  <2>1. Holding(inv[i], alloc[i], credited[i])
    BY <1>3 DEF Holding
  <2>2. HoldsPosted(inv[i], alloc[i], DOMAIN accepted, Current)
    BY <1>3, NothingHeld DEF HoldsPosted
  <2>3. Decided(inv[i], request[i], work[i])
    BY <1>3 DEF Decided
  <2> QED BY <2>1, <2>2, <2>3
<1>7. SharedOnce
  <2> SUFFICES ASSUME NEW k \in Slots, NEW l \in Lines, NEW S \in SUBSET OnLine(l)
               PROVE  SumFunctionOnSet(TakenOf(k), S) <= Posted(k, l)
    BY DEF SharedOnce
  <2>1. S = {}
    BY <1>3 DEF OnLine
  <2>2. Posted(k, l) = 0
    BY <1>1 DEF Posted
  <2> QED BY <2>1, <2>2, SumOfNone
<1> QED BY <1>2, <1>4, <1>5, <1>6, <1>7 DEF InvoiceInv

(* Every step keeps it.                                                      *)
LEMMA InvoicesStep == InvoiceInv /\ [Next]_vars => InvoiceInv'
<1> SUFFICES ASSUME InvoiceInv, [Next]_vars PROVE InvoiceInv'
  OBVIOUS
<1>1. CASE OrderMoves
  BY <1>1, OrderStep
<1>2. ASSUME NEW i \in Invoices, InvoiceStep(i), UNCHANGED orderVars PROVE InvoiceInv'
  <2>1. ASSUME NEW lines \in Content, NEW clean \in BOOLEAN, CreateInvoice(i, lines, clean) \/ UpdateInvoice(i, lines, clean)
        PROVE  InvoiceInv'
    BY <1>2, <2>1, WriteDraftStep DEF CreateInvoice, UpdateInvoice
  <2>2. CASE SubmitInvoice(i) \/ ReevaluateInvoice(i)
    BY <1>2, <2>2, EvaluateStep DEF SubmitInvoice, ReevaluateInvoice
  <2>3. CASE ApproveMatched(i)
    BY <1>2, <2>3, ApproveMatchedStep
  <2>4. CASE ApproveMismatched(i)
    BY <1>2, <2>4, ApproveMismatchedStep
  <2>5. CASE RejectInvoice(i) \/ CancelInvoice(i)
    <3>1. (inv[i].state = "SUBMITTED" /\ RejectInvoice(i)) \/ (inv[i].state = "DRAFT" /\ CancelInvoice(i))
      BY <2>5 DEF RejectInvoice, CancelInvoice
    <3> QED BY <1>2, <3>1, EndStep
  <2>6. CASE RequestApproval(i) \/ \E p \in Kinds : ApproveRequest(i, p)
    BY <1>2, <2>6, RequestStep
  <2> QED BY <1>2, <2>1, <2>2, <2>3, <2>4, <2>5, <2>6 DEF InvoiceStep
<1>3. ASSUME NEW c \in Notes, NoteStep(c), UNCHANGED orderVars PROVE InvoiceInv'
  <2>1. CASE ApplyCreditNote(c)
    BY <1>3, <2>1, ApplyStep
  <2>2. CASE ~ ApplyCreditNote(c)
    <3>1. \/ \E credit \in Credits : (\E i \in Invoices : CreateCreditNote(c, i, credit)) \/ UpdateCreditNote(c, credit)
          \/ SubmitCreditNote(c) \/ CancelCreditNote(c) \/ RejectCreditNote(c)
      BY <1>3, <2>2, Zenon DEF NoteStep
    <3> QED BY <1>3, <3>1, DraftNoteStep
  <2> QED BY <2>1, <2>2
<1>4. CASE UNCHANGED vars
  <2>1. UNCHANGED orderVars /\ UNCHANGED <<inv, alloc, credited, request, work>> /\ note' = note
    BY <1>4 DEF vars, invoiceVars, orderVars
  <2>2. note' \in [Notes -> NoteRecords] /\ NotesOK'
    BY <2>1 DEF InvoiceInv, Typed, NotesOK
  <2> QED BY <2>1, <2>2, RowsKept
<1> QED BY <1>1, <1>2, <1>3, <1>4 DEF Next

(* The inductive invariant of invoices and credit notes: for any number of   *)
(* invoices, lines and notes, any order and any quantities.                  *)
THEOREM InvoicesInvariant == Spec => []InvoiceInv
<1> QED BY InvoicesStart, InvoicesStep, PTL DEF Spec

(* Over all its notes, an invoice is never credited more than it billed      *)
(* (applyCreditNote), whatever the notes and however their applications      *)
(* interleave with other commands.                                           *)
THEOREM CreditsAlwaysWithinInvoice == Spec => []CreditsWithinInvoice
<1>1. InvoiceInv => CreditsWithinInvoice
  <2> SUFFICES ASSUME InvoiceInv, NEW i \in Invoices, NEW n \in Index
               PROVE  credited[i][n] <= IF n \in DOMAIN inv[i].lines THEN inv[i].lines[n].qty ELSE 0
    BY DEF CreditsWithinInvoice
  <2> QED BY RowFacts DEF Holding
<1> QED BY <1>1, InvoicesInvariant, PTL

(* People decide on what they were shown (approveInvoice, the work items of  *)
(* invoice-routes.ts): no exception stands on the approval of an evaluation  *)
(* that was replaced, and every open mismatch is a work item.                *)
THEOREM DecisionsAlwaysFollowEvidence == Spec => []DecisionsFollowEvidence
<1>1. InvoiceInv => DecisionsFollowEvidence
  <2> SUFFICES ASSUME InvoiceInv PROVE DecisionsFollowEvidence
    OBVIOUS
  <2>1. \A i \in Invoices : Decided(inv[i], request[i], work[i])
    BY RowFacts
  <2> QED BY <2>1 DEF Decided, DecisionsFollowEvidence, ApprovalsBindEvidence, WorkItemsAreAnswered
<1> QED BY <1>1, InvoicesInvariant, PTL

(* What the invariant says of a match and of a reservation.                  *)
LEMMA HoldingsStand == InvoiceInv => TypeOK /\ MatchedIsBacked /\ InvoicedQuantityStaysReserved
<1> SUFFICES ASSUME InvoiceInv PROVE TypeOK /\ MatchedIsBacked /\ InvoicedQuantityStaysReserved
  OBVIOUS
<1>1. TypeOK
  <2>1. \A i \in Invoices : inv[i].state \in {"DRAFT", "SUBMITTED", "APPROVED"} => inv[i].version > 0 /\ inv[i].lines # <<>>
    BY RowFacts DEF Decided
  <2> QED BY <2>1 DEF TypeOK, InvoiceInv, Typed, InvoiceRecords, NoteRecords, Requests
<1>2. MatchedIsBacked
  <2> SUFFICES ASSUME NEW i \in Invoices, inv[i].match = "MATCHED", inv[i].state \in {"SUBMITTED", "APPROVED"},
                      NEW n \in DOMAIN inv[i].lines
               PROVE  Taken(i, n) = inv[i].lines[n].qty - credited[i][n]
    BY DEF MatchedIsBacked
  <2>1. CASE inv[i].state = "APPROVED"
    BY <2>1, RowFacts DEF Holding, Taken
  <2>2. CASE inv[i].state = "SUBMITTED"
    <3>1. n \in Index /\ inv[i].lines[n].qty \in Nat
      BY RowLines
    <3>2. SumFunction(alloc[i][n].taken) = inv[i].lines[n].qty /\ credited[i][n] = 0
      BY <2>2, <3>1, RowFacts DEF Holding
    <3> QED BY <3>1, <3>2 DEF Taken
  <2> QED BY <2>1, <2>2
<1>3. InvoicedQuantityStaysReserved
  BY RowFacts DEF InvoicedQuantityStaysReserved, Holding, Reserved, Taken
<1> QED BY <1>1, <1>2, <1>3

(* Receipts back invoices (matchEvaluation, allocateReceiptQuantity,         *)
(* cancelOrRejectInvoice, applyCreditNote): a match stays backed, what is    *)
(* billed stays reserved, and different invoices share no received unit.     *)
(* No unit is billed twice at all as long as no invoice bills one order line *)
(* in two lines of its own, which the match does not compare with each other.*)
THEOREM ReceiptsAlwaysBackInvoices ==
    Spec => [](/\ TypeOK /\ MatchedIsBacked /\ InvoicedQuantityStaysReserved /\ SharedOnce
               /\ BillsLinesOnce => ReceiptsBackInvoices)
<1>1. InvoiceInv => /\ TypeOK /\ MatchedIsBacked /\ InvoicedQuantityStaysReserved /\ SharedOnce
                    /\ BillsLinesOnce => ReceiptsBackInvoices
  <2> SUFFICES ASSUME InvoiceInv, BillsLinesOnce PROVE ReceiptsNotInvoicedTwice
    BY HoldingsStand DEF ReceiptsBackInvoices, InvoiceInv
  <2> SUFFICES ASSUME NEW k \in Slots, NEW l \in Lines
               PROVE  SumFunctionOnSet(TakenOf(k), OnLine(l)) <= Posted(k, l)
    BY DEF ReceiptsNotInvoicedTwice, OnLine, Posted
  <2>1. OneOfEach(OnLine(l))
    <3> SUFFICES ASSUME NEW x \in OnLine(l), NEW y \in OnLine(l), x[1] = y[1] PROVE x = y
      BY DEF OneOfEach
    <3>1. x \in Invoices \X Index /\ y \in Invoices \X Index
      BY DEF OnLine
    <3>2. x[2] = y[2]
      BY <3>1 DEF OnLine, BillsLinesOnce
    <3> QED BY <3>1, <3>2
  <2> QED BY <2>1 DEF InvoiceInv, SharedOnce
<1> QED BY <1>1, InvoicesInvariant, PTL

(* With one line per invoice, what the model-checked instance has, nothing   *)
(* received is billed twice, whatever the other bounds are.                  *)
THEOREM OneLineInvoicesAlwaysBacked == ASSUME MaxLines = 1 PROVE Spec => []ReceiptsBackInvoices
<1>1. InvoiceInv => BillsLinesOnce
  <2> SUFFICES ASSUME InvoiceInv, NEW i \in Invoices, NEW m \in DOMAIN inv[i].lines, NEW n \in DOMAIN inv[i].lines
               PROVE  m = n
    BY DEF BillsLinesOnce
  <2>1. m \in 1..1 /\ n \in 1..1
    BY RowLines DEF Index
  <2> QED BY <2>1
<1> QED BY <1>1, InvoicesInvariant, ReceiptsAlwaysBackInvoices, PTL

=============================================================================
