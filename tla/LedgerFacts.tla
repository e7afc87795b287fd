----------------------------- MODULE LedgerFacts ----------------------------
(***************************************************************************)
(* Facts about Ledger that the proofs share.  The six ways to process a    *)
(* block that succeed are instances of one step, Appended, and the six     *)
(* ways to undo one instances of Removed; the conjuncts of LedgerInv are   *)
(* then carried through those two steps once.  The last part is about the  *)
(* blocks that rest on the target of a rollback.                           *)
(***************************************************************************)
EXTENDS LedgerProperties, Laws, TLAPS

(* Enough time for a step on a busy machine.                                *)
USE ZenonT(60)

(* A stored block whose sideband a step keeps, its successor excepted.      *)
Kept(h) ==
  /\ blocks'[h].account = blocks[h].account
  /\ blocks'[h].balance = blocks[h].balance
  /\ blocks'[h].height = blocks[h].height
  /\ blocks'[h].epoch = blocks[h].epoch

-----------------------------------------------------------------------------
(* The writes shared by the handlers.                                       *)

(* rep_weights stays a table of amounts whatever is added to it.            *)
LEMMA RepresentationType ==
  ASSUME NEW w \in [Account -> Amount], NEW r, NEW d \in Int
  PROVE  representation_add(w, r, d) \in [Account -> Amount]
<1>1. \A x \in Amount : (x + d) % Modulus \in Amount
  BY SMTT(60), ConstantsAssumption DEF Amount
<1>2. CASE r \in Account
  BY <1>1, <1>2 DEF representation_add
<1>3. CASE r \notin Account
  BY <1>3 DEF representation_add
<1> QED BY <1>2, <1>3

(* A remainder can be taken early.                                          *)
LEMMA RemainderEarly ==
  ASSUME NEW m \in Nat \ {0}, NEW x \in Int, NEW d \in Int
  PROVE  ((x % m) + d) % m = (x + d) % m
<1> DEFINE q == x \div m
           r == x % m
           k == (r + d) \div m
           t == (r + d) % m
<1>1. q \in Int /\ r \in 0 .. m - 1 /\ x = m * q + r
  BY SMTT(60)
<1>2. k \in Int /\ t \in 0 .. m - 1 /\ r + d = m * k + t
  BY SMTT(60), <1>1
<1> HIDE DEF q, r, k, t
<1>3. x + d = m * (q + k) + t
  BY SMTT(60), <1>1, <1>2
<1>4. \A i \in Int : (m * i + t) % m = t
  BY SMTT(60), <1>2
<1>5. (m * (q + k) + t) % m = t
  BY SMTT(60), <1>1, <1>2, <1>4
<1> QED BY <1>3, <1>5 DEF r, t

(* What an account whose account_info is info delegates to representative r.*)
delegation(info, r) == IF info.representative = r THEN info.balance ELSE 0

(* The weights w become u when an account goes from old to new.             *)
Moved(w, u, old, new) ==
  \A r \in Account : u[r] = (w[r] - delegation(old, r) + delegation(new, r)) % Modulus

at(x, v, r) == IF x = r THEN v ELSE 0

(* What one call of representation_add does to every weight.                *)
LEMMA AddedOnce ==
  ASSUME NEW w \in [Account -> Amount], NEW x \in Account, NEW v \in Int
  PROVE  /\ representation_add(w, x, v) \in [Account -> Amount]
         /\ \A r \in Account : representation_add(w, x, v)[r] = (w[r] + at(x, v, r)) % Modulus
<1>1. \A y \in Amount : y \in Int /\ y % Modulus = y
  BY SMTT(60), ConstantsAssumption DEF Amount
<1>2. \A r \in Account : representation_add(w, x, v)[r] = (w[r] + at(x, v, r)) % Modulus
  <2> TAKE r \in Account
  <2>1. CASE r = x
    BY <2>1 DEF representation_add, at
  <2>2. CASE r # x
    <3>1. representation_add(w, x, v)[r] = w[r] /\ at(x, v, r) = 0 /\ w[r] \in Amount
      BY <2>2 DEF representation_add, at
    <3> QED BY SMTT(60), <1>1, <3>1
  <2> QED BY <2>1, <2>2
<1> QED BY <1>2, RepresentationType

(* What two calls do.                                                       *)
Twice(w, u, x, v, y, z) ==
  /\ u \in [Account -> Amount]
  /\ \A r \in Account : u[r] = (w[r] + at(x, v, r) + at(y, z, r)) % Modulus

(* Two calls of representation_add, whatever they add.                      *)
LEMMA AddedTwice ==
  ASSUME NEW w \in [Account -> Amount], NEW x \in Account, NEW v \in Int,
         NEW y \in Account, NEW z \in Int, NEW u,
         u = representation_add(representation_add(w, x, v), y, z)
  PROVE  Twice(w, u, x, v, y, z)
<1> DEFINE t == representation_add(w, x, v)
<1>1. t \in [Account -> Amount] /\ \A r \in Account : t[r] = (w[r] + at(x, v, r)) % Modulus
  BY AddedOnce
<1>2. u = representation_add(t, y, z)
  OBVIOUS
<1> HIDE DEF t
<1>3. u \in [Account -> Amount] /\ \A r \in Account : u[r] = (t[r] + at(y, z, r)) % Modulus
  BY SMTT(60), <1>1, <1>2, AddedOnce
<1>4. ASSUME NEW r \in Account
      PROVE  u[r] = (w[r] + at(x, v, r) + at(y, z, r)) % Modulus
  <2> DEFINE before == w[r] + at(x, v, r)
             delta == at(y, z, r)
  <2>1. before \in Int /\ delta \in Int /\ Modulus \in Nat \ {0}
    BY SMTT(60), ConstantsAssumption DEF at, Amount
  <2>2. u[r] = ((before % Modulus) + delta) % Modulus
    BY <1>1, <1>3, <1>4
  <2> HIDE DEF before, delta
  <2>3. u[r] = (before + delta) % Modulus
    BY <2>1, <2>2, RemainderEarly
  <2> QED BY <2>3 DEF before, delta
<1> QED BY <1>3, <1>4 DEF Twice

(* One call moves the weight of an account that keeps its representative.   *)
LEMMA MovedOnce ==
  ASSUME NEW w \in [Account -> Amount], NEW x \in Account, NEW v \in Int,
         NEW old, NEW new, old.balance \in Int, new.balance \in Int,
         old.representative = x \/ old.balance = 0,
         new.representative = x \/ new.balance = 0,
         new.balance % Modulus = (old.balance + v) % Modulus,
         NEW u, u = representation_add(w, x, v)
  PROVE  u \in [Account -> Amount] /\ Moved(w, u, old, new)
<1>0. Modulus \in Nat \ {0}
  BY ConstantsAssumption
<1>1. u \in [Account -> Amount] /\ \A r \in Account : u[r] = (w[r] + at(x, v, r)) % Modulus
  BY AddedOnce
<1>2. ASSUME NEW r \in Account
      PROVE  u[r] = (w[r] - delegation(old, r) + delegation(new, r)) % Modulus
  <2> DEFINE o == old.balance
             n == new.balance
             d == w[r] - o
  <2>1. o \in Int /\ n \in Int /\ w[r] \in Int /\ d \in Int
    BY SMTT(60) DEF Amount
  <2>2. CASE r = x
    <3>1. delegation(old, r) = o /\ delegation(new, r) = n /\ at(x, v, r) = v
      BY <2>2 DEF delegation, at
    <3>2. ((n % Modulus) + d) % Modulus = (n + d) % Modulus
      BY <1>0, <2>1, RemainderEarly
    <3>3. (((o + v) % Modulus) + d) % Modulus = ((o + v) + d) % Modulus
      <4>1. o + v \in Int
        BY SMTT(60), <2>1
      <4> QED BY <1>0, <2>1, <4>1, RemainderEarly
    <3>4. n + d = w[r] - o + n /\ (o + v) + d = w[r] + v
      BY SMTT(60), <2>1
    <3> QED BY <1>1, <3>1, <3>2, <3>3, <3>4
  <2>3. CASE r # x
    <3>1. delegation(old, r) = 0 /\ delegation(new, r) = 0 /\ at(x, v, r) = 0
      BY SMTT(60), <2>3 DEF delegation, at
    <3> QED BY SMTT(60), <1>1, <2>1, <3>1
  <2> QED BY <2>2, <2>3
<1> QED BY <1>1, <1>2 DEF Moved

(* Two calls move it from one representative to another.                    *)
LEMMA MovedTwice ==
  ASSUME NEW w \in [Account -> Amount], NEW old, NEW new, NEW u,
         old.balance \in Int, new.balance \in Int,
         old.representative \in Account, new.representative \in Account,
         \/ u = representation_add(representation_add(w, old.representative, 0 - old.balance),
                                   new.representative, new.balance)
         \/ u = representation_add(representation_add(w, new.representative, new.balance),
                                   old.representative, 0 - old.balance)
  PROVE  u \in [Account -> Amount] /\ Moved(w, u, old, new)
<1> DEFINE x == old.representative
           y == new.representative
           v == 0 - old.balance
           z == new.balance
<1>1. v \in Int /\ z \in Int /\ x \in Account /\ y \in Account
  BY SMTT(60)
<1>2. \A r \in Account : /\ at(x, v, r) = 0 - delegation(old, r)
                         /\ at(y, z, r) = delegation(new, r)
                         /\ delegation(old, r) \in Int /\ delegation(new, r) \in Int
                         /\ w[r] \in Int
  BY SMTT(60) DEF at, delegation, Amount
<1> HIDE DEF x, y, v, z
<1>3. CASE u = representation_add(representation_add(w, x, v), y, z)
  <2>1. Twice(w, u, x, v, y, z)
    BY <1>1, <1>3, AddedTwice
  <2>2. \A r \in Account : w[r] + at(x, v, r) + at(y, z, r)
                           = w[r] - delegation(old, r) + delegation(new, r)
    BY SMTT(60), <1>2
  <2> QED BY <2>1, <2>2 DEF Moved, Twice
<1>4. CASE u = representation_add(representation_add(w, y, z), x, v)
  <2>1. Twice(w, u, y, z, x, v)
    BY <1>1, <1>4, AddedTwice
  <2>2. \A r \in Account : w[r] + at(y, z, r) + at(x, v, r)
                           = w[r] - delegation(old, r) + delegation(new, r)
    BY SMTT(60), <1>2
  <2> QED BY <2>1, <2>2 DEF Moved, Twice
<1> QED BY <1>3, <1>4 DEF x, y, v, z

(* An account that keeps its representative and balance moves nothing.      *)
LEMMA MovedNone ==
  ASSUME NEW w \in [Account -> Amount], NEW old, NEW new, old.balance \in Int,
         new.balance = old.balance, new.representative = old.representative
  PROVE  Moved(w, w, old, new)
<1> SUFFICES ASSUME NEW r \in Account
             PROVE  w[r] = (w[r] - delegation(old, r) + delegation(new, r)) % Modulus
  BY DEF Moved
<1>1. delegation(new, r) = delegation(old, r) /\ delegation(old, r) \in Int
  BY SMTT(60) DEF delegation
<1>2. w[r] \in 0 .. Modulus - 1 /\ Modulus \in Nat
  BY ConstantsAssumption DEF Amount
<1>3. w[r] - delegation(old, r) + delegation(old, r) = w[r]
  BY SMTT(60), <1>1, <1>2
<1>4. w[r] % Modulus = w[r]
  BY SMTT(60), <1>2
<1> QED BY <1>1, <1>3, <1>4

(* Records made of typed parts have the fields they were made of.           *)
LEMMA SidebandMade ==
  ASSUME NEW x, NEW v, NEW n, NEW e,
         x \in Account, v \in Amount, n \in Nat, e \in Epoch
  PROVE  /\ block_sideband(x, v, n, e) \in Sideband
         /\ block_sideband(x, v, n, e).account = x
         /\ block_sideband(x, v, n, e).balance = v
         /\ block_sideband(x, v, n, e).height = n
         /\ block_sideband(x, v, n, e).epoch = e
         /\ block_sideband(x, v, n, e).successor = Zero
BY DEF block_sideband, Sideband

(* The same of an account_info.                                             *)
LEMMA InfoMade ==
  ASSUME NEW h, NEW r, NEW o, NEW v, NEW n, NEW e,
         h \in Hash \cup {Zero}, r \in Account, o \in Hash \cup {Zero},
         v \in Amount, n \in Nat, e \in Epoch
  PROVE  /\ account_info(h, r, o, v, n, e) \in AccountInfo
         /\ account_info(h, r, o, v, n, e).head = h
         /\ account_info(h, r, o, v, n, e).open_block = o
         /\ account_info(h, r, o, v, n, e).balance = v
         /\ account_info(h, r, o, v, n, e).block_count = n
         /\ account_info(h, r, o, v, n, e).representative = r
         /\ account_info(h, r, o, v, n, e).epoch = e
BY DEF account_info, AccountInfo

(* The types of the fields of an account_info.                              *)
LEMMA InfoFields ==
  ASSUME NEW info \in AccountInfo
  PROVE  /\ info.head \in Hash \cup {Zero} /\ info.representative \in Account
         /\ info.open_block \in Hash \cup {Zero} /\ info.balance \in Amount
         /\ info.block_count \in Nat /\ info.block_count + 1 \in Nat /\ info.epoch \in Epoch
BY SMTT(60) DEF AccountInfo

(* The default-constructed account_info.                                    *)
LEMMA NoInfoFields ==
  /\ NoInfo.head = Zero /\ NoInfo.open_block = Zero
  /\ NoInfo.balance = 0 /\ NoInfo.block_count = 0
  /\ NoInfo.representative = Zero /\ NoInfo.epoch = 0
BY DEF NoInfo

(* Amounts are numbers, and what is left of one is an amount.               *)
LEMMA Amounts ==
  ASSUME NEW x \in Amount
  PROVE  /\ x \in Int /\ 0 - x \in Int /\ ~(x < 0)
         /\ \A y \in Amount : ~(x < y) => y <= x /\ x - y \in Amount
         /\ \A y \in Amount : y < x => y <= x /\ x - y \in Amount
BY SMTT(60), ConstantsAssumption DEF Amount

(* The epochs and amounts that the handlers write as literals.              *)
LEMMA Literals == 0 \in Epoch /\ 0 \in Amount /\ 1 \in Nat
BY SMTT(60), ConstantsAssumption DEF Epoch, Amount

(* block_put adds one block and keeps the others but for a successor.       *)
LEMMA BlockPut ==
  ASSUME TypeOK, NEW b \in Hash, b \notin stored, NEW sb \in Sideband, block_put(b, sb)
  PROVE  /\ stored' = stored \cup {b}
         /\ blocks' \in [stored' -> Sideband]
         /\ \A h \in stored : Kept(h)
         /\ blocks'[b] = sb
         /\ \A h \in stored :
              blocks'[h].successor = IF h = Block[b].previous THEN b ELSE blocks[h].successor
<1>1. stored' = stored \cup {b} /\ blocks'[b] = sb
  BY DEF block_put, stored
<1>2. ASSUME NEW h \in stored
      PROVE  /\ Kept(h) /\ blocks'[h] \in Sideband
             /\ blocks'[h].successor = IF h = Block[b].previous THEN b ELSE blocks[h].successor
  <2>1. blocks[h] \in Sideband
    BY <1>2 DEF TypeOK, stored
  <2>2. blocks'[h] = IF h = Block[b].previous THEN [blocks[h] EXCEPT !.successor = b] ELSE blocks[h]
    BY <1>2 DEF block_put, stored
  <2> QED BY <2>1, <2>2 DEF Kept, Sideband
<1>3. blocks' = [h \in stored' |-> blocks'[h]]
  BY <1>1 DEF block_put, stored
<1> QED BY <1>1, <1>2, <1>3

(* block_del with block_successor_clear removes one block.                  *)
LEMMA BlockDel ==
  ASSUME TypeOK, NEW b \in stored, block_del(b)
  PROVE  /\ stored' = stored \ {b}
         /\ blocks' \in [stored' -> Sideband]
         /\ \A h \in stored' : Kept(h)
         /\ \A h \in stored' :
              blocks'[h].successor = IF h = Block[b].previous THEN Zero ELSE blocks[h].successor
<1>1. stored' = stored \ {b}
  BY DEF block_del, stored
<1>2. ASSUME NEW h \in stored'
      PROVE  /\ Kept(h) /\ blocks'[h] \in Sideband
             /\ blocks'[h].successor = IF h = Block[b].previous THEN Zero ELSE blocks[h].successor
  <2>1. h \in stored /\ blocks[h] \in Sideband
    BY <1>1, <1>2 DEF TypeOK, stored
  <2>2. blocks'[h] = IF h = Block[b].previous THEN [blocks[h] EXCEPT !.successor = Zero]
                     ELSE blocks[h]
    BY <1>1, <1>2 DEF block_del, stored
  <2> QED BY <2>1, <2>2 DEF Kept, Sideband
<1>3. blocks' = [h \in stored' |-> blocks'[h]]
  BY <1>1 DEF block_del, stored
<1> QED BY <1>1, <1>2, <1>3

(* change_latest with a head: the account is updated, or opened with        *)
(* nothing cemented.                                                        *)
LEMMA ChangeLatestHead ==
  ASSUME TypeOK, HeightsKnown, HeadsStored,
         NEW a \in Account, NEW new \in AccountInfo, new.head # Zero,
         new.open_block = new.head \/ a \in DOMAIN accounts,
         change_latest(a, account_get(a), new)
  PROVE  /\ DOMAIN accounts' = DOMAIN accounts \cup {a}
         /\ accounts' \in [DOMAIN accounts' -> AccountInfo]
         /\ accounts'[a] = new
         /\ \A x \in DOMAIN accounts : x # a => accounts'[x] = accounts[x]
         /\ DOMAIN confirmation_height' = DOMAIN accounts'
         /\ confirmation_height' \in [DOMAIN confirmation_height' -> HeightInfo]
         /\ a \in DOMAIN accounts => /\ confirmation_height' = confirmation_height
                                     /\ account_count' = account_count
         /\ a \notin DOMAIN accounts => /\ confirmation_height'[a] = [height |-> 0, frontier |-> Zero]
                                        /\ account_count' = account_count + 1
         /\ \A x \in DOMAIN accounts : confirmation_height'[x] = confirmation_height[x]
<1> DEFINE none == [height |-> 0, frontier |-> Zero]
<1>1. accounts' = Put(accounts, a, new)
  BY DEF change_latest
<1>2. /\ DOMAIN accounts' = DOMAIN accounts \cup {a}
      /\ accounts' \in [DOMAIN accounts' -> AccountInfo]
      /\ accounts'[a] = new
      /\ \A x \in DOMAIN accounts : x # a => accounts'[x] = accounts[x]
  BY <1>1 DEF Put, TypeOK
<1>3. CASE a \in DOMAIN accounts
  <2>1. account_get(a).head # Zero
    BY <1>3, ConstantsAssumption DEF account_get, HeadsStored, TypeOK, stored
  <2>2. confirmation_height' = confirmation_height /\ account_count' = account_count + 0
    BY <2>1 DEF change_latest
  <2> QED BY SMTT(60), <1>2, <1>3, <2>2 DEF TypeOK, HeightsKnown
<1>4. CASE a \notin DOMAIN accounts
  <2>1. account_get(a).head = Zero
    BY <1>4 DEF account_get, NoInfo
  <2>2. confirmation_height' = Put(confirmation_height, a, none)
        /\ account_count' = account_count + 1
    BY <1>4, <2>1 DEF change_latest
  <2>3. none \in HeightInfo
    BY DEF HeightInfo
  <2>4. /\ DOMAIN confirmation_height' = DOMAIN accounts'
        /\ confirmation_height' \in [DOMAIN confirmation_height' -> HeightInfo]
        /\ confirmation_height'[a] = none
        /\ \A x \in DOMAIN accounts : confirmation_height'[x] = confirmation_height[x]
    BY <1>2, <1>4, <2>2, <2>3 DEF Put, TypeOK, HeightsKnown
  <2> QED BY <1>2, <1>4, <2>2, <2>4
<1> QED BY <1>3, <1>4

(* change_latest without a head: the account and its confirmation height go.*)
LEMMA ChangeLatestNone ==
  ASSUME TypeOK, HeightsKnown, NEW a \in DOMAIN accounts, NEW old, NEW new,
         new.head = Zero, change_latest(a, old, new)
  PROVE  /\ DOMAIN accounts' = DOMAIN accounts \ {a}
         /\ accounts' \in [DOMAIN accounts' -> AccountInfo]
         /\ \A x \in DOMAIN accounts' : accounts'[x] = accounts[x]
         /\ DOMAIN confirmation_height' = DOMAIN accounts'
         /\ confirmation_height' \in [DOMAIN confirmation_height' -> HeightInfo]
         /\ \A x \in DOMAIN accounts' : confirmation_height'[x] = confirmation_height[x]
         /\ account_count' = account_count - 1
<1>1. accounts' = Del(accounts, a) /\ confirmation_height' = Del(confirmation_height, a)
      /\ account_count' = account_count - 1
  BY DEF change_latest
<1> QED BY <1>1 DEF Del, TypeOK, HeightsKnown

-----------------------------------------------------------------------------
(* What a block is worth, sends or receives is read from its contents and   *)
(* from the balance of its previous block.                                  *)

(* balance as a function of the sidebands.                                  *)
worth(sidebands, h) ==
  IF h = Zero THEN 0
  ELSE IF Block[h].type \in {"send", "state"} THEN Block[h].balance ELSE sidebands[h].balance

(* The balance of a block follows from its kept sideband.                   *)
LEMMA BalanceKept ==
  ASSUME NEW h \in Hash, Kept(h)
  PROVE  balance(h)' = balance(h)
BY DEF Kept, balance, block_balance_calculated

(* So does its version.                                                     *)
LEMMA VersionKept ==
  ASSUME NEW h, h \in stored, h \in stored', Kept(h)
  PROVE  block_version(h)' = block_version(h)
BY DEF Kept, block_version, block_exists, stored

(* Whether a block sends or receives does not change while its previous     *)
(* block keeps its sideband.                                                *)
LEMMA ReadsKept ==
  ASSUME NEW h \in Hash,
         Block[h].previous # Zero => Block[h].previous \in Hash /\ Kept(Block[h].previous)
  PROVE  /\ sends(h)' = sends(h)
         /\ block_source(h)' = block_source(h)
         /\ dependent_blocks(h)' = dependent_blocks(h)
         /\ is_receiver(h)' = is_receiver(h)
         /\ balance(Block[h].previous)' = balance(Block[h].previous)
<1>1. balance(Block[h].previous)' = balance(Block[h].previous)
  <2>1. CASE Block[h].previous = Zero
    BY <2>1 DEF balance
  <2>2. CASE Block[h].previous # Zero
    BY <2>2, BalanceKept
  <2> QED BY <2>1, <2>2
<1>2. sends(h)' = sends(h)
  BY <1>1 DEF sends
<1> QED BY <1>1, <1>2 DEF block_source, dependent_blocks, is_receiver

(* Nor does the amount it moves.                                            *)
LEMMA AmountKept ==
  ASSUME NEW h \in Hash, Kept(h),
         Block[h].previous # Zero => Block[h].previous \in Hash /\ Kept(Block[h].previous)
  PROVE  amount(h)' = amount(h)
<1>1. balance(h)' = balance(h) /\ balance(Block[h].previous)' = balance(Block[h].previous)
  BY BalanceKept, ReadsKept
<1> QED BY <1>1 DEF amount

(* A stored block has its balance in range.                                 *)
LEMMA BalanceType ==
  ASSUME TypeOK, NEW h, h \in stored \/ h = Zero
  PROVE  balance(h) \in Amount
<1>1. CASE h = Zero
  BY SMTT(60), <1>1, ConstantsAssumption DEF balance, Amount
<1>2. CASE h \in stored
  <2>1. h \in Hash /\ blocks[h].balance \in Amount /\ Block[h].balance \in Amount /\ h # Zero
    BY <1>2, BlockAssumption, ConstantsAssumption DEF TypeOK, stored, Sideband, BlockContents
  <2> QED BY <2>1 DEF balance, block_balance_calculated
<1> QED BY <1>1, <1>2

(* Fields of a block.                                                       *)
LEMMA Contents ==
  ASSUME NEW b \in Hash
  PROVE  /\ owner(b) \in Account /\ Block[b].representative \in Account
         /\ Block[b].balance \in Amount /\ Block[b].balance \in Int
         /\ Block[b].link \in Account \cup EpochLink \cup Hash
         /\ Block[b].previous \in Hash \cup {Zero}
         /\ Block[b].type \in BlockType
         /\ b # Zero
BY SMTT(60), BlockAssumption, ConstantsAssumption DEF BlockContents, owner, Amount

(* Whether a stored block is cemented, in terms of its owner.               *)
LEMMA Confirmed ==
  ASSUME BlocksOwned, NEW h \in stored
  PROVE  /\ block_account(h) = owner(h)
         /\ block_confirmed(h) <=> blocks[h].height <= confirmation_height[owner(h)].height
BY DEF BlocksOwned, block_confirmed, block_exists, block_account, stored, owner

(* No rollback is under way after a step that leaves no activation.         *)
LEMMA EmptyStack ==
  ASSUME stack' = <<>>
  PROVE  StackInv'
<1>1. 1 .. Len(stack') = {} /\ 2 .. Len(stack') = {}
  BY SMTT(60)
<1> QED BY <1>1 DEF StackInv, ActivationsMatch, OnlyTopUnvisited, VisitedAreHeads,
                           NestedAtHead, NestedLater

(* A step that leaves the tables and counters alone.                        *)
LEMMA TablesKept ==
  ASSUME LedgerInv, UNCHANGED <<tables, block_count, account_count, cemented_count,
                                epoch_2_started>>,
         rep_weights' \in [Account -> Amount], stack' \in Seq(Frame)
  PROVE  /\ TypeOK' /\ ChainInv' /\ LinkInv' /\ SendInv' /\ WorthInv' /\ CementInv'
         /\ CountsRight'
         /\ \A h : sends(h)' = sends(h) /\ block_confirmed(h)' = block_confirmed(h)
<1> USE DEF tables
<1>1. /\ stored' = stored
      /\ \A h : /\ owner(h)' = owner(h) /\ sends(h)' = sends(h) /\ balance(h)' = balance(h)
                /\ is_receiver(h)' = is_receiver(h) /\ can_vote(h)' = can_vote(h)
                /\ block_confirmed(h)' = block_confirmed(h)
                /\ amount(h)' = amount(h) /\ block_version(h)' = block_version(h)
  <2>1. stored' = stored
    BY DEF stored
  <2>2. \A h : owner(h)' = owner(h) /\ balance(h)' = balance(h)
    BY DEF owner, balance, block_balance_calculated
  <2>3. \A h : sends(h)' = sends(h)
    BY <2>2 DEF sends
  <2>4. \A h : is_receiver(h)' = is_receiver(h) /\ dependent_blocks(h)' = dependent_blocks(h)
    BY <2>2, <2>3 DEF is_receiver, dependent_blocks, block_source, balance,
                      block_balance_calculated
  <2>5. \A h : block_confirmed(h)' = block_confirmed(h)
    BY DEF block_confirmed, block_exists, block_account
  <2>6. \A h : can_vote(h)' = can_vote(h)
    BY <2>4, <2>5 DEF can_vote
  <2>7. \A h : amount(h)' = amount(h) /\ block_version(h)' = block_version(h)
    BY <2>2 DEF amount, block_version, block_exists
  <2> QED BY <2>1, <2>2, <2>3, <2>4, <2>5, <2>6, <2>7
<1>2. TypeOK'
  BY DEF LedgerInv, TypeOK
<1>3. ChainInv'
  <2>1. BlocksOwned'
    BY <1>1 DEF LedgerInv, ChainInv, BlocksOwned
  <2>2. BlocksOnPrevious'
    BY <1>1 DEF LedgerInv, ChainInv, BlocksOnPrevious
  <2>3. HeightsOrdered'
    BY <1>1 DEF LedgerInv, ChainInv, HeightsOrdered
  <2>4. HeadsStored'
    BY <1>1 DEF LedgerInv, ChainInv, HeadsStored
  <2>5. ChangesKeepBalance'
    BY <1>1 DEF LedgerInv, ChainInv, ChangesKeepBalance
  <2>6. FrontiersAreHeads'
    BY <1>1 DEF LedgerInv, ChainInv, FrontiersAreHeads
  <2> QED BY <2>1, <2>2, <2>3, <2>4, <2>5, <2>6 DEF ChainInv
<1>4. SendInv'
  <2>1. ReceiversHaveSends'
    BY <1>1 DEF LedgerInv, SendInv, ReceiversHaveSends
  <2>2. PendingAreSends'
    BY <1>1 DEF LedgerInv, SendInv, PendingAreSends
  <2>3. PendingNotReceived'
    BY <1>1 DEF LedgerInv, SendInv, PendingNotReceived
  <2>4. ReceivedOnce'
    BY <1>1 DEF LedgerInv, SendInv, ReceivedOnce
  <2>5. SendsAccounted'
    BY <1>1 DEF LedgerInv, SendInv, SendsAccounted
  <2> QED BY <2>1, <2>2, <2>3, <2>4, <2>5 DEF SendInv
<1>5. CementInv'
  <2>1. HeightsKnown'
    BY <1>1 DEF LedgerInv, CementInv, HeightsKnown
  <2>2. GenesisCemented'
    BY <1>1 DEF LedgerInv, CementInv, GenesisCemented
  <2>3. CementedOnCemented'
    BY <1>1 DEF LedgerInv, CementInv, CementedOnCemented
  <2>4. CementedFrontiers'
    BY <1>1 DEF LedgerInv, CementInv, CementedFrontiers
  <2> QED BY <2>1, <2>2, <2>3, <2>4 DEF CementInv
<1>6. LinkInv'
  <2>1. NeighboursLinked'
    BY <1>1 DEF LedgerInv, LinkInv, NeighboursLinked
  <2>2. OpenBlocksStored'
    BY <1>1 DEF LedgerInv, LinkInv, OpenBlocksStored
  <2>3. LegacyHeadsAreFrontiers'
    BY <1>1 DEF LedgerInv, LinkInv, LegacyHeadsAreFrontiers
  <2> QED BY <2>1, <2>2, <2>3 DEF LinkInv
<1>7. WorthInv'
  <2>1. HeadsInForce'
    BY <1>1 DEF LedgerInv, WorthInv, HeadsInForce
  <2>2. PendingExact'
    BY <1>1 DEF LedgerInv, WorthInv, PendingExact
  <2>3. ReceiptsMatch'
    BY <1>1 DEF LedgerInv, WorthInv, ReceiptsMatch
  <2>4. SendsPay'
    BY <1>1 DEF LedgerInv, WorthInv, SendsPay
  <2>5. OthersKeepBalance'
    BY <1>1 DEF LedgerInv, WorthInv, OthersKeepBalance
  <2>6. EpochsRise'
    BY <1>1 DEF LedgerInv, WorthInv, EpochsRise
  <2> QED BY <2>1, <2>2, <2>3, <2>4, <2>5, <2>6 DEF WorthInv
<1>8. CountsRight'
  BY <1>1 DEF LedgerInv, CountsRight
<1> QED BY <1>1, <1>2, <1>3, <1>4, <1>5, <1>6, <1>7, <1>8

(* A step that changes nothing.                                             *)
LEMMA UnchangedInv ==
  ASSUME LedgerInv, UNCHANGED vars
  PROVE  LedgerInv'
<1>1. /\ UNCHANGED <<tables, block_count, account_count, cemented_count, epoch_2_started>>
      /\ rep_weights' \in [Account -> Amount] /\ stack' \in Seq(Frame)
  BY DEF LedgerInv, TypeOK, vars, tables
<1>2. /\ TypeOK' /\ ChainInv' /\ LinkInv' /\ SendInv' /\ WorthInv' /\ CementInv'
      /\ CountsRight' /\ \A h : sends(h)' = sends(h)
  BY <1>1, TablesKept
<1>3. StackInv'
  BY <1>2 DEF LedgerInv, StackInv, ActivationsMatch, OnlyTopUnvisited, VisitedAreHeads,
              NestedAtHead, NestedLater, vars, stored, owner
<1> QED BY <1>2, <1>3 DEF LedgerInv

-----------------------------------------------------------------------------
(* The step that adds a block.                                              *)
AppendedBlocks(b) ==
  /\ b \in Hash /\ b \notin stored
  /\ stored' = stored \cup {b}
  /\ blocks' \in [stored' -> Sideband]
  /\ \A h \in stored : Kept(h)
  /\ blocks'[b].account = owner(b)

AppendedAccounts(b) ==
  LET a == owner(b)
      previous == Block[b].previous
  IN /\ a \in Account
     /\ DOMAIN accounts' = DOMAIN accounts \cup {a}
     /\ accounts' \in [DOMAIN accounts' -> AccountInfo]
     /\ \A x \in DOMAIN accounts : x # a => accounts'[x] = accounts[x]
     /\ accounts'[a].head = b
     /\ accounts'[a].block_count = blocks'[b].height
     /\ accounts'[a].balance = block_balance_calculated(b)'
     /\ DOMAIN confirmation_height' = DOMAIN accounts'
     /\ confirmation_height' \in [DOMAIN confirmation_height' -> HeightInfo]
     /\ \A x \in DOMAIN accounts : confirmation_height'[x] = confirmation_height[x]
     /\ a \in DOMAIN accounts =>
          /\ previous = accounts[a].head
          /\ blocks'[b].height = accounts[a].block_count + 1
          /\ Block[b].type # "state" => Block[previous].type # "state"
          /\ account_count' = account_count
     /\ a \notin DOMAIN accounts =>
          /\ previous = Zero
          /\ Block[b].type \in {"open", "state"}
          /\ blocks'[b].height = 1
          /\ confirmation_height'[a] = [height |-> 0, frontier |-> Zero]
          /\ account_count' = account_count + 1
     /\ Block[b].type = "change" => /\ previous # Zero
                                    /\ blocks'[b].balance = balance(previous)

AppendedPending(b) ==
  LET key == <<owner(b), Block[b].link>>
  IN \/ /\ sends(b)
        /\ \E info \in PendingInfo : /\ info.source = owner(b)
                                     /\ pending' = Put(pending, <<Block[b].link, b>>, info)
     \/ is_receiver(b) /\ key \in DOMAIN pending /\ pending' = Del(pending, key)
     \/ ~sends(b) /\ ~is_receiver(b) /\ pending' = pending

AppendedFrontiers(b) ==
  /\ DOMAIN frontiers' \subseteq Hash
  /\ frontiers' \in [DOMAIN frontiers' -> Account]
  /\ \A h \in DOMAIN frontiers' :
       \/ h = b /\ frontiers'[h] = owner(b) /\ Block[h].type # "state"
       \/ h \in DOMAIN frontiers /\ h # Block[b].previous /\ frontiers'[h] = frontiers[h]

SuccessorsPut(b) ==
  /\ blocks'[b].successor = Zero
  /\ \A h \in stored :
       blocks'[h].successor = IF h = Block[b].previous THEN b ELSE blocks[h].successor
  /\ accounts'[owner(b)].open_block =
       IF owner(b) \in DOMAIN accounts THEN accounts[owner(b)].open_block ELSE b

FrontiersMoved(b) ==
  /\ Block[b].type # "state" => b \in DOMAIN frontiers'
  /\ \A h \in DOMAIN frontiers : h # Block[b].previous => h \in DOMAIN frontiers'

AppendedWorth(b) ==
  LET B == Block[b]
      new == accounts'[owner(b)]
      before == balance(B.previous)
      key == <<owner(b), B.link>>
      sent == pending'[<<B.link, b>>]
  IN /\ B.type \in {"send", "receive"} =>
          /\ owner(b) \in DOMAIN accounts
          /\ new.representative = accounts[owner(b)].representative
     /\ B.type \notin {"send", "receive"} => new.representative = B.representative
     /\ new.epoch = (IF B.type = "state" THEN blocks'[b].epoch ELSE 0)
     /\ owner(b) \in DOMAIN accounts => accounts[owner(b)].epoch <= new.epoch
     /\ new.epoch = 2 => epoch_2_started'
     /\ epoch_2_started => epoch_2_started'
     /\ sends(b) =>
          B.balance <= before /\ sent.amount = before - B.balance /\ sent.epoch = new.epoch
     /\ is_receiver(b) =>
          /\ B.type = "state" => B.balance - before = pending[key].amount
          /\ B.type = "open" => blocks'[b].balance = pending[key].amount
          /\ B.type = "receive" => blocks'[b].balance = (before + pending[key].amount) % Modulus
          /\ B.type # "state" => pending[key].epoch = 0
     /\ B.type = "state" /\ ~sends(b) /\ ~is_receiver(b) => B.balance = before

AppendedWeights(b) ==
  Moved(rep_weights, rep_weights', account_get(owner(b)), accounts'[owner(b)])

Appended(b) ==
  /\ AppendedBlocks(b) /\ AppendedAccounts(b) /\ AppendedPending(b) /\ AppendedFrontiers(b)
  /\ SuccessorsPut(b) /\ FrontiersMoved(b) /\ AppendedWorth(b) /\ AppendedWeights(b)
  /\ rep_weights' \in [Account -> Amount]
  /\ block_count' = block_count + 1
  /\ cemented_count' = cemented_count
  /\ epoch_2_started' \in BOOLEAN
  /\ stack = <<>> /\ stack' = <<>>

(* The step that undoes the head of an account, for the activation on top.  *)
RemovedBlocks(h) ==
  /\ h \in stored
  /\ stored' = stored \ {h}
  /\ blocks' \in [stored' -> Sideband]
  /\ \A k \in stored' : Kept(k)

RemovedAccounts(h) ==
  LET a == owner(h)
      previous == Block[h].previous
  IN /\ a \in DOMAIN accounts /\ accounts[a].head = h
     /\ blocks[h].height > confirmation_height[a].height
     /\ accounts' \in [DOMAIN accounts' -> AccountInfo]
     /\ previous = Zero => /\ DOMAIN accounts' = DOMAIN accounts \ {a}
                           /\ account_count' = account_count - 1
     /\ previous # Zero => /\ DOMAIN accounts' = DOMAIN accounts
                           /\ account_count' = account_count
                           /\ accounts'[a].head = previous
                           /\ accounts'[a].block_count = accounts[a].block_count - 1
                           /\ accounts'[a].balance = balance(previous)
     /\ \A x \in DOMAIN accounts' : x # a => accounts'[x] = accounts[x]
     /\ DOMAIN confirmation_height' = DOMAIN accounts'
     /\ confirmation_height' \in [DOMAIN confirmation_height' -> HeightInfo]
     /\ \A x \in DOMAIN accounts' : confirmation_height'[x] = confirmation_height[x]

RemovedPending(h) ==
  LET link == Block[h].link
  IN \/ /\ sends(h) /\ <<link, h>> \in DOMAIN pending
        /\ pending' = Del(pending, <<link, h>>)
     \/ /\ is_receiver(h)
        /\ \E info \in PendingInfo : /\ info.source = owner(link)
                                     /\ pending' = Put(pending, <<owner(h), link>>, info)
     \/ ~sends(h) /\ ~is_receiver(h) /\ pending' = pending

RemovedFrontiers(h) ==
  /\ DOMAIN frontiers' \subseteq Hash
  /\ frontiers' \in [DOMAIN frontiers' -> Account]
  /\ \A k \in DOMAIN frontiers' :
       \/ /\ k = Block[h].previous /\ k # Zero
          /\ frontiers'[k] = owner(h) /\ Block[k].type # "state"
       \/ k \in DOMAIN frontiers /\ k # h /\ frontiers'[k] = frontiers[k]

SuccessorCleared(h) ==
  LET previous == Block[h].previous
  IN /\ \A k \in stored' :
          blocks'[k].successor = IF k = previous THEN Zero ELSE blocks[k].successor
     /\ previous # Zero => accounts'[owner(h)].open_block = accounts[owner(h)].open_block

FrontiersRestored(h) ==
  LET previous == Block[h].previous
  IN /\ previous # Zero /\ Block[previous].type # "state" => previous \in DOMAIN frontiers'
     /\ \A k \in DOMAIN frontiers : k # h => k \in DOMAIN frontiers'

RemovedWorth(h) ==
  LET previous == Block[h].previous
      link == Block[h].link
      back == pending'[<<owner(h), link>>]
      now == accounts'[owner(h)]
  IN /\ previous # Zero =>
          /\ now.representative = Block[representative_block[previous]].representative
          /\ now.epoch = block_version(previous)
     /\ is_receiver(h) => back.amount = amount(link) /\ back.epoch = block_version(link)

RemovedWeights(h) ==
  LET a == owner(h)
      now == IF Block[h].previous = Zero THEN NoInfo ELSE accounts'[a]
  IN IF Block[h].type = "state" /\ sends(h)
     THEN rep_weights' = rep_weights /\ stack[Len(stack)].visit = h
     ELSE Moved(rep_weights, rep_weights', accounts[a], now)

RemovedStack(h) ==
  LET n == Len(stack)
  IN /\ n > 0 /\ top.block \in stored /\ top.account = owner(h)
     /\ stack' \in Seq(Frame) /\ Len(stack') = n
     /\ \A i \in 1 .. n : i # n => stack'[i] = stack[i]
     /\ stack'[n].visit = Zero /\ stack'[n].block = top.block
     /\ stack'[n].account = top.account /\ stack'[n].height = top.height

Removed(h) ==
  /\ RemovedBlocks(h) /\ RemovedAccounts(h) /\ RemovedPending(h) /\ RemovedFrontiers(h)
  /\ SuccessorCleared(h) /\ FrontiersRestored(h) /\ RemovedWorth(h) /\ RemovedWeights(h)
  /\ RemovedStack(h)
  /\ rep_weights' \in [Account -> Amount]
  /\ block_count' = block_count - 1
  /\ cemented_count' = cemented_count /\ epoch_2_started' = epoch_2_started

-----------------------------------------------------------------------------
(* The block undone: an uncemented head, of the account of the activation   *)
(* on top.                                                                  *)
Undoable(h) ==
  /\ stack # <<>> /\ top.block \in stored /\ top.account = owner(h)
  /\ h \in stored /\ h \in Hash /\ owner(h) \in DOMAIN accounts /\ accounts[owner(h)].head = h
  /\ blocks[h].height > confirmation_height[owner(h)].height
  /\ h # GenesisHash

(* What representative_visitor computes, unfolded one block at a time.      *)
RepresentativeInForce ==
  /\ representative_block \in [Hash -> Hash]
  /\ \A h \in Hash :
       representative_block[h] =
         IF Block[h].type \in {"send", "receive"} /\ Block[h].previous \in Hash
         THEN representative_block[Block[h].previous] ELSE h

(* Facts about a block to be undone that every visitor uses.                *)
LEMMA UndoableFacts ==
  ASSUME LedgerInv, RepresentativeInForce, NEW h, Undoable(h)
  PROVE  /\ accounts[owner(h)] \in AccountInfo
         /\ accounts[owner(h)].block_count - 1 \in Nat
         /\ Block[h].previous \in Hash \cup {Zero}
         /\ Block[h].previous = Zero \/ Block[h].previous \in stored
         /\ balance(Block[h].previous) \in Amount
         /\ representative_before(h) \in Account
         /\ block_version(Block[h].previous) \in Epoch
         /\ Block[h].type \notin {"open", "state"} => Block[h].previous # Zero
         /\ Block[h].previous # Zero =>
              /\ owner(Block[h].previous) = owner(h)
              /\ Block[h].type # "state" => Block[Block[h].previous].type # "state"
<1> DEFINE previous == Block[h].previous
<1>0. TypeOK /\ BlocksOwned /\ BlocksOnPrevious /\ HeadsStored
  BY DEF LedgerInv, ChainInv
<1>1. h \in stored /\ h \in Hash /\ owner(h) \in DOMAIN accounts /\ accounts[owner(h)].head = h
  BY DEF Undoable
<1>2. accounts[owner(h)] \in AccountInfo
  BY <1>0, <1>1 DEF TypeOK
<1>3. accounts[owner(h)].block_count - 1 \in Nat
  BY SMTT(60), <1>0, <1>1, <1>2 DEF AccountInfo, BlocksOwned, HeadsStored
<1>4. previous \in Hash \cup {Zero} /\ (previous = Zero \/ previous \in stored)
  BY <1>0, <1>1, Contents DEF BlocksOnPrevious
<1>5. balance(previous) \in Amount
  BY <1>0, <1>4, BalanceType
<1>6. representative_before(h) \in Account
  <2>1. CASE previous = Zero
    BY <2>1, ConstantsAssumption DEF representative_before
  <2>2. CASE previous \in Hash
    <3>1. representative_block[previous] \in Hash
      BY <2>2 DEF RepresentativeInForce
    <3> QED BY <2>2, <3>1, Contents, ConstantsAssumption DEF representative_before
  <2> QED BY <1>4, <2>1, <2>2
<1>7. block_version(previous) \in Epoch
  BY SMTT(60), <1>0 DEF block_version, block_exists, TypeOK, Sideband, Epoch
<1> QED BY <1>0, <1>1, <1>2, <1>3, <1>4, <1>5, <1>6, <1>7 DEF BlocksOnPrevious

(* Changing one activation leaves the others alone.                         *)
LEMMA StackExcept ==
  ASSUME NEW s \in Seq(Frame), NEW n \in 1 .. Len(s), NEW t \in Frame, NEW u,
         u = [s EXCEPT ![n] = t]
  PROVE  /\ u \in Seq(Frame) /\ Len(u) = Len(s) /\ u[n] = t
         /\ \A i \in 1 .. Len(s) : i # n => u[i] = s[i]
BY SMTT(60)

(* The activations below the top are of other accounts: a nested rollback   *)
(* undoes its target only, which was created after the sends that wait.     *)
LEMMA OthersApart ==
  ASSUME LedgerInv, NEW a, stack # <<>>, top.block \in stored, top.account = a
  PROVE  \A i \in 1 .. Len(stack) : i # Len(stack) =>
           /\ accounts[a].head = top.block
           /\ stack[i].visit # Zero
           /\ stack[i].account # a
<1> SUFFICES ASSUME NEW i \in 1 .. Len(stack), i # Len(stack)
             PROVE  /\ accounts[a].head = top.block
                    /\ stack[i].visit # Zero
                    /\ stack[i].account # a
  OBVIOUS
<1>0. /\ stack \in Seq(Frame) /\ OnlyTopUnvisited /\ VisitedAreHeads /\ NestedAtHead
      /\ NestedLater /\ DOMAIN blocks \subseteq Hash
  BY DEF LedgerInv, TypeOK, StackInv
<1>1. /\ Len(stack) \in 2 .. Len(stack) /\ i < Len(stack) /\ Len(stack) \in 1 .. Len(stack)
  BY SMTT(60), <1>0
<1>2. accounts[a].head = top.block
  BY <1>0, <1>1 DEF NestedAtHead, top
<1>3. stack[i].visit # Zero
  BY <1>0, <1>1 DEF OnlyTopUnvisited
<1>4. accounts[stack[i].account].head = stack[i].visit /\ stack[i].visit \in Hash
  BY <1>0, <1>3 DEF VisitedAreHeads, stored
<1>5. Rank[stack[i].visit] < Rank[top.block]
  BY <1>0, <1>1 DEF NestedLater, top
<1>6. Rank[stack[i].visit] \in Nat
  BY <1>4, RankAssumption
<1> QED BY SMTT(60), <1>2, <1>3, <1>4, <1>5, <1>6

-----------------------------------------------------------------------------
(* Cementing the next block of an account.                                  *)
LEMMA CementStep ==
  ASSUME LedgerInv, NEW a \in Account, Cement(a)
  PROVE  LedgerInv' /\ \A k \in stored : block_confirmed(k) => block_confirmed(k)'
<1>0. /\ TypeOK /\ BlocksOwned /\ HeightsOrdered /\ HeightsKnown /\ GenesisCemented
      /\ CementedOnCemented /\ CementedFrontiers
      /\ stack = <<>> /\ stack' = <<>> /\ a \in DOMAIN accounts
      /\ blocks' = blocks /\ accounts' = accounts /\ pending' = pending
      /\ frontiers' = frontiers /\ rep_weights' = rep_weights /\ block_count' = block_count
      /\ account_count' = account_count /\ epoch_2_started' = epoch_2_started
      /\ cemented_count' = cemented_count + 1 /\ stored' = stored
  BY DEF LedgerInv, ChainInv, CementInv, Cement, stored
<1>1. PICK h \in stored :
        /\ block_account(h) = a /\ blocks[h].height = confirmation_height[a].height + 1
        /\ can_vote(h)
        /\ confirmation_height' =
             Put(confirmation_height, a, [height |-> blocks[h].height, frontier |-> h])
  BY DEF Cement, stored
<1>2. owner(h) = a /\ h \in Hash /\ blocks[h].height \in Nat
      /\ blocks[h].height <= accounts[a].block_count
  BY <1>0, <1>1, Confirmed DEF BlocksOwned, TypeOK, stored, Sideband
<1>3. \A x \in DOMAIN accounts : confirmation_height[x].height \in Nat
  BY <1>0 DEF TypeOK, HeightsKnown, HeightInfo
<1>4. /\ DOMAIN confirmation_height' = DOMAIN accounts
      /\ confirmation_height' \in [DOMAIN accounts -> HeightInfo]
      /\ confirmation_height'[a] = [height |-> blocks[h].height, frontier |-> h]
      /\ \A x \in DOMAIN accounts : x # a => confirmation_height'[x] = confirmation_height[x]
  <2>1. [height |-> blocks[h].height, frontier |-> h] \in HeightInfo
    BY <1>2 DEF HeightInfo
  <2> QED BY <1>0, <1>1, <2>1 DEF Put, HeightsKnown, TypeOK
<1>5. \A k : /\ owner(k)' = owner(k) /\ sends(k)' = sends(k) /\ balance(k)' = balance(k)
             /\ is_receiver(k)' = is_receiver(k) /\ dependent_blocks(k)' = dependent_blocks(k)
             /\ amount(k)' = amount(k) /\ block_version(k)' = block_version(k)
  <2>1. \A k : owner(k)' = owner(k) /\ sends(k)' = sends(k) /\ balance(k)' = balance(k)
    BY <1>0 DEF owner, sends, balance, block_balance_calculated
  <2>2. \A k : is_receiver(k)' = is_receiver(k) /\ dependent_blocks(k)' = dependent_blocks(k)
    BY <2>1 DEF is_receiver, dependent_blocks, block_source
  <2>3. \A k : amount(k)' = amount(k) /\ block_version(k)' = block_version(k)
    BY <1>0, <2>1 DEF amount, block_version, block_exists
  <2> QED BY <2>1, <2>2, <2>3
<1>6. \A k \in stored : /\ block_confirmed(k)' <=>
                             blocks[k].height <= confirmation_height'[owner(k)].height
                        /\ block_confirmed(k) <=>
                             blocks[k].height <= confirmation_height[owner(k)].height
                        /\ owner(k) \in DOMAIN accounts /\ blocks[k].height \in Nat
  BY <1>0, Confirmed DEF block_confirmed, block_exists, block_account, BlocksOwned, owner, stored,
                         TypeOK, Sideband
<1>7. ASSUME NEW k \in stored
      PROVE  block_confirmed(k)' <=> block_confirmed(k) \/ k = h
  <2>1. CASE owner(k) # a
    BY <1>2, <1>4, <1>6, <2>1
  <2>2. CASE owner(k) = a
    <3>1. blocks[k].height = blocks[h].height => k = h
      BY <1>0, <1>2, <2>2 DEF HeightsOrdered
    <3>2. /\ blocks[k].height \in Nat /\ confirmation_height[a].height \in Nat
          /\ blocks[h].height = confirmation_height[a].height + 1
      BY <1>0, <1>1, <1>3, <1>6
    <3>3. /\ block_confirmed(k)' <=> blocks[k].height <= blocks[h].height
          /\ block_confirmed(k) <=> blocks[k].height <= confirmation_height[a].height
      BY SMTT(60), <1>4, <1>6, <2>2
    <3> QED BY SMTT(60), <3>1, <3>2, <3>3
  <2> QED BY <2>1, <2>2
<1>8. TypeOK'
  BY SMTT(60), <1>0, <1>4 DEF TypeOK
<1>9. ChainInv'
  <2>1. BlocksOwned'
    BY <1>0, <1>5 DEF BlocksOwned
  <2>2. BlocksOnPrevious'
    BY <1>0, <1>5 DEF LedgerInv, ChainInv, BlocksOnPrevious
  <2>3. HeightsOrdered'
    BY <1>0 DEF HeightsOrdered, owner
  <2>4. HeadsStored'
    BY <1>0, <1>5 DEF LedgerInv, ChainInv, HeadsStored
  <2>5. ChangesKeepBalance'
    BY <1>0, <1>5 DEF LedgerInv, ChainInv, ChangesKeepBalance
  <2>6. FrontiersAreHeads'
    BY <1>0 DEF LedgerInv, ChainInv, FrontiersAreHeads
  <2> QED BY <2>1, <2>2, <2>3, <2>4, <2>5, <2>6 DEF ChainInv
<1>10. SendInv'
  BY <1>0, <1>5
     DEF LedgerInv, SendInv, ReceiversHaveSends, PendingAreSends, PendingNotReceived,
                    ReceivedOnce, SendsAccounted
<1>11. HeightsKnown'
  <2> SUFFICES ASSUME NEW x \in DOMAIN accounts
               PROVE  confirmation_height'[x].height <= accounts[x].block_count
    BY <1>0, <1>4 DEF HeightsKnown
  <2>1. CASE x = a
    BY SMTT(60), <1>2, <1>4, <2>1
  <2>2. CASE x # a
    BY <1>0, <1>4, <2>2 DEF HeightsKnown
  <2> QED BY <2>1, <2>2
<1>12. GenesisCemented'
  BY <1>0, <1>7 DEF GenesisCemented
<1>13. CementedOnCemented'
  <2> SUFFICES ASSUME NEW k \in stored, block_confirmed(k)', NEW d \in dependent_blocks(k)
               PROVE  block_confirmed(d)'
    BY <1>0, <1>5 DEF CementedOnCemented, can_vote
  <2>1. block_confirmed(d)
    BY <1>0, <1>1, <1>7 DEF CementedOnCemented, can_vote
  <2> QED BY <1>7, <2>1 DEF block_confirmed, block_exists, stored
<1>14. CementedFrontiers'
  <2> SUFFICES ASSUME NEW x \in DOMAIN accounts
               PROVE  LET info == confirmation_height'[x]
                      IN IF info.height = 0 THEN info.frontier = Zero
                         ELSE info.frontier \in stored /\ owner(info.frontier) = x
                              /\ blocks[info.frontier].height = info.height
    BY <1>0, <1>4 DEF CementedFrontiers, owner
  <2>1. CASE x = a
    <3>1. confirmation_height[a].height \in Nat
      BY <1>0, <1>3
    <3>2. blocks[h].height # 0
      BY SMTT(60), <1>1, <3>1
    <3> QED BY SMTT(60), <1>2, <1>4, <2>1, <3>2
  <2>2. CASE x # a
    BY <1>0, <1>4, <2>2 DEF CementedFrontiers, HeightsKnown
  <2> QED BY <2>1, <2>2
<1>15. StackInv'
  BY <1>0, EmptyStack
<1>16. CountsRight'
  BY <1>0, <1>5 DEF LedgerInv, CountsRight
<1>17. LinkInv'
  BY <1>0, <1>5
     DEF LedgerInv, LinkInv, NeighboursLinked, OpenBlocksStored, LegacyHeadsAreFrontiers
<1>18. WorthInv'
  <2>1. HeadsInForce'
    BY <1>0, <1>5 DEF LedgerInv, WorthInv, HeadsInForce
  <2>2. PendingExact'
    BY <1>0, <1>5 DEF LedgerInv, WorthInv, PendingExact
  <2>3. ReceiptsMatch'
    BY <1>0, <1>5 DEF LedgerInv, WorthInv, ReceiptsMatch
  <2>4. SendsPay' /\ OthersKeepBalance'
    BY <1>0, <1>5 DEF LedgerInv, WorthInv, SendsPay, OthersKeepBalance
  <2>5. EpochsRise'
    BY <1>0, <1>5 DEF LedgerInv, WorthInv, EpochsRise
  <2> QED BY <2>1, <2>2, <2>3, <2>4, <2>5 DEF WorthInv
<1> QED BY <1>7, <1>8, <1>9, <1>10, <1>11, <1>12, <1>13, <1>14, <1>15, <1>16, <1>17, <1>18
       DEF LedgerInv, CementInv

(* The store as block_store_partial::initialize leaves it.                  *)
LEMMA InitInv ==
  ASSUME Init, CountsRight, RepresentativeInForce
  PROVE  LedgerInv
<1> DEFINE g == GenesisHash
           a == GenesisAccount
<1>0. /\ g \in Hash /\ a \in Account /\ a # Zero /\ a \notin Hash /\ Zero \notin Hash /\ g # Zero
      /\ Block[g].type = "open" /\ owner(g) = a /\ Block[g].previous = Zero /\ Block[g].link = a
      /\ Modulus - 1 \in Amount /\ 0 \in Amount
  BY SMTT(60), GenesisAssumption, BlockAssumption, ConstantsAssumption DEF owner, Destination, Amount
<1>1. /\ stored = {g} /\ blocks[g] = block_sideband(a, Modulus - 1, 1, 0)
      /\ blocks \in [{g} -> Sideband]
  BY <1>0, SidebandMade, Literals DEF Init, stored
<1>2. /\ DOMAIN accounts = {a} /\ accounts[a] = account_info(g, a, g, Modulus - 1, 1, 0)
      /\ accounts \in [{a} -> AccountInfo]
  BY <1>0, InfoMade, Literals DEF Init
<1>3. /\ DOMAIN confirmation_height = {a} /\ confirmation_height[a] = [height |-> 1, frontier |-> g]
      /\ confirmation_height \in [{a} -> HeightInfo]
  BY <1>0 DEF Init, HeightInfo
<1>4. /\ blocks[g].account = a /\ blocks[g].height = 1 /\ blocks[g].balance = Modulus - 1
      /\ blocks[g].successor = Zero
      /\ accounts[a].head = g /\ accounts[a].block_count = 1 /\ accounts[a].balance = Modulus - 1
      /\ accounts[a].open_block = g /\ accounts[a].representative = a /\ accounts[a].epoch = 0
      /\ confirmation_height[a].height = 1 /\ confirmation_height[a].frontier = g
  BY SMTT(60), <1>0, <1>1, <1>2, <1>3, SidebandMade, InfoMade, Literals
<1>5. DOMAIN pending = {} /\ DOMAIN frontiers = {g} /\ frontiers[g] = a /\ stack = <<>>
  BY DEF Init
<1>6. ~sends(g) /\ ~is_receiver(g) /\ balance(g) = Modulus - 1 /\ dependent_blocks(g) = {}
  BY <1>0, <1>4 DEF sends, is_receiver, balance, block_balance_calculated, dependent_blocks,
                    block_source
<1>7. block_confirmed(g)
  BY SMTT(60), <1>0, <1>1, <1>4 DEF block_confirmed, block_exists, block_account, stored
<1>8. TypeOK
  <2>1. pending \in [DOMAIN pending -> PendingInfo]
    BY DEF Init
  <2>2. frontiers \in [{g} -> Account] /\ rep_weights \in [Account -> Amount]
    BY <1>0 DEF Init
  <2>3. /\ block_count = 1 /\ account_count = 1 /\ cemented_count = 1
        /\ epoch_2_started = FALSE
    BY DEF Init
  <2>4. stack \in Seq(Frame) /\ DOMAIN frontiers = {g} /\ DOMAIN pending = {}
    BY SMTT(60), <1>5
  <2>5. DOMAIN blocks \subseteq Hash /\ blocks \in [DOMAIN blocks -> Sideband]
    BY <1>0, <1>1 DEF stored
  <2>6. DOMAIN accounts \subseteq Account /\ accounts \in [DOMAIN accounts -> AccountInfo]
    BY <1>0, <1>2
  <2>7. /\ DOMAIN confirmation_height \subseteq Account
        /\ confirmation_height \in [DOMAIN confirmation_height -> HeightInfo]
    BY <1>0, <1>3
  <2> QED BY <1>0, <2>1, <2>2, <2>3, <2>4, <2>5, <2>6, <2>7 DEF TypeOK
<1>9. ChainInv
  <2>1. BlocksOwned
    BY SMTT(60), <1>0, <1>1, <1>2, <1>4 DEF BlocksOwned
  <2>2. BlocksOnPrevious
    BY <1>0, <1>1, <1>4 DEF BlocksOnPrevious
  <2>3. HeightsOrdered
    BY SMTT(60), <1>0, <1>1, RankAssumption DEF HeightsOrdered
  <2>4. HeadsStored
    BY <1>0, <1>1, <1>2, <1>4, <1>6 DEF HeadsStored
  <2>5. ChangesKeepBalance /\ FrontiersAreHeads
    BY <1>0, <1>1, <1>2, <1>4, <1>5 DEF ChangesKeepBalance, FrontiersAreHeads
  <2> QED BY <2>1, <2>2, <2>3, <2>4, <2>5 DEF ChainInv
<1>10. SendInv
  BY <1>1, <1>5, <1>6 DEF SendInv, ReceiversHaveSends, PendingAreSends, PendingNotReceived,
                          ReceivedOnce, SendsAccounted
<1>11. CementInv
  <2>1. HeightsKnown
    BY SMTT(60), <1>2, <1>3, <1>4 DEF HeightsKnown
  <2>2. GenesisCemented
    BY <1>1, <1>4, <1>7 DEF GenesisCemented
  <2>3. CementedOnCemented
    BY <1>1, <1>6 DEF CementedOnCemented, can_vote
  <2>4. CementedFrontiers
    BY SMTT(60), <1>0, <1>1, <1>3, <1>4 DEF CementedFrontiers
  <2> QED BY <2>1, <2>2, <2>3, <2>4 DEF CementInv
<1>12. StackInv
  <2>1. 1 .. Len(stack) = {} /\ 2 .. Len(stack) = {}
    BY SMTT(60), <1>5
  <2> QED BY <2>1
             DEF StackInv, ActivationsMatch, OnlyTopUnvisited, VisitedAreHeads, NestedAtHead,
                      NestedLater
<1>13. LinkInv
  BY <1>0, <1>1, <1>2, <1>4, <1>5
     DEF LinkInv, NeighboursLinked, OpenBlocksStored, LegacyHeadsAreFrontiers
<1>14. WorthInv
  <2>1. block_version(g) = 0 /\ representative_block[g] = g /\ Block[g].representative = a
    BY <1>0, GenesisAssumption DEF block_version, RepresentativeInForce
  <2>2. HeadsInForce
    BY <1>2, <1>4, <2>1 DEF HeadsInForce
  <2>3. PendingExact /\ ReceiptsMatch /\ SendsPay /\ OthersKeepBalance
    BY <1>0, <1>1, <1>5, <1>6
       DEF PendingExact, ReceiptsMatch, SendsPay, OthersKeepBalance
  <2>4. EpochsRise
    <3>1. block_version(g) # 2
      BY SMTT(60), <2>1
    <3> QED BY <1>0, <1>1, <3>1 DEF EpochsRise
  <2> QED BY <2>2, <2>3, <2>4 DEF WorthInv
<1> QED BY <1>8, <1>9, <1>10, <1>11, <1>12, <1>13, <1>14 DEF LedgerInv

-----------------------------------------------------------------------------
(* What the reads of the old state and of the new one have in common when a *)
(* block is added.                                                          *)
AppendedReads(b) ==
  /\ b \in Hash /\ stored \subseteq Hash /\ Zero \notin stored
  /\ owner(b) \in DOMAIN accounts => Block[b].previous \in stored
  /\ \A h \in stored : blocks[h].height \in Nat /\ blocks'[h].height = blocks[h].height
  /\ blocks'[b].height \in Nat
  /\ \A h \in stored : Block[h].previous # Zero => Block[h].previous \in stored
  /\ \A h \in stored \cup {b} : /\ sends(h)' = sends(h)
                                /\ dependent_blocks(h)' = dependent_blocks(h)
                                /\ is_receiver(h)' = is_receiver(h)
  /\ \A h \in stored : balance(h)' = balance(h)

(* What the other proofs about an added block use of the old state.         *)
LEMMA AppendedFacts ==
  ASSUME LedgerInv, NEW b, Appended(b)
  PROVE  AppendedReads(b)
<1> USE DEF Appended, LedgerInv, ChainInv
<1>1. b \in Hash /\ stored \subseteq Hash /\ Zero \notin stored
  BY ConstantsAssumption DEF AppendedBlocks, TypeOK, stored
<1>2. owner(b) \in DOMAIN accounts => Block[b].previous \in stored
  BY DEF AppendedAccounts, HeadsStored
<1>3. \A h \in stored : Block[h].previous # Zero => Block[h].previous \in stored
  BY DEF BlocksOnPrevious
<1>4. \A h \in stored : blocks[h].height \in Nat /\ blocks'[h].height = blocks[h].height
  BY DEF AppendedBlocks, Kept, TypeOK, stored, Sideband
<1>5. blocks'[b].height \in Nat
  BY DEF AppendedBlocks, Sideband
<1>6. \A h \in stored : balance(h)' = balance(h)
  BY <1>1, BalanceKept DEF AppendedBlocks
<1>7. \A h \in stored \cup {b} :
        Block[h].previous # Zero => Block[h].previous \in Hash /\ Kept(Block[h].previous)
  BY <1>1, <1>2, <1>3 DEF AppendedBlocks, AppendedAccounts
<1>8. \A h \in stored \cup {b} : /\ sends(h)' = sends(h)
                                 /\ dependent_blocks(h)' = dependent_blocks(h)
                                 /\ is_receiver(h)' = is_receiver(h)
  BY <1>1, <1>7, ReadsKept
<1> QED BY <1>1, <1>2, <1>3, <1>4, <1>5, <1>6, <1>8 DEF AppendedReads

(* What else the old state and the new one have in common.                  *)
AppendedValues(b) ==
  /\ \A h \in stored : block_version(h)' = block_version(h) /\ amount(h)' = amount(h)
  /\ \A h \in stored \cup {b} : balance(Block[h].previous)' = balance(Block[h].previous)
  /\ Block[b].previous # Zero <=> owner(b) \in DOMAIN accounts

(* Stored blocks keep their versions and amounts when a block is added.     *)
LEMMA AppendedKeepsValues ==
  ASSUME LedgerInv, NEW b, Appended(b)
  PROVE  AppendedValues(b)
<1> AppendedReads(b)
  BY AppendedFacts
<1>0. AppendedBlocks(b) /\ AppendedAccounts(b) /\ HeadsStored
  BY DEF Appended, LedgerInv, ChainInv
<1>1. Block[b].previous # Zero <=> owner(b) \in DOMAIN accounts
  BY <1>0 DEF AppendedAccounts, AppendedReads, HeadsStored
<1>2. \A h \in stored : h \in Hash /\ h \in stored' /\ Kept(h)
  BY <1>0 DEF AppendedBlocks, AppendedReads
<1>3. \A h \in stored \cup {b} :
        Block[h].previous # Zero => Block[h].previous \in Hash /\ Kept(Block[h].previous)
  BY <1>1, <1>2 DEF AppendedReads
<1>4. \A h \in stored : block_version(h)' = block_version(h)
  BY <1>2, VersionKept
<1>5. \A h \in stored : amount(h)' = amount(h)
  BY <1>2, <1>3, AmountKept
<1>6. \A h \in stored \cup {b} : balance(Block[h].previous)' = balance(Block[h].previous)
  BY <1>2, <1>3, ReadsKept DEF AppendedReads
<1> QED BY <1>1, <1>4, <1>5, <1>6 DEF AppendedValues

(* The same when the head of an account is undone.                          *)
RemovedReads(h) ==
  /\ h \in Hash /\ stored \subseteq Hash /\ Zero \notin stored
  /\ stored' = stored \ {h} /\ h \in stored
  /\ blocks[h].height = accounts[owner(h)].block_count
  /\ \A k \in stored : blocks[k].height \in Nat
  /\ \A k \in stored : Block[k].previous # Zero =>
       Block[k].previous \in stored /\ Block[k].previous # h
  /\ \A k \in stored : is_receiver(k) => Block[k].link # h
  /\ \A k \in stored' : /\ blocks'[k].height = blocks[k].height
                        /\ blocks'[k].balance = blocks[k].balance
                        /\ balance(k)' = balance(k)
                        /\ sends(k)' = sends(k)
                        /\ dependent_blocks(k)' = dependent_blocks(k)
                        /\ is_receiver(k)' = is_receiver(k)

(* What the proofs about an undone block use of the old state: nothing      *)
(* stands on the head of an account, and no stored block receives it.       *)
LEMMA RemovedFacts ==
  ASSUME LedgerInv, NEW h, Removed(h)
  PROVE  RemovedReads(h)
<1>0. /\ RemovedBlocks(h) /\ RemovedAccounts(h) /\ RemovedPending(h)
      /\ TypeOK /\ BlocksOwned /\ BlocksOnPrevious /\ HeadsStored
      /\ ReceiversHaveSends /\ PendingNotReceived
  BY DEF Removed, LedgerInv, ChainInv, SendInv
<1>1. /\ h \in Hash /\ stored \subseteq Hash /\ Zero \notin stored
      /\ stored' = stored \ {h} /\ h \in stored
  BY <1>0, ConstantsAssumption DEF RemovedBlocks, TypeOK, stored
<1>2. blocks[h].height = accounts[owner(h)].block_count
  BY <1>0 DEF RemovedAccounts, HeadsStored
<1>3. \A k \in stored : blocks[k].height \in Nat
  BY <1>0 DEF TypeOK, stored, Sideband
<1>4. \A k \in stored : Block[k].previous # Zero =>
        Block[k].previous \in stored /\ Block[k].previous # h
  <2> SUFFICES ASSUME NEW k \in stored, Block[k].previous # Zero
               PROVE  Block[k].previous \in stored /\ Block[k].previous # h
    OBVIOUS
  <2>1. /\ Block[k].previous \in stored /\ owner(Block[k].previous) = owner(k)
        /\ blocks[k].height = blocks[Block[k].previous].height + 1
    BY <1>0 DEF BlocksOnPrevious
  <2>2. blocks[k].height <= accounts[owner(k)].block_count
    BY <1>0 DEF BlocksOwned
  <2> QED BY SMTT(60), <1>2, <1>3, <2>1, <2>2
<1>5. \A k \in stored : is_receiver(k) => Block[k].link # h
  <2>1. CASE sends(h) /\ <<Block[h].link, h>> \in DOMAIN pending
    BY <1>0, <2>1 DEF PendingNotReceived
  <2>2. CASE ~sends(h)
    BY <1>0, <2>2 DEF ReceiversHaveSends
  <2> QED BY <1>0, <2>1, <2>2 DEF RemovedPending, is_receiver
<1>6. \A k \in stored' : /\ blocks'[k].height = blocks[k].height
                         /\ blocks'[k].balance = blocks[k].balance
                         /\ balance(k)' = balance(k)
  BY <1>0, <1>1, BalanceKept DEF RemovedBlocks, Kept
<1>7. \A k \in stored' : Block[k].previous # Zero =>
        Block[k].previous \in Hash /\ Kept(Block[k].previous)
  BY <1>0, <1>1, <1>4 DEF RemovedBlocks
<1>8. \A k \in stored' : /\ sends(k)' = sends(k)
                         /\ dependent_blocks(k)' = dependent_blocks(k)
                         /\ is_receiver(k)' = is_receiver(k)
  BY <1>1, <1>7, ReadsKept
<1> QED BY <1>1, <1>2, <1>3, <1>4, <1>5, <1>6, <1>8 DEF RemovedReads

(* What else the old state and the new one have in common.                  *)
RemovedValues(h) ==
  \A k \in stored' : /\ block_version(k)' = block_version(k)
                     /\ amount(k)' = amount(k)
                     /\ balance(Block[k].previous)' = balance(Block[k].previous)

(* The blocks that stay keep their versions and amounts.                    *)
LEMMA RemovedKeepsValues ==
  ASSUME LedgerInv, NEW h, Removed(h)
  PROVE  RemovedValues(h)
<1> RemovedReads(h)
  BY RemovedFacts
<1>1. \A k \in stored' : Kept(k) /\ k \in stored /\ k \in Hash
  BY DEF Removed, RemovedBlocks, RemovedReads
<1>2. \A k \in stored' : Block[k].previous # Zero =>
        Block[k].previous \in Hash /\ Kept(Block[k].previous)
  BY <1>1 DEF RemovedReads
<1>3. \A k \in stored' : block_version(k)' = block_version(k)
  BY <1>1, VersionKept
<1>4. \A k \in stored' : amount(k)' = amount(k)
  BY <1>1, <1>2, AmountKept
<1>5. \A k \in stored' : balance(Block[k].previous)' = balance(Block[k].previous)
  BY <1>1, <1>2, ReadsKept
<1> QED BY <1>3, <1>4, <1>5 DEF RemovedValues

-----------------------------------------------------------------------------
(* Weights.  What each account delegates to r is a table of numbers, and    *)
(* the weight of r is their sum.                                            *)
weighed(r) == [a \in DOMAIN accounts |-> delegated(a, r)]
WeighedSummable == \A r \in Account : Summable(weighed(r))

(* An account stands for what its account_info says, or what it said before *)
(* the send that waits.                                                     *)
LEMMA StandingType ==
  ASSUME LedgerInv, NEW a \in DOMAIN accounts
  PROVE  standing(a).balance \in Amount
<1>0. TypeOK /\ HeadsStored /\ BlocksOnPrevious
  BY DEF LedgerInv, ChainInv
<1>1. accounts[a].balance \in Amount
  BY <1>0 DEF TypeOK, AccountInfo
<1>2. balance(Block[accounts[a].head].previous) \in Amount
  BY <1>0, BalanceType DEF HeadsStored, BlocksOnPrevious
<1> QED BY <1>1, <1>2 DEF standing

(* The sums that give the weights are sums of numbers.                      *)
LEMMA WeighedBefore == LedgerInv => WeighedSummable
<1> SUFFICES ASSUME LedgerInv, NEW r \in Account PROVE Summable(weighed(r))
  BY DEF WeighedSummable
<1>1. \A a \in DOMAIN accounts : standing(a).balance \in Int
  BY SMTT(60), StandingType, ConstantsAssumption DEF Amount
<1>2. \A a \in DOMAIN accounts : delegated(a, r) \in Int
  BY SMTT(60), <1>1 DEF delegated
<1>3. IsFiniteSet(DOMAIN accounts)
  BY DEF LedgerInv, CountsRight
<1> QED BY <1>2, <1>3 DEF Summable, weighed

(* The same after a step.                                                   *)
LEMMA WeighedAfter == LedgerInv' => WeighedSummable'
BY WeighedBefore, PTL

(* The weights follow when one account goes from old to new.                *)
LEMMA WeightsFollow ==
  ASSUME SumLaws, LedgerInv, LedgerInv', RepWeightsDelegated, NEW a, NEW old, NEW new,
         \A r \in Account : /\ Differ(weighed(r), weighed(r)', a)
                            /\ part(weighed(r), a) = delegation(old, r)
                            /\ part(weighed(r)', a) = delegation(new, r),
         Moved(rep_weights, rep_weights', old, new)
  PROVE  RepWeightsDelegated'
<1> SUFFICES ASSUME NEW r \in Account
             PROVE  rep_weights'[r] = SumFunction(weighed(r)') % Modulus
  BY DEF RepWeightsDelegated, weighed
<1> DEFINE f == weighed(r)
           g == weighed(r)'
           sum == SumFunction(f)
           d == delegation(new, r) - delegation(old, r)
<1>1. Summable(f) /\ Summable(g)
  BY WeighedBefore, WeighedAfter DEF WeighedSummable, Summable
<1>2. Differ(f, g, a) /\ part(f, a) = delegation(old, r) /\ part(g, a) = delegation(new, r)
  OBVIOUS
<1>3. rep_weights[r] = sum % Modulus
  BY DEF RepWeightsDelegated, weighed
<1>4. rep_weights'[r] = (rep_weights[r] - delegation(old, r) + delegation(new, r)) % Modulus
  BY DEF Moved
<1> HIDE DEF f, g
<1>5. /\ SumFunction(g) = sum - part(f, a) + part(g, a)
      /\ sum \in Int /\ part(f, a) \in Int /\ part(g, a) \in Int
  BY <1>1, <1>2 DEF SumLaws
<1> HIDE DEF sum
<1>6. Modulus \in Nat \ {0} /\ sum % Modulus \in Int /\ d \in Int
  BY SMTT(60), <1>2, <1>5, ConstantsAssumption
<1>7. ((sum % Modulus) + d) % Modulus = (sum + d) % Modulus
  BY <1>5, <1>6, RemainderEarly
<1>8. /\ rep_weights[r] - delegation(old, r) + delegation(new, r) = (sum % Modulus) + d
      /\ SumFunction(g) = sum + d
  BY SMTT(60), <1>2, <1>3, <1>5, <1>6
<1> QED BY <1>4, <1>7, <1>8 DEF g

(* They stay when no account's standing changes.                            *)
LEMMA WeightsStay ==
  ASSUME RepWeightsDelegated, rep_weights' = rep_weights, accounts' = accounts,
         \A a \in DOMAIN accounts : standing(a)' = standing(a)
  PROVE  RepWeightsDelegated'
<1> SUFFICES ASSUME NEW r \in Account
             PROVE  rep_weights'[r] = SumFunction(weighed(r)') % Modulus
  BY DEF RepWeightsDelegated, weighed
<1>1. weighed(r)' = weighed(r)
  BY DEF weighed, delegated
<1> QED BY <1>1 DEF RepWeightsDelegated, weighed

-----------------------------------------------------------------------------
(* What a rollback may remove.                                              *)
direct(h) == Hash \cap {Block[h].previous, Block[h].link}
AncestorsUnfold ==
  /\ ancestors \in [Hash -> SUBSET Hash]
  /\ \A h \in Hash : ancestors[h] = direct(h) \cup UNION {ancestors[d] : d \in direct(h)}

(* Every block has its set of ancestors: those it names were created before.*)
LEMMA AncestorsFound ==
  ASSUME RankLaw, RecursionLaw
  PROVE  AncestorsUnfold
<1> DEFINE V == SUBSET Hash
           up(h, f) == direct(h) \cup UNION {f[d] : d \in direct(h)}
           D == [p \in Hash \X [Hash -> V] |-> up(p[1], p[2])]
           walk(g) == [h \in Hash |->
             (Hash \cap {Block[h].previous, Block[h].link})
             \cup UNION {g[d] : d \in Hash \cap {Block[h].previous, Block[h].link}}]
<1>0. \A h \in Hash : direct(h) \subseteq Hash /\ \A d \in direct(h) : Rank[d] < Rank[h]
  BY RankAssumption DEF direct
<1>1. \A h \in Hash : \A f \in [Hash -> V] : up(h, f) \in V
  BY <1>0
<1>2. \A h \in Hash : \A f \in [Hash -> V] : D[<<h, f>>] = up(h, f)
  OBVIOUS
<1>3. D \in [Hash \X [Hash -> V] -> V]
  BY SMTT(60), <1>1
<1>4. ASSUME NEW h \in Hash, NEW f \in [Hash -> V], NEW g \in [Hash -> V],
             \A y \in Hash : Rank[y] < Rank[h] => f[y] = g[y]
      PROVE  up(h, f) = up(h, g)
  BY <1>0, <1>4
<1> HIDE DEF D, up
<1>5. LooksBack(D, Hash, V, Rank)
  BY SMTT(60), <1>2, <1>4 DEF LooksBack
<1>6. V # {}
  OBVIOUS
<1> HIDE DEF V
<1>7. PICK f : Recurses(f, D, Hash, V)
  BY <1>3, <1>5, <1>6, RankAssumption DEF RecursionLaw
<1>8. f = walk(f)
  BY <1>2, <1>7 DEF Recurses, up, direct
<1>9. ancestors = walk(ancestors)
  BY <1>8 DEF ancestors
<1> DEFINE A == ancestors
           Q == {h \in Hash : A[h] \subseteq Hash}
<1> HIDE DEF A
<1>10. \A h \in Hash : A[h] = direct(h) \cup UNION {A[d] : d \in direct(h)}
  BY <1>9 DEF A, direct
<1>11. ASSUME NEW h \in Hash, \A k \in Hash : Rank[k] < Rank[h] => k \in Q PROVE h \in Q
  BY SMTT(60), <1>0, <1>10, <1>11
<1>12. Hash \subseteq Q
  <2> HIDE DEF Q
  <2> QED BY <1>11, RankAssumption DEF RankLaw
<1>13. A \in [Hash -> SUBSET Hash]
  BY <1>9, <1>12 DEF A
<1> QED BY <1>10, <1>13 DEF A, AncestorsUnfold

(* An ancestor of an ancestor is an ancestor.                               *)
LEMMA AncestorsTransitive ==
  ASSUME RankLaw, AncestorsUnfold, NEW x \in Hash, NEW y \in Hash, y \in ancestors[x]
  PROVE  ancestors[y] \subseteq ancestors[x]
<1> DEFINE Q == {h \in Hash : \A k \in Hash : k \in ancestors[h] => ancestors[k] \subseteq ancestors[h]}
<1>0. \A h \in Hash : direct(h) \subseteq Hash /\ \A d \in direct(h) : Rank[d] < Rank[h]
  BY RankAssumption DEF direct
<1>1. ASSUME NEW h \in Hash, \A d \in Hash : Rank[d] < Rank[h] => d \in Q PROVE h \in Q
  <2> SUFFICES ASSUME NEW k \in Hash, k \in ancestors[h] PROVE ancestors[k] \subseteq ancestors[h]
    OBVIOUS
  <2>1. ancestors[h] = direct(h) \cup UNION {ancestors[d] : d \in direct(h)}
    BY DEF AncestorsUnfold
  <2>2. CASE k \in direct(h)
    BY <2>1, <2>2
  <2>3. CASE \E d \in direct(h) : k \in ancestors[d]
    <3>1. PICK d \in direct(h) : k \in ancestors[d]
      BY <2>3
    <3>2. d \in Q
      BY <1>0, <1>1, <3>1
    <3>3. ancestors[k] \subseteq ancestors[d]
      BY <3>1, <3>2
    <3> QED BY <2>1, <3>1, <3>3
  <2> QED BY <2>1, <2>2, <2>3
<1>2. Hash \subseteq Q
  <2> HIDE DEF Q
  <2> QED BY SMTT(60), <1>1, RankAssumption DEF RankLaw
<1> QED BY <1>2

Descends(x, y) == x = y \/ y \in ancestors[x]

(* To descend from a block is transitive.                                   *)
LEMMA DescendsTransitive ==
  ASSUME RankLaw, AncestorsUnfold, NEW x \in Hash, NEW y \in Hash, NEW z,
         Descends(x, y), Descends(y, z)
  PROVE  Descends(x, z)
BY AncestorsTransitive DEF Descends

(* A block descends from what it names.                                     *)
LEMMA DescendsDirect ==
  ASSUME AncestorsUnfold, NEW h \in Hash, NEW d \in direct(h)
  PROVE  Descends(h, d)
BY DEF AncestorsUnfold, Descends

(* The blocks higher up in a chain descend from those below.                *)
LEMMA ChainDescends ==
  ASSUME RankLaw, AncestorsUnfold, LedgerInv, NEW k \in stored, NEW h \in stored,
         owner(h) = owner(k), blocks[k].height <= blocks[h].height
  PROVE  Descends(h, k)
<1> DEFINE Q == {x \in stored : owner(x) = owner(k) /\ blocks[k].height <= blocks[x].height
                                => Descends(x, k)}
           rank == [x \in stored |-> Rank[x]]
<1>0. /\ BlocksOnPrevious /\ BlocksOwned /\ HeightsOrdered /\ stored \subseteq Hash
      /\ \A x \in stored : blocks[x].height \in Nat
  BY DEF LedgerInv, ChainInv, TypeOK, stored, Sideband
<1>1. rank \in [stored -> Nat] /\ \A x \in stored : rank[x] = Rank[x]
  BY <1>0, RankAssumption
<1> HIDE DEF rank
<1>2. ASSUME NEW x \in stored, \A y \in stored : rank[y] < rank[x] => y \in Q PROVE x \in Q
  <2> SUFFICES ASSUME owner(x) = owner(k), blocks[k].height <= blocks[x].height, x # k
               PROVE  Descends(x, k)
    BY DEF Descends
  <2> DEFINE previous == Block[x].previous
  <2>1. blocks[k].height < blocks[x].height /\ 1 <= blocks[k].height
    BY SMTT(60), <1>0 DEF HeightsOrdered, BlocksOwned
  <2>2. /\ previous \in stored /\ owner(previous) = owner(k)
        /\ blocks[x].height = blocks[previous].height + 1 /\ previous # Zero
    <3>1. IF previous = Zero THEN blocks[x].height = 1
          ELSE /\ previous \in stored /\ owner(previous) = owner(x)
               /\ blocks[x].height = blocks[previous].height + 1
      BY <1>0 DEF BlocksOnPrevious
    <3>2. blocks[x].height # 1
      BY SMTT(60), <1>0, <2>1
    <3> QED BY <3>1, <3>2
  <2>3. previous \in direct(x) /\ Rank[previous] < Rank[x]
    BY <1>0, <2>2, RankAssumption DEF direct
  <2>4. previous \in Q
    BY <1>1, <1>2, <2>2, <2>3
  <2>5. Descends(previous, k)
    <3>1. blocks[k].height \in Nat /\ blocks[previous].height \in Nat
      BY <1>0, <2>2
    <3>2. blocks[k].height <= blocks[previous].height
      BY SMTT(60), <2>1, <2>2, <3>1
    <3> QED BY <2>2, <2>4, <3>2
  <2>6. Descends(x, previous)
    BY <1>0, <2>3, DescendsDirect
  <2> HIDE DEF previous
  <2> QED BY <1>0, <2>2, <2>5, <2>6, DescendsTransitive
<1>3. stored \subseteq Q
  <2> HIDE DEF Q
  <2> QED BY SMTT(60), <1>1, <1>2 DEF RankLaw
<1> QED BY <1>3

-----------------------------------------------------------------------------
(* What a rollback removes.                                                 *)

(* Every activation is for a block that descends from the target of the     *)
(* rollback, or for the target itself.                                      *)
OnStack == \A i \in 1 .. Len(stack) : Descends(stack[i].block, stack[1].block)

(* Without a rollback there are no activations.                             *)
LEMMA NoneOnStack ==
  ASSUME stack = <<>>
  PROVE  OnStack
BY SMTT(60) DEF OnStack

(* Steps that keep the targets of the activations they keep.                *)
LEMMA TargetsKept ==
  ASSUME OnStack, NEW m, m \in Nat, m <= Len(stack), Len(stack) \in Nat, Len(stack') = m,
         \A i \in 1 .. m : stack'[i].block = stack[i].block
  PROVE  OnStack'
<1> SUFFICES ASSUME NEW i \in 1 .. m
             PROVE  Descends(stack'[i].block, stack'[1].block)
  BY DEF OnStack, Descends
<1>1. i \in 1 .. Len(stack) /\ 1 \in 1 .. m
  BY SMTT(60)
<1>2. Descends(stack[i].block, stack[1].block)
  BY <1>1 DEF OnStack
<1> QED BY <1>1, <1>2

(* The head of the account of the activation on top descends from the       *)
(* activation's target, hence from the target of the rollback.              *)
LEMMA TopDescends ==
  ASSUME RankLaw, AncestorsUnfold, LedgerInv, OnStack, NEW h, stack # <<>>,
         top.block \in stored, top.account = owner(h), h \in stored,
         owner(h) \in DOMAIN accounts, accounts[owner(h)].head = h
  PROVE  h \in Hash /\ stack[1].block \in Hash /\ Descends(h, stack[1].block)
<1>0. /\ stack \in Seq(Frame) /\ stored \subseteq Hash /\ ActivationsMatch /\ BlocksOwned
      /\ HeadsStored
  BY DEF LedgerInv, TypeOK, stored, StackInv, ChainInv
<1>1. Len(stack) \in 1 .. Len(stack) /\ 1 \in 1 .. Len(stack) /\ stack[1] \in Frame
  BY SMTT(60), <1>0
<1>2. owner(top.block) = owner(h)
  BY <1>0, <1>1 DEF ActivationsMatch, top
<1>3. blocks[top.block].height <= blocks[h].height
  BY <1>0, <1>2 DEF BlocksOwned, HeadsStored
<1>4. Descends(h, top.block)
  BY <1>2, <1>3, ChainDescends
<1>5. Descends(top.block, stack[1].block)
  BY <1>1 DEF OnStack, top
<1> QED BY <1>0, <1>1, <1>4, <1>5, DescendsTransitive DEF Frame

=============================================================================
