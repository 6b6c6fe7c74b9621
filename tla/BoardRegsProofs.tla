-------------------------- MODULE BoardRegsProofs ---------------------------
(***************************************************************************)
(* What configures a board ends as asked, for any number of threads and    *)
(* calls.  A call is the sequence of accesses it has left, so the argument *)
(* is about what a register will hold when they are done: the last value   *)
(* they write to it, or what it holds already if they leave it alone.      *)
(***************************************************************************)
EXTENDS BoardRegs, SequenceTheorems, TLAPS

Access ==
  [op : {"write"}, addr : Regs, v : Int] \union [op : {"read", "set", "clear"}, addr : {\h2008}]
DiCalls == [f : {"di"}, ch : DIs, hl : {LOW, HIGH}, m : Volts]
Levels == [1 .. 4 -> [1 .. 15 -> Nat \union {None}]]

Typed ==
  /\ bar0 \in [Regs -> Int] /\ level \in Levels /\ handle \in BOOLEAN
  /\ todo \in [Threads -> Seq(Access)] /\ val \in [Threads -> Int]
  /\ DOMAIN want = Targets /\ asked \subseteq DiCalls

(* Without a call that overlaps another one thread is at work at a time.   *)
Solo == \A t, u \in Threads : todo[t] # <<>> /\ todo[u] # <<>> => t = u

(* What register a holds after the accesses s.                             *)
Quiet(s, a) == \A j \in 1 .. Len(s) : s[j].addr # a
LastWrite(s, a, v) ==
  \E i \in 1 .. Len(s) : s[i] = W(a, v) /\ \A j \in i + 1 .. Len(s) : s[j].addr # a
WillBe(s, a, v) == LastWrite(s, a, v) \/ (Quiet(s, a) /\ bar0[a] = v)

(* What it holds once the call under way, if any, has returned.            *)
Comes(a, v) ==
  \/ (~handle \/ Idle) /\ bar0[a] = v
  \/ handle /\ \E t \in Threads : todo[t] # <<>> /\ WillBe(todo[t], a, v)

OutputsInv ==
  undisturbed =>
    /\ \A ch \in DOs \intersect 1 .. 16 :
         LET v == want[<<"do", ch, 0>>]
         IN v # None => Comes(DO_En(ch), v[1]) /\ Comes(DO_Ref(ch), v[2])
    /\ want[<<"volt", 0, 0>>] # None => Comes(F_VOLT_SEC_REF, want[<<"volt", 0, 0>>])

(* clear_a_buff() brings the register back to what it read.                *)
Enabled == IF want[<<"mode", 0, 0>>] = None THEN 0 ELSE 1
Clearing(t, w) ==
  \/ todo[t] = clear_a_buff /\ bar0[\h2008] = w
  \/ todo[t] = Tail(clear_a_buff) /\ val[t] = w
  \/ todo[t] = Tail(Tail(clear_a_buff)) /\ val[t] = w + 2
EnableInv == Comes(\h2008, Enabled) \/ (handle /\ \E t \in Threads : Clearing(t, Enabled))
ModeInv == LET v == want[<<"mode", 0, 0>>] IN v # None => v \in BOOLEAN /\ Comes(\h2000, ModeValue(v))
SelInv ==
  LET v == want[<<"sel", 0, 0>>]
  IN v # None => v \in Selections /\ Comes(\h0, Packed(v, 0)) /\ Comes(\h8, Packed(v, 4))
CountInv == LET v == want[<<"count", 0, 0>>] IN v # None => Comes(\h1008, v)
ScopeInv ==
  undisturbed => EnableInv /\ ModeInv /\ SelInv /\ CountInv /\ Comes(\h4000, 0) /\ Comes(DIN_VLD, 0)

(* Thresholds, with or without overlap: whatever a converter or its        *)
(* register holds, or is about to, was asked for.                          *)
Code(c) == get_input_code(c.m)
Value(c) == get_reg_value(c.ch, c.hl, Code(c))
On(c, x) == c.ch # 0 /\ Din(c.ch) = x
Sourced(x, v) == v = 0 \/ \E c \in asked : On(c, x) /\ v = Value(c)
RegsFrom == \A x \in 1 .. 4 : Sourced(x, bar0[DIN[x]])
TodoFrom ==
  \A t \in Threads : \A i \in 1 .. Len(todo[t]) : \A x \in 1 .. 4 :
    todo[t][i].addr = DIN[x] => Sourced(x, todo[t][i].v)
From(x, k, v) == \E c \in asked : On(c, x) /\ get_control(c.ch, c.hl) = k /\ v = Code(c)
LevelsFrom == \A x \in 1 .. 4 : \A k \in 1 .. 15 : level[x][k] # None => From(x, k, level[x][k])
FromInv == InRange => RegsFrom /\ TodoFrom /\ LevelsFrom

(* Without overlap: a threshold is as asked, except the one that the       *)
(* strobe of the call under way will set.                                  *)
Good(ch, hl) ==
  LET m == want[<<"di", ch, hl>>]
  IN IF m = None THEN LevelOf(ch, hl) = None ELSE LevelOf(ch, hl) # None /\ Within(LevelOf(ch, hl), m)
AllGood == \A ch \in 1 .. 16 : \A hl \in {LOW, HIGH} : Good(ch, hl)

(* What a strobe makes of level x, k, and that it would change nothing.    *)
Take(v, k, l) == IF v \div 4096 = k THEN (v % 4096) \div 4 ELSE l
Taken(x, k) == Take(bar0[DIN[x]], k, level[x][k])
Settled == AllGood /\ \A x \in 1 .. 4 : \A k \in 1 .. 15 : Taken(x, k) = level[x][k]

Clean(s) == \A i \in 1 .. Len(s) : (\A x \in 1 .. 4 : s[i].addr # DIN[x]) /\ s[i] # W(DIN_VLD, 1)
Strobe(s) ==
  /\ Len(s) >= 2 /\ s[Len(s) - 1] = W(DIN_VLD, 1) /\ s[Len(s)] = W(DIN_VLD, 0)
  /\ \A i \in 1 .. Len(s) - 2 : s[i].addr # DIN_VLD
Setting(s, c) ==
  /\ c.ch # 0 /\ want[<<"di", c.ch, c.hl>>] = c.m
  /\ \A ch \in 1 .. 16 : \A hl \in {LOW, HIGH} : <<ch, hl>> # <<c.ch, c.hl>> => Good(ch, hl)
  /\ WillBe(s, DIN[Din(c.ch)], Value(c))
  /\ \A y \in 1 .. 4 : y # Din(c.ch) => WillBe(s, DIN[y], 0)
AtRest == Settled /\ (handle => \A t \in Threads : Clean(todo[t]))
AtWork ==
  handle /\ \E t \in Threads :
    /\ Strobe(todo[t])
    /\ (Settled /\ Len(todo[t]) = 2) \/ \E c \in asked : Setting(todo[t], c)
LevelsInv == undisturbed /\ InRange => AtRest \/ AtWork

RegsInv ==
  /\ Typed /\ (undisturbed => Solo)
  /\ OutputsInv /\ ScopeInv /\ FromInv /\ LevelsInv
-----------------------------------------------------------------------------
(* Addresses and accesses.                                                 *)
LEMMA DinAddrs ==
  /\ DIN[1] = \h20100 /\ DIN[2] = \h20110 /\ DIN[3] = \h20120 /\ DIN[4] = \h20130
  /\ \A x \in 1 .. 4 : DIN[x] \in Regs /\ DIN[x] \in \h20100 .. \h20130
  /\ \A x, y \in 1 .. 4 : DIN[x] = DIN[y] => x = y
<1>1. DIN[1] = \h20100 /\ DIN[2] = \h20110 /\ DIN[3] = \h20120 /\ DIN[4] = \h20130
  BY DEF DIN
<1>2. \A x \in 1 .. 4 : x = 1 \/ x = 2 \/ x = 3 \/ x = 4
  OBVIOUS
<1>3. \A x \in 1 .. 4 : DIN[x] \in Regs
  BY Zenon DEF Regs
<1> QED
  BY <1>1, <1>2, <1>3

LEMMA OtherAddrs == DIN_VLD \in Regs /\ F_VOLT_SEC_REF \in Regs /\ ScopeRegs \subseteq Regs
  BY Zenon DEF Regs

LEMMA DoAddrs ==
  ASSUME NEW ch \in 1 .. 16
  PROVE  DO_En(ch) \in Regs /\ DO_Ref(ch) \in Regs
<1>1. {DO_En(ch), DO_Ref(ch)} \in {{DO_En(k), DO_Ref(k)} : k \in 1 .. 16}
  OBVIOUS
<1> QED
  BY <1>1, Zenon DEF Regs

LEMMA Written ==
  ASSUME NEW a, NEW v
  PROVE  /\ W(a, v).op = "write" /\ W(a, v).addr = a /\ W(a, v).v = v
         /\ a \in Regs /\ v \in Int => W(a, v) \in Access
         /\ \A b, w : W(a, v) = W(b, w) => a = b /\ v = w
  BY DEF W, Access

LEMMA AccessParts ==
  ASSUME NEW o \in Access
  PROVE  /\ o.addr \in Regs /\ o.op \in {"write", "read", "set", "clear"}
         /\ o.op = "write" => o = W(o.addr, o.v) /\ o.v \in Int
         /\ o.op # "write" => o.addr = \h2008
<1>1. \h2008 \in Regs
  BY OtherAddrs DEF ScopeRegs
<1> QED
  BY <1>1 DEF Access, W

LEMMA Elements ==
  ASSUME NEW s \in Seq(Access)
  PROVE  /\ Len(s) \in Nat /\ \A i \in 1 .. Len(s) : s[i] \in Access
         /\ s = <<>> <=> Len(s) = 0
         /\ s # <<>> => /\ Head(s) = s[1] /\ Tail(s) \in Seq(Access) /\ Len(Tail(s)) = Len(s) - 1
                        /\ \A i \in 1 .. Len(s) - 1 : Tail(s)[i] = s[i + 1]
<1>1. Len(s) \in Nat /\ \A i \in 1 .. Len(s) : s[i] \in Access
  BY ElementOfSeq
<1>2. s = <<>> <=> Len(s) = 0
  BY EmptySeq
<1>3. ASSUME s # <<>>
      PROVE  /\ Head(s) = s[1] /\ Tail(s) \in Seq(Access) /\ Len(Tail(s)) = Len(s) - 1
             /\ \A i \in 1 .. Len(s) - 1 : Tail(s)[i] = s[i + 1]
  BY <1>3, HeadTailProperties
<1> QED
  BY <1>1, <1>2, <1>3

-----------------------------------------------------------------------------
(* Calls.                                                                  *)
LEMMA CallKinds ==
  ASSUME NEW c \in Calls
  PROVE  \/ /\ c.f = "di" /\ c \in DiCalls /\ c.ch \in DIs /\ c.hl \in {LOW, HIGH} /\ c.m \in Volts
            /\ Accesses(c) = handler_di_config(c.ch, c.hl, c.m)
            /\ Target(c) = <<"di", c.ch, c.hl>> /\ Arg(c) = c.m
         \/ /\ c.f = "do" /\ c.ch \in DOs /\ c.v \in Values \X Values
            /\ Accesses(c) = handler_do_config(c.ch, c.v[1], c.v[2])
            /\ Target(c) = <<"do", c.ch, 0>> /\ Arg(c) = c.v
         \/ /\ c.f = "volt" /\ c.v \in Values /\ Accesses(c) = handler_f_voit_sec_ref(c.v)
            /\ Target(c) = <<"volt", 0, 0>> /\ Arg(c) = c.v
         \/ /\ c.f = "count" /\ c.v \in Values /\ Accesses(c) = scope_count_sampling(c.v)
            /\ Target(c) = <<"count", 0, 0>> /\ Arg(c) = c.v
         \/ /\ c.f = "sel" /\ c.v \in Selections /\ Accesses(c) = scope_select_ch(c.v)
            /\ Target(c) = <<"sel", 0, 0>> /\ Arg(c) = c.v
         \/ /\ c.f = "mode" /\ c.v \in BOOLEAN /\ Accesses(c) = scope_slect_mode(c.v)
            /\ Target(c) = <<"mode", 0, 0>> /\ Arg(c) = c.v
         \/ c.f = "init" /\ Accesses(c) = scope_module_init /\ Target(c) = <<"init", 0, 0>>
         \/ c.f = "start" /\ Accesses(c) = start_scope /\ Target(c) = <<"start", 0, 0>>
         \/ c.f = "clear" /\ Accesses(c) = clear_a_buff /\ Target(c) = <<"clear", 0, 0>>
<1>1. CASE c \in DiCalls
  BY <1>1 DEF DiCalls, Accesses, Target, Arg
<1>2. CASE c \in [f : {"do"}, ch : DOs, v : Values \X Values]
  BY <1>2 DEF Accesses, Target, Arg
<1>3. CASE c \in [f : {"volt", "count"}, v : Values]
  BY <1>3 DEF Accesses, Target, Arg
<1>4. CASE c \in [f : {"sel"}, v : Selections]
  BY <1>4 DEF Accesses, Target, Arg
<1>5. CASE c \in [f : {"mode"}, v : BOOLEAN]
  BY <1>5 DEF Accesses, Target, Arg
<1>6. CASE c \in [f : {"init", "start", "clear"}, v : {0}]
  BY <1>6 DEF Accesses, Target
<1> QED
  BY <1>1, <1>2, <1>3, <1>4, <1>5, <1>6 DEF Calls, DiCalls

LEMMA TargetIn == ASSUME NEW c \in Calls PROVE Target(c) \in Targets
  BY CallKinds DEF Targets

(* The tables of the inputs.                                               *)
LEMMA DinFacts == \A ch \in 1 .. 16 : Din(ch) \in 1 .. 4
  BY DEF Din

LEMMA OtherDins ==
  ASSUME NEW x \in 1 .. 4
  PROVE  /\ Others[x][1] \in 1 .. 4 /\ Others[x][2] \in 1 .. 4 /\ Others[x][3] \in 1 .. 4
         /\ Others[x][1] # x /\ Others[x][2] # x /\ Others[x][3] # x
         /\ \A y \in 1 .. 4 : y # x => y = Others[x][1] \/ y = Others[x][2] \/ y = Others[x][3]
<1>1. x = 1 \/ x = 2 \/ x = 3 \/ x = 4
  OBVIOUS
<1>2. CASE x = 1
  BY <1>2 DEF Others
<1>3. CASE x = 2
  BY <1>3 DEF Others
<1>4. CASE x = 3
  BY <1>4 DEF Others
<1>5. CASE x = 4
  BY <1>5 DEF Others
<1> QED
  BY <1>1, <1>2, <1>3, <1>4, <1>5

(* Each code of each converter belongs to one level of one channel.        *)
Channel ==
  <<<<<<15, HIGH>>, <<15, LOW>>, <<13, HIGH>>, <<13, LOW>>, <<16, HIGH>>, <<16, LOW>>, <<14, HIGH>>, <<14, LOW>>>>,
    <<<<11, HIGH>>, <<11, LOW>>, <<9, HIGH>>, <<9, LOW>>, <<10, LOW>>, <<10, HIGH>>, <<12, HIGH>>, <<12, LOW>>>>,
    <<<<7, HIGH>>, <<7, LOW>>, <<5, HIGH>>, <<5, LOW>>, <<6, LOW>>, <<6, HIGH>>, <<8, LOW>>, <<8, HIGH>>>>,
    <<<<3, HIGH>>, <<3, LOW>>, <<1, HIGH>>, <<1, LOW>>, <<2, LOW>>, <<2, HIGH>>, <<4, LOW>>, <<4, HIGH>>>>>>

LEMMA Control ==
  ASSUME NEW ch \in 1 .. 16, NEW hl \in {LOW, HIGH}
  PROVE  get_control(ch, hl) \in 1 .. 8 /\ Channel[Din(ch)][get_control(ch, hl)] = <<ch, hl>>
<1> USE DEF LOW, HIGH
<1>1. ASSUME NEW k \in 0 .. 3, ch \in 4 * k + 1 .. 4 * k + 4 PROVE Din(ch) = 4 - k
  BY <1>1 DEF Din
<1>2. CASE ch \in 1 .. 4
  <2>1. Din(ch) = 4
    BY <1>1, <1>2
  <2> QED
    BY <1>2, <2>1 DEF get_control, di_hl, Channel
<1>3. CASE ch \in 5 .. 8
  <2>1. Din(ch) = 3
    BY <1>1, <1>3
  <2> QED
    BY <1>3, <2>1 DEF get_control, di_hl, Channel
<1>4. CASE ch \in 9 .. 12
  <2>1. Din(ch) = 2
    BY <1>1, <1>4
  <2> QED
    BY <1>4, <2>1 DEF get_control, di_hl, Channel
<1>5. CASE ch \in 13 .. 16
  <2>1. Din(ch) = 1
    BY <1>1, <1>5
  <2> QED
    BY <1>5, <2>1 DEF get_control, di_hl, Channel
<1> QED
  BY <1>2, <1>3, <1>4, <1>5

LEMMA OneLevel ==
  ASSUME NEW ch \in 1 .. 16, NEW hl \in {LOW, HIGH}, NEW dh \in 1 .. 16, NEW dl \in {LOW, HIGH},
         Din(ch) = Din(dh), get_control(ch, hl) = get_control(dh, dl)
  PROVE  ch = dh /\ hl = dl
<1>1. Channel[Din(ch)][get_control(ch, hl)] = <<ch, hl>> /\ Channel[Din(ch)][get_control(ch, hl)] = <<dh, dl>>
  BY Control
<1> QED
  BY <1>1

(* A threshold below 2.5 V fits beside its control code.                   *)
LEMMA CodeFacts ==
  ASSUME NEW m \in Nat
  PROVE  get_input_code(m) \in Nat /\ Within(get_input_code(m), m)
         /\ (m < 2560 => get_input_code(m) < 1024)
  BY DEF get_input_code, Within

LEMMA BitFacts ==
  ASSUME NEW v \in Int
  PROVE  Bit(v, 1) \in {0, 1} /\ Bit(v, 2) \in {0, 1} /\ Bit(v, 4) \in {0, 1} /\ Bit(v, 8) \in {0, 1}
  BY DEF Bit

LEMMA AndFacts ==
  ASSUME NEW x \in Int, NEW y \in Int
  PROVE  And4(x, y) \in Int /\ And4(x, 0) = 0
<1> DEFINE Times(p, q) == p * q
<1>1. \A p, q \in {0, 1} : Times(p, q) \in {0, 1}
  OBVIOUS
<1>2. Bit(0, 1) = 0 /\ Bit(0, 2) = 0 /\ Bit(0, 4) = 0 /\ Bit(0, 8) = 0
  BY DEF Bit
<1>3. \A p \in {0, 1} : Times(p, 0) = 0
  OBVIOUS
<1>4. \A p, q \in {0, 1} : (2 * p) * q = 2 * Times(p, q) /\ (4 * p) * q = 4 * Times(p, q)
                           /\ (8 * p) * q = 8 * Times(p, q)
  OBVIOUS
<1>5. \A z \in Int : And4(x, z) = Times(Bit(x, 1), Bit(z, 1)) + 2 * Times(Bit(x, 2), Bit(z, 2))
                                  + 4 * Times(Bit(x, 4), Bit(z, 4)) + 8 * Times(Bit(x, 8), Bit(z, 8))
  BY <1>4, BitFacts DEF And4
<1> HIDE DEF Times
<1>6. And4(x, y) \in Int
  BY <1>1, <1>5, BitFacts
<1>7. And4(x, 0) = 0
  BY <1>2, <1>3, <1>5, BitFacts
<1> QED
  BY <1>6, <1>7

LEMMA ValueNat ==
  ASSUME NEW ch \in 1 .. 16, NEW hl \in {LOW, HIGH}, NEW code \in Nat
  PROVE  get_reg_value(ch, hl, code) \in Int
<1>1. get_control(ch, hl) \in Int /\ code \div 1024 \in Int
  BY Control
<1>2. And4(get_control(ch, hl), code \div 1024) \in Int
  BY <1>1, AndFacts
<1> QED
  BY <1>1, <1>2 DEF get_reg_value

(* The strobe takes a register's value v for code n of level k.            *)
Decodes(v, k, n) == v \div 4096 = k /\ (v % 4096) \div 4 = n

LEMMA ValueFacts ==
  ASSUME NEW ch \in 1 .. 16, NEW hl \in {LOW, HIGH}, NEW code \in Nat, code < 1024
  PROVE  Decodes(get_reg_value(ch, hl, code), get_control(ch, hl), code)
<1>1. PICK k \in 1 .. 8 : k = get_control(ch, hl)
  BY Control
<1>2. code \div 1024 = 0
  BY SMT
<1>3. And4(k, 0) = 0
  BY AndFacts
<1>4. get_reg_value(ch, hl, code) = 4096 * k + 4 * code
  BY <1>1, <1>2, <1>3, SMT DEF get_reg_value
<1>5. PICK v \in Int : v = 4096 * k + 4 * code
  BY SMT
<1>6. v \div 4096 = k
  BY <1>5, SMT
<1>7. v % 4096 = 4 * code
  BY <1>5, SMT
<1>8. (4 * code) \div 4 = code
  BY SMT
<1>9. Decodes(v, k, code)
  BY <1>6, <1>7, <1>8, SMT DEF Decodes
<1>10. get_reg_value(ch, hl, code) = v
  BY <1>4, <1>5, SMT
<1> QED
  BY ONLY <1>1, <1>9, <1>10

-----------------------------------------------------------------------------
(* What an access does.                                                    *)
NewValue(o, w) ==
  CASE o.op = "write" -> o.v
    [] o.op = "set"   -> IF Bit(w, 2) = 1 THEN w ELSE w + 2
    [] o.op = "clear" -> IF Bit(w, 2) = 1 THEN w - 2 ELSE w
    [] o.op = "read"  -> bar0[o.addr]

LEMMA NewValueInt ==
  ASSUME bar0 \in [Regs -> Int], NEW o \in Access, NEW w \in Int
  PROVE  NewValue(o, w) \in Int /\ (o.op = "write" => NewValue(o, w) = o.v)
<1>1. o.op = "write" => NewValue(o, w) = o.v
  BY DEF NewValue
<1>2. CASE o.op = "write"
  BY <1>1, <1>2, AccessParts
<1>3. CASE o.op = "set"
  <2>1. NewValue(o, w) = IF Bit(w, 2) = 1 THEN w ELSE w + 2
    BY <1>3 DEF NewValue
  <2> QED
    BY <1>3, <2>1
<1>4. CASE o.op = "clear"
  <2>1. NewValue(o, w) = IF Bit(w, 2) = 1 THEN w - 2 ELSE w
    BY <1>4 DEF NewValue
  <2> QED
    BY <1>4, <2>1
<1>5. CASE o.op = "read"
  <2>1. NewValue(o, w) = bar0[o.addr]
    BY <1>5 DEF NewValue
  <2> QED
    BY <1>5, <2>1, AccessParts
<1> QED
  BY <1>2, <1>3, <1>4, <1>5, AccessParts

LEMMA AccessFacts ==
  ASSUME Typed, NEW t \in Threads, access(t)
  PROVE  /\ todo[t] \in Seq(Access) /\ todo[t] # <<>> /\ todo[t][1] \in Access
         /\ todo' = [todo EXCEPT ![t] = Tail(todo[t])] /\ todo'[t] = Tail(todo[t])
         /\ \A u \in Threads : u # t => todo'[u] = todo[u]
         /\ bar0' \in [Regs -> Int] /\ val' \in [Threads -> Int]
         /\ \A a \in Regs : a # todo[t][1].addr => bar0'[a] = bar0[a]
         /\ ~handle => bar0' = bar0
         /\ handle /\ todo[t][1].op = "write" => bar0'[todo[t][1].addr] = todo[t][1].v
         /\ level' = IF handle /\ todo[t][1] = W(DIN_VLD, 1) THEN Latched(bar0) ELSE level
         /\ UNCHANGED <<handle, calls, want, asked, undisturbed>>
<1>1. todo[t] \in Seq(Access) /\ todo[t] # <<>> /\ todo \in [Threads -> Seq(Access)]
  BY Zenon DEF Typed, access
<1>2. PICK o \in Access : o = todo[t][1] /\ o = Head(todo[t])
  BY <1>1, Elements
<1>3. bar0 \in [Regs -> Int] /\ val \in [Threads -> Int] /\ handle \in BOOLEAN
  BY Zenon DEF Typed
<1>4. PICK v \in Int : v = NewValue(o, val[t]) /\ (o.op = "write" => v = o.v)
  BY <1>3, NewValueInt
<1>5. /\ bar0' = IF handle THEN [bar0 EXCEPT ![o.addr] = v] ELSE bar0
      /\ level' = IF handle /\ o.addr = DIN_VLD /\ v = 1 THEN Latched(bar0) ELSE level
      /\ val' = [val EXCEPT ![t] = IF o.op = "write" \/ (o.op = "read" /\ ~handle) THEN 0 ELSE v]
      /\ todo' = [todo EXCEPT ![t] = Tail(todo[t])]
      /\ UNCHANGED <<handle, calls, want, asked, undisturbed>>
  <2> DEFINE h == Head(todo[t])
             n == NewValue(h, val[t])
  <2>1. bar0' = IF handle THEN [bar0 EXCEPT ![h.addr] = n] ELSE bar0
    BY DEF access, NewValue
  <2>2. level' = IF handle /\ h.addr = DIN_VLD /\ n = 1 THEN Latched(bar0) ELSE level
    BY DEF access, NewValue
  <2>3. val' = [val EXCEPT ![t] = IF h.op = "write" \/ (h.op = "read" /\ ~handle) THEN 0 ELSE n]
    BY DEF access, NewValue
  <2>4. todo' = [todo EXCEPT ![t] = Tail(todo[t])] /\ UNCHANGED <<handle, calls, want, asked, undisturbed>>
    BY DEF access
  <2>5. h = o /\ n = v
    BY <1>2, <1>4
  <2> HIDE DEF h, n
  <2> QED
    BY <2>1, <2>2, <2>3, <2>4, <2>5, Zenon
<1>6. o.addr \in Regs
  BY AccessParts
<1>7. todo'[t] = Tail(todo[t]) /\ \A u \in Threads : u # t => todo'[u] = todo[u]
  BY <1>1, <1>5
<1>8. /\ bar0' \in [Regs -> Int]
      /\ \A a \in Regs : a # o.addr => bar0'[a] = bar0[a]
      /\ ~handle => bar0' = bar0
      /\ handle /\ o.op = "write" => bar0'[o.addr] = o.v
  BY <1>3, <1>4, <1>5, <1>6
<1>9. val' \in [Threads -> Int]
  BY <1>3, <1>5
<1>10. o.addr = DIN_VLD /\ v = 1 <=> o = W(DIN_VLD, 1)
  <2>1. DIN_VLD # \h2008
    BY DEF DIN_VLD
  <2>2. o.addr = DIN_VLD => o.op = "write" /\ o = W(DIN_VLD, v) /\ v = o.v
    BY <2>1, <1>4, AccessParts
  <2> QED
    BY <2>2, Written
<1> QED
  BY <1>1, <1>2, <1>5, <1>7, <1>8, <1>9, <1>10

-----------------------------------------------------------------------------
(* Which registers a call writes, and with what it leaves them.            *)
Touches(s, A) == \A j \in 1 .. Len(s) : s[j].addr \in A

(* The registers of the inputs, of the outputs and of the oscilloscope.    *)
DinArea == \h20100 .. \h20150
DoArea == \h10100 .. \h10180

LEMMA DinAt ==
  /\ \A x \in 1 .. 4 : DIN[x] \in Regs /\ DIN[x] \in DinArea /\ DIN[x] # DIN_VLD
  /\ \A x, y \in 1 .. 4 : DIN[x] = DIN[y] => x = y
  /\ DIN_VLD \in Regs /\ DIN_VLD \in DinArea
<1>1. \A x \in 1 .. 4 : DIN[x] \in DinArea /\ DIN[x] # DIN_VLD
  BY DinAddrs, SMT DEF DinArea, DIN_VLD
<1>2. DIN_VLD \in DinArea
  BY SMT DEF DinArea, DIN_VLD
<1> QED
  BY <1>1, <1>2, DinAddrs, OtherAddrs, SMT

LEMMA DoApart ==
  ASSUME NEW ch \in 1 .. 16
  PROVE  /\ DO_En(ch) \in DoArea /\ DO_Ref(ch) \in DoArea
         /\ \A d \in 1 .. 16 : /\ DO_En(ch) # DO_Ref(d)
                               /\ DO_En(ch) = DO_En(d) => ch = d
                               /\ DO_Ref(ch) = DO_Ref(d) => ch = d
         /\ DO_En(ch) # F_VOLT_SEC_REF /\ DO_Ref(ch) # F_VOLT_SEC_REF
  BY SMT DEF DO_En, DO_Ref, DoArea, F_VOLT_SEC_REF

LEMMA DiTyped ==
  ASSUME NEW ch \in DIs, NEW v, ch # 0 => v \in Int
  PROVE  /\ Call_DI_Config(ch, v) \in Seq(Access)
         /\ Touches(Call_DI_Config(ch, v), DinArea)
         /\ LastWrite(Call_DI_Config(ch, v), DIN_VLD, 0) /\ Strobe(Call_DI_Config(ch, v))
         /\ ch = 0 => Len(Call_DI_Config(ch, v)) = 2 /\ \A y \in 1 .. 4 : Quiet(Call_DI_Config(ch, v), DIN[y])
         /\ ch # 0 => /\ LastWrite(Call_DI_Config(ch, v), DIN[Din(ch)], v)
                      /\ \A y \in 1 .. 4 : y # Din(ch) => LastWrite(Call_DI_Config(ch, v), DIN[y], 0)
                      /\ \A i \in 1 .. Len(Call_DI_Config(ch, v)) : \A y \in 1 .. 4 :
                           Call_DI_Config(ch, v)[i].addr = DIN[y] =>
                             Call_DI_Config(ch, v)[i].v = IF y = Din(ch) THEN v ELSE 0
<1>1. PICK e : e = DIN_VLD /\ e \in Regs /\ e \in DinArea /\ \A y \in 1 .. 4 : DIN[y] # e
  BY DinAt, Zenon
<1>2. /\ W(e, 1) \in Access /\ W(e, 0) \in Access /\ W(e, 1) # W(e, 0)
      /\ W(e, 1).addr = e /\ W(e, 0).addr = e
  BY <1>1, Written
<1>3. CASE ch = 0
  <2>1. PICK s : s = Call_DI_Config(ch, v)
    OBVIOUS
  <2>2. s = <<W(e, 1), W(e, 0)>>
    BY <1>1, <1>3, <2>1 DEF Call_DI_Config
  <2>3. s \in Seq(Access) /\ Len(s) = 2 /\ s[1] = W(e, 1) /\ s[2] = W(e, 0)
    BY <1>2, <2>2
  <2>4. Touches(s, DinArea)
    BY <1>1, <1>2, <2>3 DEF Touches
  <2>5. LastWrite(s, e, 0) /\ Strobe(s) /\ \A y \in 1 .. 4 : Quiet(s, DIN[y])
    BY <1>1, <1>2, <2>3 DEF LastWrite, Strobe, Quiet
  <2> QED
    BY <1>1, <1>3, <2>1, <2>3, <2>4, <2>5
<1>4. CASE ch # 0
  <2>1. ch \in 1 .. 16 /\ v \in Int
    BY <1>4 DEF DIs
  <2>2. PICK x \in 1 .. 4 : x = Din(ch)
    BY <2>1, DinFacts
  <2>3. PICK s : s = Call_DI_Config(ch, v)
    OBVIOUS
  <2> DEFINE p == Others[x][1]
             q == Others[x][2]
             r == Others[x][3]
  <2>4. /\ p \in (1 .. 4) \ {x} /\ q \in (1 .. 4) \ {x} /\ r \in (1 .. 4) \ {x}
        /\ \A y \in (1 .. 4) \ {x} : y = p \/ y = q \/ y = r
    BY OtherDins
  <2>5. s = <<W(DIN[x], v), W(DIN[p], 0), W(DIN[q], 0), W(DIN[r], 0), W(e, 1), W(e, 0)>>
    BY <1>1, <1>4, <2>2, <2>3, SMT DEF Call_DI_Config
  <2> HIDE DEF p, q, r
  <2>6. PICK d : d = DIN[x] /\ d \in Regs /\ d \in DinArea /\ d # e
    BY <1>1, DinAt
  <2>7. PICK a, b, c : /\ a = DIN[p] /\ b = DIN[q] /\ c = DIN[r]
                       /\ \A z \in {a, b, c} : z \in Regs /\ z \in DinArea /\ z # e /\ z # d
    BY <1>1, <2>4, <2>6, DinAt
  <2>8. /\ W(d, v) \in Access /\ W(a, 0) \in Access /\ W(b, 0) \in Access /\ W(c, 0) \in Access
        /\ W(d, v).addr = d /\ W(a, 0).addr = a /\ W(b, 0).addr = b /\ W(c, 0).addr = c
        /\ W(d, v).v = v /\ W(a, 0).v = 0 /\ W(b, 0).v = 0 /\ W(c, 0).v = 0
    BY <2>1, <2>6, <2>7, Written
  <2>9. /\ s \in Seq(Access) /\ Len(s) = 6 /\ s[1] = W(d, v) /\ s[2] = W(a, 0) /\ s[3] = W(b, 0)
        /\ s[4] = W(c, 0) /\ s[5] = W(e, 1) /\ s[6] = W(e, 0)
    BY <1>2, <2>5, <2>6, <2>7, <2>8
  <2>10. Touches(s, DinArea)
    BY <1>1, <1>2, <2>6, <2>7, <2>8, <2>9 DEF Touches
  <2>11. LastWrite(s, e, 0)
    BY <1>2, <2>9 DEF LastWrite
  <2>12. Strobe(s)
    BY <1>1, <1>2, <2>6, <2>7, <2>8, <2>9 DEF Strobe
  <2>13. LastWrite(s, d, v)
    BY <1>1, <1>2, <2>6, <2>7, <2>8, <2>9 DEF LastWrite
  <2>14. LastWrite(s, a, 0) /\ LastWrite(s, b, 0) /\ LastWrite(s, c, 0)
    <3>1. LastWrite(s, c, 0)
      BY <1>1, <1>2, <2>6, <2>7, <2>8, <2>9 DEF LastWrite
    <3>2. LastWrite(s, b, 0)
      BY <1>1, <1>2, <2>6, <2>7, <2>8, <2>9, <3>1 DEF LastWrite
    <3>3. LastWrite(s, a, 0)
      BY <1>1, <1>2, <2>6, <2>7, <2>8, <2>9, <3>1, <3>2 DEF LastWrite
    <3> QED
      BY <3>1, <3>2, <3>3
  <2>15. \A y \in 1 .. 4 : y # x => LastWrite(s, DIN[y], 0)
    BY <2>4, <2>7, <2>14
  <2>16. \A i \in 1 .. Len(s) : \A y \in 1 .. 4 : s[i].addr = DIN[y] => s[i].v = IF y = x THEN v ELSE 0
    <3> SUFFICES ASSUME NEW i \in 1 .. 6, NEW y \in 1 .. 4, s[i].addr = DIN[y]
                 PROVE  s[i].v = IF y = x THEN v ELSE 0
      BY <2>9
    <3>1. i = 1 \/ i = 2 \/ i = 3 \/ i = 4 \/ i = 5 \/ i = 6
      OBVIOUS
    <3>2. i # 5 /\ i # 6
      BY <1>1, <1>2, <2>9
    <3>3. i = 1 => y = x
      BY <2>6, <2>8, <2>9, DinAt
    <3>4. i # 1 => y # x
      BY <2>6, <2>7, <2>8, <2>9, <3>1, <3>2
    <3> QED
      BY <2>8, <2>9, <3>1, <3>2, <3>3, <3>4
  <2> QED
    BY <1>1, <1>4, <2>2, <2>3, <2>6, <2>9, <2>10, <2>11, <2>12, <2>13, <2>15, <2>16
<1> QED
  BY <1>3, <1>4

LEMMA Pairs ==
  ASSUME NEW a \in Regs, NEW b \in Regs, NEW v \in Int, NEW w \in Int
  PROVE  /\ <<W(a, v), W(b, w)>> \in Seq(Access) /\ Touches(<<W(a, v), W(b, w)>>, {a, b})
         /\ LastWrite(<<W(a, v), W(b, w)>>, b, w) /\ (a # b => LastWrite(<<W(a, v), W(b, w)>>, a, v))
<1>1. PICK s : s = <<W(a, v), W(b, w)>>
  OBVIOUS
<1>2. /\ W(a, v) \in Access /\ W(b, w) \in Access /\ W(a, v).addr = a /\ W(b, w).addr = b
  BY Written
<1>3. s \in Seq(Access) /\ Len(s) = 2 /\ s[1] = W(a, v) /\ s[2] = W(b, w)
  BY <1>1, <1>2
<1>4. Touches(s, {a, b}) /\ LastWrite(s, b, w) /\ (a # b => LastWrite(s, a, v))
  BY <1>2, <1>3 DEF Touches, LastWrite
<1> QED
  BY <1>1, <1>3, <1>4

LEMMA Singles ==
  ASSUME NEW a \in Regs, NEW v \in Int
  PROVE  <<W(a, v)>> \in Seq(Access) /\ Touches(<<W(a, v)>>, {a}) /\ LastWrite(<<W(a, v)>>, a, v)
<1>1. PICK s : s = <<W(a, v)>>
  OBVIOUS
<1>2. W(a, v) \in Access /\ W(a, v).addr = a
  BY Written
<1>3. s \in Seq(Access) /\ Len(s) = 1 /\ s[1] = W(a, v)
  BY <1>1, <1>2
<1>4. Touches(s, {a}) /\ LastWrite(s, a, v)
  BY <1>2, <1>3 DEF Touches, LastWrite
<1> QED
  BY <1>1, <1>3, <1>4

LEMMA ModeAccesses ==
  ASSUME NEW v
  PROVE  /\ scope_slect_mode(v) \in Seq(Access) /\ Touches(scope_slect_mode(v), {\h2000, \h2008})
         /\ LastWrite(scope_slect_mode(v), \h2000, ModeValue(v)) /\ LastWrite(scope_slect_mode(v), \h2008, 1)
<1>1. PICK a, b : a = \h2000 /\ b = \h2008 /\ a \in Regs /\ b \in Regs /\ a # b
  BY OtherAddrs, SMT DEF ScopeRegs
<1>2. PICK m \in Int : m = ModeValue(v)
  BY DEF ModeValue
<1>3. PICK s : s = scope_slect_mode(v)
  OBVIOUS
<1>4. /\ W(b, 0) \in Access /\ W(a, m) \in Access /\ W(b, 1) \in Access
      /\ W(b, 0).addr = b /\ W(a, m).addr = a /\ W(b, 1).addr = b
  BY <1>1, Written
<1>5. s = <<W(b, 0), W(a, m), W(b, 1)>>
  BY <1>1, <1>2, <1>3, SMT DEF scope_slect_mode
<1>6. s \in Seq(Access) /\ Len(s) = 3 /\ s[1] = W(b, 0) /\ s[2] = W(a, m) /\ s[3] = W(b, 1)
  BY <1>4, <1>5
<1>7. Touches(s, {a, b}) /\ LastWrite(s, a, m) /\ LastWrite(s, b, 1)
  BY <1>1, <1>4, <1>6 DEF Touches, LastWrite
<1> QED
  BY <1>1, <1>2, <1>3, <1>6, <1>7, SMT

LEMMA ClearAccesses ==
  /\ clear_a_buff \in Seq(Access) /\ Touches(clear_a_buff, {\h2008}) /\ Len(clear_a_buff) = 3
  /\ clear_a_buff[1].op = "read" /\ clear_a_buff[2].op = "set" /\ clear_a_buff[3].op = "clear"
<1>1. PICK a : a = \h2008
  OBVIOUS
<1>2. PICK s : s = clear_a_buff
  OBVIOUS
<1>3. PICK o, p, q : o = [op |-> "read", addr |-> a] /\ p = [op |-> "set", addr |-> a] /\ q = [op |-> "clear", addr |-> a]
  OBVIOUS
<1>4. o.addr = a /\ p.addr = a /\ q.addr = a /\ o.op = "read" /\ p.op = "set" /\ q.op = "clear"
  BY <1>3
<1>5. o \in Access /\ p \in Access /\ q \in Access
  BY <1>1, <1>3, SMT DEF Access
<1>6. s = <<o, p, q>>
  BY <1>1, <1>2, <1>3, SMT DEF clear_a_buff
<1>7. s \in Seq(Access) /\ Len(s) = 3 /\ s[1] = o /\ s[2] = p /\ s[3] = q
  BY <1>5, <1>6
<1>8. Touches(s, {a})
  BY <1>4, <1>7 DEF Touches
<1> QED
  BY <1>1, <1>2, <1>4, <1>7, <1>8, SMT

InitRegs == {\h4, \hc, \h1004, \h100c, \h2004, \h200c, \h3004, \h300c, \h1000}

LEMMA InitAccesses == scope_module_init \in Seq(Access) /\ Touches(scope_module_init, InitRegs)
<1>1. InitRegs \subseteq Regs
  BY OtherAddrs, SMT DEF ScopeRegs, InitRegs
<1>2. ASSUME NEW a, NEW v \in Int, a \in InitRegs
      PROVE  W(a, v) \in Access /\ W(a, v).addr \in InitRegs
  BY <1>1, <1>2, Written
<1>3. PICK o1, o2, o3, o4, o5, o6, o7, o8, o9 :
        scope_module_init = <<o1, o2, o3, o4, o5, o6, o7, o8, o9>>
        /\ \A o \in {o1, o2, o3, o4, o5, o6, o7, o8, o9} : o \in Access /\ o.addr \in InitRegs
  <2> DEFINE a(k) == <<\h4, \hc, \h1004, \h100c, \h2004, \h200c, \h3004, \h300c, \h1000>>[k]
             o(k) == W(a(k), IF k \in {7, 8} THEN -1 ELSE IF k = 9 THEN 150 ELSE 0)
  <2>1. scope_module_init = <<o(1), o(2), o(3), o(4), o(5), o(6), o(7), o(8), o(9)>>
    BY SMT DEF scope_module_init
  <2>2. \A k \in 1 .. 9 : a(k) \in InitRegs
    BY SMT DEF InitRegs
  <2> HIDE DEF a
  <2>3. \A k \in 1 .. 9 : o(k) \in Access /\ o(k).addr \in InitRegs
    BY <1>2, <2>2
  <2> HIDE DEF o
  <2> WITNESS o(1), o(2), o(3), o(4), o(5), o(6), o(7), o(8), o(9)
  <2> QED
    BY <2>1, <2>3, SMT
<1>4. PICK s : s = scope_module_init
  OBVIOUS
<1>5. s \in Seq(Access) /\ \A j \in 1 .. Len(s) : s[j] \in {o1, o2, o3, o4, o5, o6, o7, o8, o9}
  BY <1>3, <1>4
<1>6. Touches(s, InitRegs)
  BY <1>3, <1>5 DEF Touches
<1> QED
  BY <1>4, <1>5, <1>6

LEMMA QuietIf ==
  ASSUME NEW s, NEW A, NEW a, Touches(s, A), a \notin A
  PROVE  Quiet(s, a)
  BY DEF Touches, Quiet

LEMMA CallDi ==
  ASSUME NEW c \in Calls, c.f = "di"
  PROVE  /\ c \in DiCalls /\ c.m \in Nat /\ c.hl \in {LOW, HIGH} /\ Code(c) \in Nat
         /\ c.ch = 0 \/ (c.ch \in 1 .. 16 /\ Value(c) \in Int)
         /\ Accesses(c) = Call_DI_Config(c.ch, Value(c))
         /\ Accesses(c) \in Seq(Access) /\ Touches(Accesses(c), DinArea) /\ LastWrite(Accesses(c), DIN_VLD, 0)
<1>1. /\ c \in DiCalls /\ c.ch \in DIs /\ c.hl \in {LOW, HIGH} /\ c.m \in Volts
      /\ Accesses(c) = handler_di_config(c.ch, c.hl, c.m)
  BY CallKinds
<1>2. c.m \in Nat /\ Code(c) \in Nat
  BY <1>1, RegsAssumption, CodeFacts DEF Code
<1>3. c.ch = 0 \/ c.ch \in 1 .. 16
  BY <1>1 DEF DIs
<1>4. c.ch \in 1 .. 16 => Value(c) \in Int
  BY <1>1, <1>2, ValueNat DEF Value
<1>5. Accesses(c) = Call_DI_Config(c.ch, Value(c))
  BY <1>1, Zenon DEF handler_di_config, Value, Code
<1>6. /\ Call_DI_Config(c.ch, Value(c)) \in Seq(Access) /\ Touches(Call_DI_Config(c.ch, Value(c)), DinArea)
      /\ LastWrite(Call_DI_Config(c.ch, Value(c)), DIN_VLD, 0)
  BY <1>1, <1>3, <1>4, DiTyped
<1> QED
  BY <1>1, <1>2, <1>3, <1>4, <1>5, <1>6

LEMMA CallDo ==
  ASSUME NEW c \in Calls, c.f = "do"
  PROVE  /\ c.ch \in DOs /\ c.v \in Nat \X Nat /\ Accesses(c) \in Seq(Access)
         /\ c.ch \in 1 .. 16 => /\ Touches(Accesses(c), {DO_En(c.ch), DO_Ref(c.ch)})
                                /\ LastWrite(Accesses(c), DO_En(c.ch), c.v[1])
                                /\ LastWrite(Accesses(c), DO_Ref(c.ch), c.v[2])
         /\ c.ch \notin 1 .. 16 => Touches(Accesses(c), {})
<1>1. c.ch \in DOs /\ c.v \in Values \X Values /\ Accesses(c) = handler_do_config(c.ch, c.v[1], c.v[2])
  BY CallKinds
<1>2. PICK v, w \in Nat : v = c.v[1] /\ w = c.v[2] /\ c.v \in Nat \X Nat
  BY <1>1, RegsAssumption
<1>3. CASE c.ch \in 1 .. 16
  <2>1. Accesses(c) = <<W(DO_En(c.ch), v), W(DO_Ref(c.ch), w)>>
    BY <1>1, <1>2, <1>3 DEF handler_do_config
  <2>2. DO_En(c.ch) \in Regs /\ DO_Ref(c.ch) \in Regs /\ DO_En(c.ch) # DO_Ref(c.ch)
    BY <1>3, DoAddrs, DoApart
  <2>3. /\ Accesses(c) \in Seq(Access) /\ Touches(Accesses(c), {DO_En(c.ch), DO_Ref(c.ch)})
        /\ LastWrite(Accesses(c), DO_En(c.ch), v) /\ LastWrite(Accesses(c), DO_Ref(c.ch), w)
    BY <2>1, <2>2, Pairs
  <2> QED
    BY <1>1, <1>2, <1>3, <2>3
<1>4. CASE c.ch \notin 1 .. 16
  <2>1. Accesses(c) = <<>>
    BY <1>1, <1>4 DEF handler_do_config
  <2> QED
    BY <1>1, <1>2, <1>4, <2>1 DEF Touches
<1> QED
  BY <1>3, <1>4

LEMMA ValuesNat == \A v \in Values : v \in Nat
  BY RegsAssumption, Zenon

LEMMA CallVolt ==
  ASSUME NEW c \in Calls, c.f = "volt"
  PROVE  /\ c.v \in Nat /\ Accesses(c) \in Seq(Access) /\ Touches(Accesses(c), {F_VOLT_SEC_REF})
         /\ LastWrite(Accesses(c), F_VOLT_SEC_REF, c.v)
<1>1. c.v \in Nat /\ Accesses(c) = <<W(F_VOLT_SEC_REF, c.v)>>
  BY CallKinds, RegsAssumption DEF handler_f_voit_sec_ref
<1> QED
  BY <1>1, Singles, OtherAddrs

LEMMA CallCount ==
  ASSUME NEW c \in Calls, c.f = "count"
  PROVE  /\ c.v \in Nat /\ Accesses(c) \in Seq(Access) /\ Touches(Accesses(c), {\h1008})
         /\ LastWrite(Accesses(c), \h1008, c.v)
<1>1. PICK a \in Regs : a = \h1008
  BY OtherAddrs, SMT DEF ScopeRegs
<1>2. c.v \in Values /\ Accesses(c) = scope_count_sampling(c.v)
  BY CallKinds, SMT
<1>3. PICK v \in Nat : v = c.v
  BY <1>2, ValuesNat, Zenon
<1>4. Accesses(c) = <<W(a, v)>>
  BY <1>1, <1>2, <1>3, SMT DEF scope_count_sampling
<1>5. Accesses(c) \in Seq(Access) /\ Touches(Accesses(c), {a}) /\ LastWrite(Accesses(c), a, v)
  BY <1>4, Singles
<1> QED
  BY <1>1, <1>3, <1>5, SMT

LEMMA Bytes ==
  ASSUME NEW v \in Selections
  PROVE  /\ v[1] \in 0 .. 255 /\ v[2] \in 0 .. 255 /\ v[3] \in 0 .. 255 /\ v[4] \in 0 .. 255
         /\ v[5] \in 0 .. 255 /\ v[6] \in 0 .. 255 /\ v[7] \in 0 .. 255 /\ v[8] \in 0 .. 255
<1>1. v \in [1 .. 8 -> 0 .. 255]
  BY RegsAssumption, SMT
<1> QED
  BY <1>1, SMT

Word(p, q, r, u) == p + 256 * q + 65536 * r + 16777216 * u

LEMMA PackedInt ==
  ASSUME NEW v \in Selections
  PROVE  Packed(v, 0) \in Int /\ Packed(v, 4) \in Int
<1>1. Packed(v, 0) = v[1] + 256 * v[2] + 65536 * v[3] + 16777216 * v[4]
  BY SMT DEF Packed
<1>2. Packed(v, 4) = v[5] + 256 * v[6] + 65536 * v[7] + 16777216 * v[8]
  BY SMT DEF Packed
<1>3. /\ v[1] \in Int /\ v[2] \in Int /\ v[3] \in Int /\ v[4] \in Int
      /\ v[5] \in Int /\ v[6] \in Int /\ v[7] \in Int /\ v[8] \in Int
  <2>1. v[1] \in 0 .. 255 /\ v[2] \in 0 .. 255 /\ v[3] \in 0 .. 255 /\ v[4] \in 0 .. 255
    BY Bytes, SMT
  <2>2. v[5] \in 0 .. 255 /\ v[6] \in 0 .. 255 /\ v[7] \in 0 .. 255 /\ v[8] \in 0 .. 255
    BY Bytes, SMT
  <2>3. v[1] \in Int /\ v[2] \in Int /\ v[3] \in Int /\ v[4] \in Int
    BY ONLY <2>1, SMT
  <2>4. v[5] \in Int /\ v[6] \in Int /\ v[7] \in Int /\ v[8] \in Int
    BY ONLY <2>2, SMT
  <2> QED
    BY ONLY <2>3, <2>4
<1>4. \A p, q, r, u \in Int : Word(p, q, r, u) \in Int
  BY SMT DEF Word
<1>5. Packed(v, 0) = Word(v[1], v[2], v[3], v[4]) /\ Packed(v, 4) = Word(v[5], v[6], v[7], v[8])
  BY <1>1, <1>2, SMT DEF Word
<1>6. Word(v[1], v[2], v[3], v[4]) \in Int
  BY ONLY <1>3, <1>4
<1>7. Word(v[5], v[6], v[7], v[8]) \in Int
  BY ONLY <1>3, <1>4
<1> QED
  BY ONLY <1>5, <1>6, <1>7

LEMMA CallSel ==
  ASSUME NEW c \in Calls, c.f = "sel"
  PROVE  /\ c.v \in Selections /\ Accesses(c) \in Seq(Access) /\ Touches(Accesses(c), {\h0, \h8})
         /\ LastWrite(Accesses(c), \h0, Packed(c.v, 0)) /\ LastWrite(Accesses(c), \h8, Packed(c.v, 4))
<1>1. c.v \in Selections /\ Accesses(c) = scope_select_ch(c.v)
  BY CallKinds, SMT
<1>2. Packed(c.v, 0) \in Int /\ Packed(c.v, 4) \in Int
  BY <1>1, PackedInt
<1>3. Accesses(c) = <<W(\h0, Packed(c.v, 0)), W(\h8, Packed(c.v, 4))>>
  BY <1>1 DEF scope_select_ch
<1>4. \h0 \in Regs /\ \h8 \in Regs
  BY OtherAddrs DEF ScopeRegs
<1> QED
  BY <1>1, <1>2, <1>3, <1>4, Pairs, SMT

LEMMA CallMode ==
  ASSUME NEW c \in Calls, c.f = "mode"
  PROVE  /\ c.v \in BOOLEAN /\ Accesses(c) \in Seq(Access) /\ Touches(Accesses(c), {\h2000, \h2008})
         /\ LastWrite(Accesses(c), \h2000, ModeValue(c.v)) /\ LastWrite(Accesses(c), \h2008, 1)
<1>1. c.v \in BOOLEAN /\ Accesses(c) = scope_slect_mode(c.v)
  BY CallKinds, SMT
<1> QED
  BY <1>1, ModeAccesses, SMT

LEMMA CallStart ==
  ASSUME NEW c \in Calls, c.f = "start"
  PROVE  Accesses(c) \in Seq(Access) /\ Touches(Accesses(c), {\h4000}) /\ LastWrite(Accesses(c), \h4000, 0)
<1>1. PICK a \in Regs : a = \h4000
  BY OtherAddrs, SMT DEF ScopeRegs
<1>2. Accesses(c) = start_scope
  BY CallKinds, SMT
<1>3. Accesses(c) = <<W(a, 1), W(a, 0)>>
  BY <1>1, <1>2, SMT DEF start_scope
<1>4. Accesses(c) \in Seq(Access) /\ Touches(Accesses(c), {a, a}) /\ LastWrite(Accesses(c), a, 0)
  BY <1>3, Pairs
<1>5. Touches(Accesses(c), {a})
  BY <1>4 DEF Touches
<1> QED
  BY <1>1, <1>4, <1>5, SMT

LEMMA CallClear ==
  ASSUME NEW c \in Calls, c.f = "clear"
  PROVE  Accesses(c) = clear_a_buff /\ Accesses(c) \in Seq(Access) /\ Touches(Accesses(c), {\h2008})
<1>1. Accesses(c) = clear_a_buff
  BY CallKinds, SMT
<1> QED
  BY <1>1, ClearAccesses, SMT

LEMMA CallInit ==
  ASSUME NEW c \in Calls, c.f = "init"
  PROVE  Accesses(c) \in Seq(Access) /\ Touches(Accesses(c), InitRegs)
<1>1. Accesses(c) = scope_module_init
  BY CallKinds, SMT
<1> QED
  BY <1>1, InitAccesses, SMT

LEMMA CallNames ==
  ASSUME NEW c \in Calls
  PROVE  c.f \in {"di", "do", "volt", "count", "sel", "mode", "init", "start", "clear"}
  BY CallKinds, SMT

ScopeArea == 0 .. \h4000

LEMMA Areas ==
  /\ DoArea \cap DinArea = {} /\ DoArea \cap ScopeArea = {} /\ DinArea \cap ScopeArea = {}
  /\ F_VOLT_SEC_REF \in DoArea /\ InitRegs \subseteq ScopeArea
  /\ {\h0, \h8} \subseteq ScopeArea /\ {\h2000, \h2008} \subseteq ScopeArea
  /\ {\h1008} \subseteq ScopeArea /\ {\h4000} \subseteq ScopeArea /\ {\h2008} \subseteq ScopeArea
<1>1. DoArea \cap DinArea = {} /\ DoArea \cap ScopeArea = {} /\ DinArea \cap ScopeArea = {}
  BY SMT DEF DoArea, DinArea, ScopeArea
<1>2. F_VOLT_SEC_REF \in DoArea
  BY SMT DEF DoArea, F_VOLT_SEC_REF
<1>3. InitRegs \subseteq ScopeArea
  BY SMT DEF ScopeArea, InitRegs
<1>4. /\ {\h0, \h8} \subseteq ScopeArea /\ {\h2000, \h2008} \subseteq ScopeArea
      /\ {\h1008} \subseteq ScopeArea /\ {\h4000} \subseteq ScopeArea /\ {\h2008} \subseteq ScopeArea
  BY SMT DEF ScopeArea
<1> QED
  BY <1>1, <1>2, <1>3, <1>4, SMT

LEMMA CallAreas ==
  ASSUME NEW c \in Calls
  PROVE  /\ Accesses(c) \in Seq(Access)
         /\ c.f = "di" => Touches(Accesses(c), DinArea)
         /\ c.f \in {"do", "volt"} => Touches(Accesses(c), DoArea)
         /\ c.f \notin {"di", "do", "volt"} => Touches(Accesses(c), ScopeArea)
<1>1. ASSUME NEW s, NEW A, NEW B, Touches(s, A), A \subseteq B PROVE Touches(s, B)
  BY <1>1 DEF Touches
<1>2. CASE c.f = "di"
  BY <1>2, CallDi, Zenon
<1>3. CASE c.f = "do"
  <2>1. c.ch \in 1 .. 16 => {DO_En(c.ch), DO_Ref(c.ch)} \subseteq DoArea
    BY DoApart
  <2>2. Touches(Accesses(c), DoArea) /\ Accesses(c) \in Seq(Access)
    BY <1>1, <1>3, <2>1, CallDo
  <2> QED
    BY <1>3, <2>2
<1>4. CASE c.f = "volt"
  <2>1. {F_VOLT_SEC_REF} \subseteq DoArea
    BY Areas, SMT
  <2> QED
    BY <1>1, <1>4, <2>1, CallVolt
<1>5. CASE c.f = "count"
  <2>1. Accesses(c) \in Seq(Access) /\ Touches(Accesses(c), ScopeArea)
    BY <1>1, <1>5, Areas, CallCount, SMT
  <2> QED
    BY <1>5, <2>1
<1>6. CASE c.f = "sel"
  <2>1. Accesses(c) \in Seq(Access) /\ Touches(Accesses(c), ScopeArea)
    BY <1>1, <1>6, Areas, CallSel, SMT
  <2> QED
    BY <1>6, <2>1
<1>7. CASE c.f = "mode"
  <2>1. Accesses(c) \in Seq(Access) /\ Touches(Accesses(c), ScopeArea)
    BY <1>1, <1>7, Areas, CallMode, SMT
  <2> QED
    BY <1>7, <2>1
<1>8. CASE c.f = "init"
  <2>1. Accesses(c) \in Seq(Access) /\ Touches(Accesses(c), ScopeArea)
    BY <1>1, <1>8, Areas, CallInit, SMT
  <2> QED
    BY <1>8, <2>1
<1>9. CASE c.f = "start"
  <2>1. Accesses(c) \in Seq(Access) /\ Touches(Accesses(c), ScopeArea)
    BY <1>1, <1>9, Areas, CallStart, SMT
  <2> QED
    BY <1>9, <2>1
<1>10. CASE c.f = "clear"
  <2>1. Accesses(c) \in Seq(Access) /\ Touches(Accesses(c), ScopeArea)
    BY <1>1, <1>10, Areas, CallClear, SMT
  <2> QED
    BY <1>10, <2>1
<1> QED
  BY <1>2, <1>3, <1>4, <1>5, <1>6, <1>7, <1>8, <1>9, <1>10, CallNames

LEMMA OutputsLeft ==
  ASSUME NEW c \in Calls
  PROVE  /\ \A d \in 1 .. 16 : c.f # "do" \/ c.ch # d =>
              Quiet(Accesses(c), DO_En(d)) /\ Quiet(Accesses(c), DO_Ref(d))
         /\ c.f # "volt" => Quiet(Accesses(c), F_VOLT_SEC_REF)
<1>1. CASE c.f \notin {"do", "volt"}
  <2>1. \A a \in DoArea : Quiet(Accesses(c), a)
    BY <1>1, CallAreas, QuietIf, Areas, CallNames, SMT
  <2> QED
    BY <2>1, DoApart, Areas, SMT
<1>2. CASE c.f = "volt"
  BY <1>2, CallVolt, QuietIf, DoApart
<1>3. CASE c.f = "do" /\ c.ch \in 1 .. 16
  <2>1. Touches(Accesses(c), {DO_En(c.ch), DO_Ref(c.ch)})
    BY <1>3, CallDo
  <2>2. F_VOLT_SEC_REF \notin {DO_En(c.ch), DO_Ref(c.ch)}
    BY <1>3, DoApart
  <2>3. \A d \in 1 .. 16 : c.ch # d => DO_En(d) \notin {DO_En(c.ch), DO_Ref(c.ch)} /\ DO_Ref(d) \notin {DO_En(c.ch), DO_Ref(c.ch)}
    BY <1>3, DoApart
  <2> QED
    BY <1>3, <2>1, <2>2, <2>3, QuietIf
<1>4. CASE c.f = "do" /\ c.ch \notin 1 .. 16
  <2>1. Touches(Accesses(c), {})
    BY <1>4, CallDo
  <2> QED
    BY <2>1, QuietIf
<1> QED
  BY <1>1, <1>2, <1>3, <1>4

LEMMA ScopeLeft ==
  ASSUME NEW c \in Calls
  PROVE  /\ c.f # "mode" => Quiet(Accesses(c), \h2000) /\ (c.f # "clear" => Quiet(Accesses(c), \h2008))
         /\ c.f # "sel" => Quiet(Accesses(c), \h0) /\ Quiet(Accesses(c), \h8)
         /\ c.f # "count" => Quiet(Accesses(c), \h1008)
         /\ c.f # "start" => Quiet(Accesses(c), \h4000)
<1> DEFINE A == CASE c.f = "count" -> {\h1008} [] c.f = "sel" -> {\h0, \h8} [] c.f = "mode" -> {\h2000, \h2008}
                  [] c.f = "init" -> InitRegs [] c.f = "start" -> {\h4000} [] c.f = "clear" -> {\h2008}
                  [] c.f = "di" -> DinArea [] OTHER -> DoArea
<1>1. Touches(Accesses(c), A)
  <2>1. CASE c.f \in {"di", "do", "volt"}
    BY <2>1, CallAreas
  <2>2. CASE c.f = "count"
    BY <2>2, CallCount, SMT
  <2>3. CASE c.f = "sel"
    BY <2>3, CallSel, SMT
  <2>4. CASE c.f = "mode"
    BY <2>4, CallMode, SMT
  <2>5. CASE c.f = "init"
    BY <2>5, CallInit, SMT
  <2>6. CASE c.f = "start"
    BY <2>6, CallStart, SMT
  <2>7. CASE c.f = "clear"
    BY <2>7, CallClear, SMT
  <2> QED
    BY <2>1, <2>2, <2>3, <2>4, <2>5, <2>6, <2>7, CallNames
<1>2. /\ c.f # "mode" => \h2000 \notin A /\ (c.f # "clear" => \h2008 \notin A)
      /\ c.f # "sel" => \h0 \notin A /\ \h8 \notin A
      /\ c.f # "count" => \h1008 \notin A
      /\ c.f # "start" => \h4000 \notin A
  BY CallNames, SMT DEF InitRegs, DinArea, DoArea
<1> HIDE DEF A
<1> QED
  BY <1>1, <1>2, QuietIf, SMT

LEMMA InputsLeft ==
  ASSUME NEW c \in Calls, c.f # "di"
  PROVE  /\ Clean(Accesses(c)) /\ Quiet(Accesses(c), DIN_VLD)
         /\ \A y \in 1 .. 4 : Quiet(Accesses(c), DIN[y])
<1>1. \A a \in DinArea : Quiet(Accesses(c), a)
  BY CallAreas, QuietIf, Areas, CallNames, SMT
<1>2. Quiet(Accesses(c), DIN_VLD) /\ \A y \in 1 .. 4 : Quiet(Accesses(c), DIN[y])
  BY <1>1, DinAt
<1>3. Clean(Accesses(c))
  BY <1>2, Written DEF Clean, Quiet
<1> QED
  BY <1>2, <1>3

-----------------------------------------------------------------------------
(* Types, and one thread at work at a time.                                *)
LEMMA LatchedIs == Latched(bar0) = [x \in 1 .. 4 |-> [k \in 1 .. 15 |-> Taken(x, k)]]
  BY SMT DEF Latched, Taken, Take

LEMMA LatchedTyped ==
  ASSUME bar0 \in [Regs -> Int], level \in Levels
  PROVE  /\ Latched(bar0) \in Levels
         /\ \A x \in 1 .. 4 : \A k \in 1 .. 15 : Latched(bar0)[x][k] = Taken(x, k)
<1>1. \A x \in 1 .. 4 : (bar0[DIN[x]] % 4096) \div 4 \in Nat
  BY DinAt, SMT
<1>2. \A x \in 1 .. 4 : \A k \in 1 .. 15 : level[x][k] \in Nat \union {None}
  BY DEF Levels
<1>3. \A x \in 1 .. 4 : \A k \in 1 .. 15 : Taken(x, k) \in Nat \union {None}
  BY <1>1, <1>2, SMT DEF Taken, Take
<1> QED
  BY <1>3, LatchedIs DEF Levels

LEMMA TypedAccess ==
  ASSUME Typed, NEW t \in Threads, access(t)
  PROVE  Typed'
<1>1. todo' \in [Threads -> Seq(Access)]
  <2>1. Tail(todo[t]) \in Seq(Access) /\ todo \in [Threads -> Seq(Access)] /\ todo' = [todo EXCEPT ![t] = Tail(todo[t])]
    BY AccessFacts, Elements DEF Typed
  <2> QED
    BY <2>1
<1>2. level' \in Levels
  BY AccessFacts, LatchedTyped DEF Typed
<1> QED
  BY <1>1, <1>2, AccessFacts DEF Typed

LEMMA CallStep ==
  ASSUME Typed, NEW t \in Threads, call(t)
  PROVE  \E c \in Calls :
           /\ todo[t] = <<>> /\ todo'[t] = Accesses(c) /\ \A u \in Threads : u # t => todo'[u] = todo[u]
           /\ todo' \in [Threads -> Seq(Access)] /\ Accesses(c) \in Seq(Access)
           /\ DOMAIN want' = Targets
           /\ handle => want'[Target(c)] = Arg(c) /\ \A g \in Targets : g # Target(c) => want'[g] = want[g]
           /\ ~handle => want' = want
           /\ asked' = IF c.f = "di" THEN asked \union {c} ELSE asked
           /\ undisturbed' = (undisturbed /\ Idle)
           /\ bar0' = bar0 /\ level' = level /\ handle' = handle /\ val' = val
<1>1. PICK c \in Calls :
        /\ todo' = [todo EXCEPT ![t] = Accesses(c)]
        /\ want' = IF handle THEN [want EXCEPT ![Target(c)] = Arg(c)] ELSE want
        /\ asked' = asked \union (IF c.f = "di" THEN {c} ELSE {})
  BY Zenon DEF call
<1>2. Accesses(c) \in Seq(Access) /\ Target(c) \in Targets
  BY CallAreas, TargetIn
<1>3. todo[t] = <<>> /\ undisturbed' = (undisturbed /\ Idle) /\ UNCHANGED <<bar0, level, handle, val>>
  BY Zenon DEF call
<1>4. todo \in [Threads -> Seq(Access)] /\ DOMAIN want = Targets
  BY Zenon DEF Typed
<1>5. /\ todo'[t] = Accesses(c) /\ todo' \in [Threads -> Seq(Access)]
      /\ \A u \in Threads : u # t => todo'[u] = todo[u]
  BY <1>1, <1>2, <1>4
<1>6. /\ DOMAIN want' = Targets
      /\ handle => want'[Target(c)] = Arg(c) /\ \A g \in Targets : g # Target(c) => want'[g] = want[g]
      /\ ~handle => want' = want
  BY <1>1, <1>2, <1>4
<1>7. asked' = IF c.f = "di" THEN asked \union {c} ELSE asked
  BY <1>1
<1> WITNESS c \in Calls
<1> QED
  BY <1>2, <1>3, <1>5, <1>6, <1>7

LEMMA TypedCall ==
  ASSUME Typed, NEW t \in Threads, call(t)
  PROVE  Typed'
<1>1. PICK c \in Calls :
        /\ todo' \in [Threads -> Seq(Access)] /\ DOMAIN want' = Targets
        /\ asked' = IF c.f = "di" THEN asked \union {c} ELSE asked
        /\ bar0' = bar0 /\ level' = level /\ handle' = handle /\ val' = val
  BY CallStep
<1>2. asked' \subseteq DiCalls
  BY <1>1, CallDi DEF Typed
<1> QED
  BY <1>1, <1>2 DEF Typed

LEMMA TypedClose ==
  ASSUME Typed, device_close
  PROVE  Typed'
  BY DEF Typed, device_close

LEMMA SoloStep ==
  ASSUME Typed, undisturbed => Solo, Next, undisturbed'
  PROVE  Solo'
<1>1. ASSUME NEW t \in Threads, call(t) PROVE Solo'
  <2>1. PICK c \in Calls :
          /\ \A u \in Threads : u # t => todo'[u] = todo[u]
          /\ undisturbed' = (undisturbed /\ Idle)
    BY <1>1, CallStep
  <2>2. Idle
    BY <2>1
  <2> QED
    BY <2>1, <2>2 DEF Idle, Solo
<1>2. ASSUME NEW t \in Threads, access(t) PROVE Solo'
  <2>1. todo[t] # <<>> /\ \A u \in Threads : u # t => todo'[u] = todo[u]
    BY <1>2, AccessFacts
  <2>2. Solo
    BY <1>2, AccessFacts
  <2> QED
    BY <2>1, <2>2 DEF Solo
<1>3. CASE device_close
  BY <1>3 DEF device_close, Solo
<1> QED
  BY <1>1, <1>2, <1>3 DEF Next

-----------------------------------------------------------------------------
(* What a register comes to hold does not change as accesses are made.     *)
LEMMA WillBeStep ==
  ASSUME Typed, NEW t \in Threads, access(t), handle, NEW a \in Regs, NEW v, WillBe(todo[t], a, v)
  PROVE  WillBe(todo[t], a, v)'
<1>1. PICK s \in Seq(Access) : s = todo[t] /\ s # <<>>
  BY AccessFacts
<1> DEFINE r == Tail(s)
<1>2. /\ r = todo'[t] /\ Len(r) = Len(s) - 1 /\ Len(s) \in Nat /\ Len(s) > 0
      /\ \A i \in 1 .. Len(r) : r[i] = s[i + 1]
  <2>1. r = todo'[t]
    BY <1>1, AccessFacts
  <2>2. Len(s) \in Nat /\ Len(s) # 0 /\ Len(r) = Len(s) - 1 /\ \A i \in 1 .. Len(s) - 1 : r[i] = s[i + 1]
    BY <1>1, Elements
  <2> QED
    BY <2>1, <2>2
<1> HIDE DEF r
<1>3. /\ a # s[1].addr => bar0'[a] = bar0[a]
      /\ s[1].op = "write" => bar0'[s[1].addr] = s[1].v
  BY <1>1, AccessFacts
<1>4. SUFFICES LastWrite(r, a, v) \/ (Quiet(r, a) /\ bar0'[a] = v)
  BY <1>2 DEF WillBe, LastWrite, Quiet
<1>5. CASE Quiet(s, a) /\ bar0[a] = v
  <2>1. s[1].addr # a /\ \A j \in 1 .. Len(r) : s[j + 1].addr # a
    BY <1>2, <1>5 DEF Quiet
  <2> QED
    BY <1>2, <1>3, <1>5, <2>1 DEF Quiet
<1>6. CASE LastWrite(s, a, v)
  <2>1. PICK i \in 1 .. Len(s) : s[i] = W(a, v) /\ \A j \in i + 1 .. Len(s) : s[j].addr # a
    BY <1>6 DEF LastWrite
  <2>2. CASE i = 1
    <3>1. s[1].op = "write" /\ s[1].addr = a /\ s[1].v = v
      BY <2>1, <2>2, Written
    <3>2. \A j \in 1 .. Len(r) : s[j + 1].addr # a
      BY <1>2, <2>1, <2>2
    <3> QED
      BY <1>2, <1>3, <3>1, <3>2 DEF Quiet
  <2>3. CASE i # 1
    <3>1. i - 1 \in 1 .. Len(r) /\ r[i - 1] = W(a, v)
      BY <1>2, <2>1, <2>3
    <3>2. \A j \in (i - 1) + 1 .. Len(r) : r[j].addr # a
      BY <1>2, <2>1, <2>3
    <3> QED
      BY <3>1, <3>2 DEF LastWrite
  <2> QED
    BY <2>2, <2>3
<1> QED
  BY <1>1, <1>5, <1>6 DEF WillBe

LEMMA NothingLeft ==
  ASSUME NEW a, NEW v
  PROVE  ~LastWrite(<<>>, a, v) /\ Quiet(<<>>, a)
  BY DEF LastWrite, Quiet

LEMMA ComesAccess ==
  ASSUME Typed, Solo, NEW t \in Threads, access(t), NEW a \in Regs, NEW v, Comes(a, v)
  PROVE  Comes(a, v)'
<1>1. /\ todo[t] # <<>> /\ \A u \in Threads : u # t => todo'[u] = todo[u]
      /\ ~handle => bar0' = bar0
      /\ handle' = handle
  BY AccessFacts
<1>2. CASE ~handle
  BY <1>1, <1>2 DEF Comes
<1>3. CASE handle
  <2>1. WillBe(todo[t], a, v)
    BY <1>1, <1>3 DEF Comes, Idle, Solo
  <2>2. WillBe(todo[t], a, v)'
    BY <1>3, <2>1, WillBeStep
  <2>3. CASE todo'[t] = <<>>
    <3>1. Idle'
      BY <1>1, <2>3 DEF Idle, Solo
    <3>2. bar0'[a] = v
      BY <2>2, <2>3, NothingLeft DEF WillBe
    <3> QED
      BY <3>1, <3>2 DEF Comes
  <2>4. CASE todo'[t] # <<>>
    BY <1>1, <1>3, <2>2, <2>4 DEF Comes
  <2> QED
    BY <2>3, <2>4
<1> QED
  BY <1>2, <1>3

LEMMA ComesIdle ==
  ASSUME Idle, NEW a, NEW v, Comes(a, v)
  PROVE  bar0[a] = v
  BY DEF Comes, Idle

LEMMA ComesClose ==
  ASSUME device_close, undisturbed', NEW a, NEW v, Comes(a, v)
  PROVE  Comes(a, v)'
<1>1. Idle /\ ~handle' /\ bar0' = bar0
  BY DEF device_close
<1> QED
  BY <1>1, ComesIdle DEF Comes

LEMMA ComesCall ==
  ASSUME Typed, NEW t \in Threads, NEW s, Idle, NEW a, NEW v, Comes(a, v),
         todo'[t] = s, \A u \in Threads : u # t => todo'[u] = todo[u],
         bar0' = bar0, handle' = handle, ~handle \/ Quiet(s, a)
  PROVE  Comes(a, v)'
<1>1. bar0'[a] = v
  BY ComesIdle
<1>2. CASE ~handle
  BY <1>1, <1>2 DEF Comes
<1>3. CASE handle /\ s = <<>>
  <2>1. Idle'
    BY <1>3 DEF Idle
  <2> QED
    BY <1>1, <2>1 DEF Comes
<1>4. CASE handle /\ s # <<>>
  <2>1. WillBe(todo[t], a, v)'
    BY <1>1, <1>4 DEF WillBe, Quiet
  <2> QED
    BY <1>4, <2>1 DEF Comes
<1> QED
  BY <1>2, <1>3, <1>4

LEMMA ComesWritten ==
  ASSUME NEW t \in Threads, NEW s, NEW a, NEW v, todo'[t] = s, handle', LastWrite(s, a, v)
  PROVE  Comes(a, v)'
<1>1. s # <<>>
  BY NothingLeft
<1>2. WillBe(todo[t], a, v)'
  BY DEF WillBe, LastWrite
<1> QED
  BY <1>1, <1>2 DEF Comes

LEMMA TargetOf ==
  ASSUME NEW c \in Calls
  PROVE  /\ c.f = "do" => Target(c) = <<"do", c.ch, 0>> /\ Arg(c) = c.v
         /\ c.f = "di" => Target(c) = <<"di", c.ch, c.hl>> /\ Arg(c) = c.m
         /\ c.f \in {"volt", "count", "sel", "mode"} => Target(c) = <<c.f, 0, 0>> /\ Arg(c) = c.v
         /\ Target(c)[1] = c.f
<1>1. CASE c.f = "do"
  BY <1>1, CallKinds, SMT
<1>2. CASE c.f = "di"
  BY <1>2, CallKinds, SMT
<1>3. CASE c.f \in {"volt", "count", "sel", "mode"}
  BY <1>3, CallKinds, SMT
<1>4. CASE c.f \in {"init", "start", "clear"}
  BY <1>4, CallKinds, SMT
<1> QED
  BY <1>1, <1>2, <1>3, <1>4, CallNames

LEMMA TheTargets ==
  /\ \A ch \in DOs : <<"do", ch, 0>> \in Targets
  /\ \A ch \in DIs : \A hl \in {LOW, HIGH} : <<"di", ch, hl>> \in Targets
  /\ <<"volt", 0, 0>> \in Targets /\ <<"count", 0, 0>> \in Targets
  /\ <<"sel", 0, 0>> \in Targets /\ <<"mode", 0, 0>> \in Targets
  BY DEF Targets

LEMMA OutputsAccess ==
  ASSUME Typed, undisturbed => Solo, OutputsInv, NEW t \in Threads, access(t)
  PROVE  OutputsInv'
<1>1. undisturbed' = undisturbed /\ want' = want
  BY AccessFacts
<1> SUFFICES ASSUME undisturbed PROVE OutputsInv'
  BY <1>1 DEF OutputsInv
<1>2. ASSUME NEW a \in Regs, NEW v, Comes(a, v) PROVE Comes(a, v)'
  BY <1>2, ComesAccess
<1>3. ASSUME NEW ch \in DOs \intersect 1 .. 16, NEW v, v = want[<<"do", ch, 0>>], v # None
      PROVE  Comes(DO_En(ch), v[1])' /\ Comes(DO_Ref(ch), v[2])'
  <2>1. Comes(DO_En(ch), v[1]) /\ Comes(DO_Ref(ch), v[2])
    BY <1>3 DEF OutputsInv
  <2> QED
    BY <1>2, <2>1, DoAddrs
<1>4. ASSUME NEW v, v = want[<<"volt", 0, 0>>], v # None PROVE Comes(F_VOLT_SEC_REF, v)'
  <2>1. Comes(F_VOLT_SEC_REF, v)
    BY <1>4 DEF OutputsInv
  <2> QED
    BY <1>2, <2>1, OtherAddrs
<1> QED
  BY <1>1, <1>3, <1>4 DEF OutputsInv

LEMMA OutputsClose ==
  ASSUME Typed, OutputsInv, device_close
  PROVE  OutputsInv'
<1>1. want' = want /\ (undisturbed' => undisturbed)
  BY DEF device_close
<1> SUFFICES ASSUME undisturbed' PROVE OutputsInv'
  BY <1>1 DEF OutputsInv
<1>2. ASSUME NEW a, NEW v, Comes(a, v) PROVE Comes(a, v)'
  BY <1>2, ComesClose
<1>3. ASSUME NEW ch \in DOs \intersect 1 .. 16, NEW v, v = want[<<"do", ch, 0>>], v # None
      PROVE  Comes(DO_En(ch), v[1])' /\ Comes(DO_Ref(ch), v[2])'
  <2>1. Comes(DO_En(ch), v[1]) /\ Comes(DO_Ref(ch), v[2])
    BY <1>1, <1>3 DEF OutputsInv
  <2> QED
    BY <1>2, <2>1
<1>4. ASSUME NEW v, v = want[<<"volt", 0, 0>>], v # None PROVE Comes(F_VOLT_SEC_REF, v)'
  <2>1. Comes(F_VOLT_SEC_REF, v)
    BY <1>1, <1>4 DEF OutputsInv
  <2> QED
    BY <1>2, <2>1
<1> QED
  BY <1>1, <1>3, <1>4 DEF OutputsInv

LEMMA OutputsCall ==
  ASSUME Typed, OutputsInv, NEW t \in Threads, call(t)
  PROVE  OutputsInv'
<1>1. PICK c \in Calls :
        /\ todo'[t] = Accesses(c) /\ \A u \in Threads : u # t => todo'[u] = todo[u]
        /\ handle => want'[Target(c)] = Arg(c) /\ \A g \in Targets : g # Target(c) => want'[g] = want[g]
        /\ ~handle => want' = want
        /\ undisturbed' = (undisturbed /\ Idle)
        /\ bar0' = bar0 /\ handle' = handle
  BY CallStep
<1> SUFFICES ASSUME undisturbed, Idle PROVE OutputsInv'
  BY <1>1 DEF OutputsInv
<1>2. ASSUME NEW a, NEW v, Comes(a, v), ~handle \/ Quiet(Accesses(c), a) PROVE Comes(a, v)'
  BY <1>1, <1>2, ComesCall
<1>3. ASSUME NEW a, NEW v, handle, LastWrite(Accesses(c), a, v) PROVE Comes(a, v)'
  BY <1>1, <1>3, ComesWritten
<1>4. ASSUME NEW ch \in DOs \intersect 1 .. 16, NEW v, v = want'[<<"do", ch, 0>>], v # None
      PROVE  Comes(DO_En(ch), v[1])' /\ Comes(DO_Ref(ch), v[2])'
  <2>1. CASE handle /\ c.f = "do" /\ c.ch = ch
    <3>1. v = c.v
      BY <1>1, <1>4, <2>1, TargetOf
    <3>2. LastWrite(Accesses(c), DO_En(ch), v[1]) /\ LastWrite(Accesses(c), DO_Ref(ch), v[2])
      BY <2>1, <3>1, CallDo
    <3> QED
      BY <1>3, <2>1, <3>2
  <2>2. CASE ~(handle /\ c.f = "do" /\ c.ch = ch)
    <3>1. handle => Target(c) # <<"do", ch, 0>>
      BY <2>2, TargetOf
    <3>2. v = want[<<"do", ch, 0>>]
      BY <1>1, <1>4, <3>1, TheTargets
    <3>3. Comes(DO_En(ch), v[1]) /\ Comes(DO_Ref(ch), v[2])
      BY <1>4, <3>2 DEF OutputsInv
    <3>4. ~handle \/ (Quiet(Accesses(c), DO_En(ch)) /\ Quiet(Accesses(c), DO_Ref(ch)))
      BY <2>2, OutputsLeft
    <3> QED
      BY <1>2, <3>3, <3>4
  <2> QED
    BY <2>1, <2>2
<1>5. ASSUME NEW v, v = want'[<<"volt", 0, 0>>], v # None PROVE Comes(F_VOLT_SEC_REF, v)'
  <2>1. CASE handle /\ c.f = "volt"
    <3>1. v = c.v
      BY <1>1, <1>5, <2>1, TargetOf
    <3> QED
      BY <1>3, <2>1, <3>1, CallVolt
  <2>2. CASE ~(handle /\ c.f = "volt")
    <3>1. handle => Target(c) # <<"volt", 0, 0>>
      BY <2>2, TargetOf
    <3>2. v = want[<<"volt", 0, 0>>]
      BY <1>1, <1>5, <3>1, TheTargets
    <3>3. Comes(F_VOLT_SEC_REF, v)
      BY <1>5, <3>2 DEF OutputsInv
    <3> QED
      BY <1>2, <2>2, <3>3, OutputsLeft
  <2> QED
    BY <2>1, <2>2
<1> QED
  BY <1>4, <1>5 DEF OutputsInv

-----------------------------------------------------------------------------
(* The oscilloscope.                                                       *)
LEMMA ScopeAddrs ==
  \h0 \in Regs /\ \h8 \in Regs /\ \h1008 \in Regs /\ \h2000 \in Regs /\ \h2008 \in Regs /\ \h4000 \in Regs
  BY OtherAddrs, SMT DEF ScopeRegs

LEMMA ClearTails ==
  /\ clear_a_buff # <<>> /\ Tail(clear_a_buff) # <<>> /\ Tail(Tail(clear_a_buff)) # <<>>
  /\ clear_a_buff[1] = [op |-> "read", addr |-> \h2008]
  /\ Tail(clear_a_buff)[1] = [op |-> "set", addr |-> \h2008]
  /\ Tail(Tail(clear_a_buff))[1] = [op |-> "clear", addr |-> \h2008]
<1> DEFINE o == [op |-> "read", addr |-> \h2008]
           p == [op |-> "set", addr |-> \h2008]
           q == [op |-> "clear", addr |-> \h2008]
<1>1. clear_a_buff = <<o, p, q>>
  BY SMT DEF clear_a_buff
<1> HIDE DEF o, p, q
<1>2. Tail(<<o, p, q>>) = <<p, q>> /\ Tail(<<p, q>>) = <<q>>
  OBVIOUS
<1>3. Tail(clear_a_buff) = <<p, q>> /\ Tail(Tail(clear_a_buff)) = <<q>>
  BY <1>1, <1>2
<1>4. clear_a_buff # <<>> /\ Tail(clear_a_buff) # <<>> /\ Tail(Tail(clear_a_buff)) # <<>>
  BY <1>1, <1>3
<1>5. clear_a_buff[1] = o /\ Tail(clear_a_buff)[1] = p /\ Tail(Tail(clear_a_buff))[1] = q
  BY <1>1, <1>3
<1>6. o = [op |-> "read", addr |-> \h2008] /\ p = [op |-> "set", addr |-> \h2008] /\ q = [op |-> "clear", addr |-> \h2008]
  BY SMT DEF o, p, q
<1> QED
  BY ONLY <1>3, <1>4, <1>5, <1>6, SMT

LEMMA ClearDone == Tail(Tail(Tail(clear_a_buff))) = <<>>
<1> DEFINE o == [op |-> "read", addr |-> \h2008]
           p == [op |-> "set", addr |-> \h2008]
           q == [op |-> "clear", addr |-> \h2008]
<1>1. clear_a_buff = <<o, p, q>>
  BY SMT DEF clear_a_buff
<1> HIDE DEF o, p, q
<1>2. Tail(<<o, p, q>>) = <<p, q>> /\ Tail(<<p, q>>) = <<q>> /\ Tail(<<q>>) = <<>>
  OBVIOUS
<1> QED
  BY <1>1, <1>2

(* The read-modify-write of clear_a_buff(), access by access.              *)
LEMMA BitSet == \A w \in {0, 1} : Bit(w, 2) = 0 /\ Bit(w + 2, 2) = 1
  BY SMT DEF Bit

LEMMA ClearingStep ==
  ASSUME Typed, Solo, handle, NEW t \in Threads, access(t), NEW w \in {0, 1}, Clearing(t, w)
  PROVE  Comes(\h2008, w)' \/ Clearing(t, w)'
<1>1. PICK a \in Regs : a = \h2008
  BY ScopeAddrs, SMT
<1>2. /\ todo'[t] = Tail(todo[t]) /\ \A u \in Threads : u # t => todo'[u] = todo[u]
      /\ handle' = handle /\ todo[t] # <<>>
  BY AccessFacts
<1>3. bar0 \in [Regs -> Int] /\ val \in [Threads -> Int] /\ Head(todo[t]) = todo[t][1]
  BY AccessFacts, Elements DEF Typed
<1> DEFINE o == todo[t][1]
           n == NewValue(o, val[t])
<1>4. /\ bar0' = [bar0 EXCEPT ![o.addr] = n]
      /\ val' = [val EXCEPT ![t] = IF o.op = "write" THEN 0 ELSE n]
  <2> DEFINE h == Head(todo[t])
             m == NewValue(h, val[t])
  <2>1. bar0' = IF handle THEN [bar0 EXCEPT ![h.addr] = m] ELSE bar0
    BY DEF access, NewValue
  <2>2. val' = [val EXCEPT ![t] = IF h.op = "write" \/ (h.op = "read" /\ ~handle) THEN 0 ELSE m]
    BY DEF access, NewValue
  <2>3. h = o /\ m = n
    BY <1>3
  <2> HIDE DEF h, m, o, n
  <2> QED
    BY <2>1, <2>2, <2>3
<1>5. (o.op = "read" => n = bar0[o.addr])
      /\ (o.op = "set" => n = IF Bit(val[t], 2) = 1 THEN val[t] ELSE val[t] + 2)
      /\ (o.op = "clear" => n = IF Bit(val[t], 2) = 1 THEN val[t] - 2 ELSE val[t])
  BY DEF NewValue
<1> HIDE DEF o, n
<1>6. CASE todo[t] = clear_a_buff /\ bar0[a] = w
  <2>1. o.op = "read" /\ o.addr = a
    BY <1>1, <1>6, ClearTails, SMT DEF o
  <2>2. val'[t] = w /\ todo'[t] = Tail(clear_a_buff)
    BY <1>2, <1>3, <1>4, <1>5, <1>6, <2>1
  <2> QED
    BY <2>2 DEF Clearing
<1>7. CASE todo[t] = Tail(clear_a_buff) /\ val[t] = w
  <2>1. o.op = "set" /\ o.addr = a
    BY <1>1, <1>7, ClearTails, SMT DEF o
  <2>2. n = w + 2
    BY <1>5, <1>7, <2>1, BitSet
  <2>3. val'[t] = w + 2 /\ todo'[t] = Tail(Tail(clear_a_buff))
    BY <1>2, <1>3, <1>4, <1>7, <2>1, <2>2
  <2> QED
    BY <2>3 DEF Clearing
<1>8. CASE todo[t] = Tail(Tail(clear_a_buff)) /\ val[t] = w + 2
  <2>1. o.op = "clear" /\ o.addr = a
    BY <1>1, <1>8, ClearTails, SMT DEF o
  <2>2. n = w
    <3>1. Bit(w + 2, 2) = 1 /\ (w + 2) - 2 = w
      BY BitSet
    <3> QED
      BY <1>5, <1>8, <2>1, <3>1
  <2>3. bar0'[a] = w
    BY <1>3, <1>4, <2>1, <2>2
  <2>4. todo'[t] = <<>>
    <3>1. Tail(Tail(Tail(clear_a_buff))) = <<>>
      BY ClearDone, Zenon
    <3> QED
      BY ONLY <1>2, <1>8, <3>1
  <2>5. Idle'
    BY <1>2, <2>4 DEF Idle, Solo
  <2>6. Comes(a, w)'
    BY <2>3, <2>5 DEF Comes
  <2> QED
    BY <1>1, <2>6, SMT
<1>9. \/ todo[t] = clear_a_buff /\ bar0[a] = w
      \/ todo[t] = Tail(clear_a_buff) /\ val[t] = w
      \/ todo[t] = Tail(Tail(clear_a_buff)) /\ val[t] = w + 2
  BY <1>1, SMT DEF Clearing
<1> QED
  BY ONLY <1>6, <1>7, <1>8, <1>9

LEMMA EnableAccess ==
  ASSUME Typed, Solo, EnableInv, NEW t \in Threads, access(t)
  PROVE  EnableInv'
<1>1. PICK w \in {0, 1} : w = Enabled
  BY DEF Enabled
<1>2. Enabled' = w /\ handle' = handle
  BY <1>1, AccessFacts DEF Enabled
<1>3. CASE Comes(\h2008, w)
  <2>1. Comes(\h2008, w)'
    BY <1>3, ComesAccess, ScopeAddrs, SMT
  <2> QED
    BY <1>2, <2>1, SMT DEF EnableInv
<1>4. CASE handle /\ \E u \in Threads : Clearing(u, w)
  <2>1. PICK u \in Threads : Clearing(u, w)
    BY <1>4
  <2>2. todo[u] # <<>>
    BY <2>1, ClearTails, SMT DEF Clearing
  <2>3. u = t
    BY <2>2, AccessFacts DEF Solo
  <2>4. Comes(\h2008, w)' \/ Clearing(t, w)'
    BY <1>4, <2>1, <2>3, ClearingStep, SMT
  <2> QED
    BY <1>2, <1>4, <2>4, SMT DEF EnableInv
<1> QED
  BY <1>1, <1>3, <1>4, SMT DEF EnableInv

LEMMA EnableIdle ==
  ASSUME EnableInv, Idle
  PROVE  Comes(\h2008, Enabled)
<1>1. ASSUME NEW t \in Threads, Clearing(t, Enabled) PROVE FALSE
  <2>1. todo[t] # <<>>
    BY <1>1, ClearTails, SMT DEF Clearing
  <2> QED
    BY <2>1 DEF Idle
<1> QED
  BY <1>1, SMT DEF EnableInv

LEMMA ScopeAccess ==
  ASSUME Typed, undisturbed => Solo, ScopeInv, NEW t \in Threads, access(t)
  PROVE  ScopeInv'
<1>1. undisturbed' = undisturbed /\ want' = want
  BY AccessFacts
<1> SUFFICES ASSUME undisturbed'
             PROVE  (EnableInv /\ ModeInv /\ SelInv /\ CountInv /\ Comes(\h4000, 0) /\ Comes(DIN_VLD, 0))'
  BY SMT DEF ScopeInv
<1> undisturbed
  BY <1>1
<1>2. ASSUME NEW a \in Regs, NEW v, Comes(a, v) PROVE Comes(a, v)'
  BY <1>2, ComesAccess
<1>3. EnableInv'
  BY EnableAccess, SMT DEF ScopeInv
<1>4. ModeInv'
  <2> SUFFICES ASSUME NEW v, v = want[<<"mode", 0, 0>>], v # None
               PROVE  v \in BOOLEAN /\ Comes(\h2000, ModeValue(v))'
    BY <1>1, SMT DEF ModeInv, ModeValue
  <2>1. v \in BOOLEAN /\ Comes(\h2000, ModeValue(v))
    BY SMT DEF ScopeInv, ModeInv
  <2> QED
    BY <1>2, <2>1, ScopeAddrs, SMT
<1>5. SelInv'
  <2> SUFFICES ASSUME NEW v, v = want[<<"sel", 0, 0>>], v # None
               PROVE  v \in Selections /\ Comes(\h0, Packed(v, 0))' /\ Comes(\h8, Packed(v, 4))'
    BY <1>1, SMT DEF SelInv
  <2>1. v \in Selections /\ Comes(\h0, Packed(v, 0)) /\ Comes(\h8, Packed(v, 4))
    BY SMT DEF ScopeInv, SelInv
  <2> QED
    BY <1>2, <2>1, ScopeAddrs, SMT
<1>6. CountInv'
  <2> SUFFICES ASSUME NEW v, v = want[<<"count", 0, 0>>], v # None
               PROVE  Comes(\h1008, v)'
    BY <1>1, SMT DEF CountInv
  <2>1. Comes(\h1008, v)
    BY SMT DEF ScopeInv, CountInv
  <2> QED
    BY <1>2, <2>1, ScopeAddrs, SMT
<1>7. Comes(\h4000, 0)' /\ Comes(DIN_VLD, 0)'
  BY <1>2, ScopeAddrs, OtherAddrs, SMT DEF ScopeInv
<1> QED
  BY <1>3, <1>4, <1>5, <1>6, <1>7

LEMMA ScopeClose ==
  ASSUME Typed, ScopeInv, device_close
  PROVE  ScopeInv'
<1>1. want' = want /\ (undisturbed' => undisturbed /\ Idle)
  BY DEF device_close
<1> SUFFICES ASSUME undisturbed'
             PROVE  (EnableInv /\ ModeInv /\ SelInv /\ CountInv /\ Comes(\h4000, 0) /\ Comes(DIN_VLD, 0))'
  BY SMT DEF ScopeInv
<1>2. ASSUME NEW a, NEW v, Comes(a, v) PROVE Comes(a, v)'
  BY <1>2, ComesClose
<1>3. EnableInv'
  <2>1. Comes(\h2008, Enabled)
    BY <1>1, EnableIdle, SMT DEF ScopeInv
  <2>2. PICK w : w = Enabled /\ w = Enabled'
    BY <1>1 DEF Enabled
  <2>3. Comes(\h2008, w)'
    BY <1>2, <2>1, <2>2, SMT
  <2> QED
    BY <2>2, <2>3, SMT DEF EnableInv
<1>4. ModeInv'
  <2> SUFFICES ASSUME NEW v, v = want[<<"mode", 0, 0>>], v # None
               PROVE  v \in BOOLEAN /\ Comes(\h2000, ModeValue(v))'
    BY <1>1, SMT DEF ModeInv, ModeValue
  <2>1. v \in BOOLEAN /\ Comes(\h2000, ModeValue(v))
    BY <1>1, SMT DEF ScopeInv, ModeInv
  <2> QED
    BY <1>2, <2>1, SMT
<1>5. SelInv'
  <2> SUFFICES ASSUME NEW v, v = want[<<"sel", 0, 0>>], v # None
               PROVE  v \in Selections /\ Comes(\h0, Packed(v, 0))' /\ Comes(\h8, Packed(v, 4))'
    BY <1>1, SMT DEF SelInv
  <2>1. v \in Selections /\ Comes(\h0, Packed(v, 0)) /\ Comes(\h8, Packed(v, 4))
    BY <1>1, SMT DEF ScopeInv, SelInv
  <2> QED
    BY <1>2, <2>1, SMT
<1>6. CountInv'
  <2> SUFFICES ASSUME NEW v, v = want[<<"count", 0, 0>>], v # None
               PROVE  Comes(\h1008, v)'
    BY <1>1, SMT DEF CountInv
  <2>1. Comes(\h1008, v)
    BY <1>1, SMT DEF ScopeInv, CountInv
  <2> QED
    BY <1>2, <2>1, SMT
<1>7. Comes(\h4000, 0)' /\ Comes(DIN_VLD, 0)'
  BY <1>1, <1>2, SMT DEF ScopeInv
<1> QED
  BY <1>3, <1>4, <1>5, <1>6, <1>7

LEMMA NoneApart == None \notin BOOLEAN /\ None \notin Nat
  BY RegsAssumption, Zenon

LEMMA ScopeCall ==
  ASSUME Typed, ScopeInv, NEW t \in Threads, call(t)
  PROVE  ScopeInv'
<1>1. PICK c \in Calls :
        /\ todo'[t] = Accesses(c) /\ \A u \in Threads : u # t => todo'[u] = todo[u]
        /\ handle => want'[Target(c)] = Arg(c) /\ \A g \in Targets : g # Target(c) => want'[g] = want[g]
        /\ ~handle => want' = want
        /\ undisturbed' = (undisturbed /\ Idle)
        /\ bar0' = bar0 /\ handle' = handle
  BY CallStep
<1> SUFFICES ASSUME undisturbed'
             PROVE  (EnableInv /\ ModeInv /\ SelInv /\ CountInv /\ Comes(\h4000, 0) /\ Comes(DIN_VLD, 0))'
  BY SMT DEF ScopeInv
<1> undisturbed /\ Idle
  BY <1>1
<1>2. ASSUME NEW a, NEW v, Comes(a, v), ~handle \/ Quiet(Accesses(c), a) PROVE Comes(a, v)'
  BY <1>1, <1>2, ComesCall
<1>3. ASSUME NEW a, NEW v, handle, LastWrite(Accesses(c), a, v) PROVE Comes(a, v)'
  BY <1>1, <1>3, ComesWritten
<1>4. ASSUME NEW f \in {"mode", "sel", "count"}
      PROVE  /\ handle /\ c.f = f => want'[<<f, 0, 0>>] = c.v
             /\ ~(handle /\ c.f = f) => want'[<<f, 0, 0>>] = want[<<f, 0, 0>>]
  <2>1. c.f = f => Target(c) = <<f, 0, 0>> /\ Arg(c) = c.v
    BY <1>4, TargetOf, SMT
  <2>2. c.f # f => Target(c) # <<f, 0, 0>>
    BY TargetOf, SMT
  <2>3. <<f, 0, 0>> \in Targets
    BY <1>4, TheTargets
  <2> QED
    BY <1>1, <2>1, <2>2, <2>3
<1>5. EnableInv'
  <2>1. Comes(\h2008, Enabled)
    BY EnableIdle, SMT DEF ScopeInv
  <2>2. CASE handle /\ c.f = "mode"
    <3>1. want'[<<"mode", 0, 0>>] # None
      <4>1. want'[<<"mode", 0, 0>>] = c.v /\ c.v \in BOOLEAN
        BY <1>4, <2>2, CallMode, SMT
      <4> QED
        BY <4>1, NoneApart
    <3>2. Enabled' = 1
      BY <3>1 DEF Enabled
    <3>3. Comes(\h2008, 1)'
      BY <1>3, <2>2, CallMode, SMT
    <3> QED
      BY <3>2, <3>3, SMT DEF EnableInv
  <2>3. CASE ~(handle /\ c.f = "mode")
    <3>1. PICK w : w = Enabled /\ w = Enabled'
      BY <1>4, <2>3 DEF Enabled
    <3>2. bar0'[\h2008] = w
      BY <1>1, <2>1, <3>1, ComesIdle, SMT
    <3>3. CASE handle /\ c.f = "clear"
      <4>1. Clearing(t, w)'
        BY <1>1, <3>2, <3>3, CallClear, SMT DEF Clearing
      <4> QED
        BY <1>1, <3>1, <3>3, <4>1, SMT DEF EnableInv
    <3>4. CASE ~(handle /\ c.f = "clear")
      <4>1. ~handle \/ Quiet(Accesses(c), \h2008)
        BY <2>3, <3>4, ScopeLeft, SMT
      <4>2. Comes(\h2008, w)'
        BY <1>2, <2>1, <3>1, <4>1, SMT
      <4> QED
        BY <3>1, <4>2, SMT DEF EnableInv
    <3> QED
      BY <3>3, <3>4
  <2> QED
    BY <2>2, <2>3
<1>6. ModeInv'
  <2> SUFFICES ASSUME NEW v, v = want'[<<"mode", 0, 0>>], v # None
               PROVE  v \in BOOLEAN /\ Comes(\h2000, ModeValue(v))'
    BY SMT DEF ModeInv, ModeValue
  <2>1. CASE handle /\ c.f = "mode"
    BY <1>3, <1>4, <2>1, CallMode, SMT
  <2>2. CASE ~(handle /\ c.f = "mode")
    <3>1. v \in BOOLEAN /\ Comes(\h2000, ModeValue(v))
      BY <1>4, <2>2, SMT DEF ScopeInv, ModeInv
    <3>2. ~handle \/ Quiet(Accesses(c), \h2000)
      BY <2>2, ScopeLeft, SMT
    <3> QED
      BY <1>2, <3>1, <3>2, SMT
  <2> QED
    BY <2>1, <2>2
<1>7. SelInv'
  <2> SUFFICES ASSUME NEW v, v = want'[<<"sel", 0, 0>>], v # None
               PROVE  v \in Selections /\ Comes(\h0, Packed(v, 0))' /\ Comes(\h8, Packed(v, 4))'
    BY SMT DEF SelInv
  <2>1. CASE handle /\ c.f = "sel"
    <3>1. v = c.v /\ v \in Selections /\ LastWrite(Accesses(c), \h0, Packed(v, 0)) /\ LastWrite(Accesses(c), \h8, Packed(v, 4))
      BY <1>4, <2>1, CallSel, SMT
    <3> QED
      BY <1>3, <2>1, <3>1, SMT
  <2>2. CASE ~(handle /\ c.f = "sel")
    <3>1. v \in Selections /\ Comes(\h0, Packed(v, 0)) /\ Comes(\h8, Packed(v, 4))
      BY <1>4, <2>2, SMT DEF ScopeInv, SelInv
    <3>2. ~handle \/ (Quiet(Accesses(c), \h0) /\ Quiet(Accesses(c), \h8))
      BY <2>2, ScopeLeft, SMT
    <3> QED
      BY <1>2, <3>1, <3>2, SMT
  <2> QED
    BY <2>1, <2>2
<1>8. CountInv'
  <2> SUFFICES ASSUME NEW v, v = want'[<<"count", 0, 0>>], v # None
               PROVE  Comes(\h1008, v)'
    BY SMT DEF CountInv
  <2>1. CASE handle /\ c.f = "count"
    BY <1>3, <1>4, <2>1, CallCount, SMT
  <2>2. CASE ~(handle /\ c.f = "count")
    <3>1. Comes(\h1008, v)
      BY <1>4, <2>2, SMT DEF ScopeInv, CountInv
    <3>2. ~handle \/ Quiet(Accesses(c), \h1008)
      BY <2>2, ScopeLeft, SMT
    <3> QED
      BY <1>2, <3>1, <3>2, SMT
  <2> QED
    BY <2>1, <2>2
<1>9. Comes(\h4000, 0)'
  <2>1. CASE handle /\ c.f = "start"
    BY <1>3, <2>1, CallStart, SMT
  <2>2. CASE ~(handle /\ c.f = "start")
    BY <1>2, <2>2, ScopeLeft, SMT DEF ScopeInv
  <2> QED
    BY <2>1, <2>2
<1>10. Comes(DIN_VLD, 0)'
  <2>1. CASE handle /\ c.f = "di"
    BY <1>3, <2>1, CallDi
  <2>2. CASE ~(handle /\ c.f = "di")
    BY <1>2, <2>2, InputsLeft, SMT DEF ScopeInv
  <2> QED
    BY <2>1, <2>2
<1> QED
  BY <1>5, <1>6, <1>7, <1>8, <1>9, <1>10

-----------------------------------------------------------------------------
(* Whatever a converter takes was asked for.                               *)
LEMMA VoltsNat == \A m \in Volts : m \in Nat
  BY RegsAssumption, Zenon

LEMMA AskedFacts ==
  ASSUME Typed, InRange, NEW c \in asked, c.ch # 0
  PROVE  /\ c.ch \in 1 .. 16 /\ c.hl \in {LOW, HIGH} /\ c.m \in Nat /\ Din(c.ch) \in 1 .. 4
         /\ get_control(c.ch, c.hl) \in 1 .. 8
         /\ Code(c) \in Nat /\ Within(Code(c), c.m)
         /\ Decodes(Value(c), get_control(c.ch, c.hl), Code(c))
<1>1. c \in DiCalls
  BY Zenon DEF Typed
<1>2. c.ch \in DIs /\ c.hl \in {LOW, HIGH} /\ c.m \in Volts
  BY <1>1 DEF DiCalls
<1>3. c.ch \in 1 .. 16
  BY <1>2 DEF DIs
<1>4. PICK m \in Nat : m = c.m
  BY <1>2, VoltsNat, Zenon
<1>5. m < 2560
  BY <1>4, SMT DEF InRange
<1>6. get_input_code(m) \in Nat /\ Within(get_input_code(m), m) /\ get_input_code(m) < 1024
  BY <1>5, CodeFacts, SMT
<1>7. Code(c) = get_input_code(m)
  BY <1>4 DEF Code
<1>8. PICK n \in Nat : n = Code(c) /\ Within(n, m) /\ n < 1024
  BY <1>6, <1>7, SMT
<1>9. PICK ch \in 1 .. 16 : ch = c.ch
  BY <1>3
<1>10. PICK hl \in {LOW, HIGH} : hl = c.hl
  BY <1>2
<1>11. Decodes(get_reg_value(ch, hl, n), get_control(ch, hl), n)
  BY <1>8, ValueFacts
<1>12. Decodes(Value(c), get_control(c.ch, c.hl), Code(c))
  BY <1>8, <1>11, <1>9, <1>10 DEF Value
<1>13. get_control(c.ch, c.hl) \in 1 .. 8 /\ Din(c.ch) \in 1 .. 4
  BY <1>2, <1>3, Control, DinFacts
<1> QED
  BY <1>2, <1>3, <1>4, <1>8, <1>12, <1>13, SMT

LEMMA ZeroTakesNone == \A k \in 1 .. 15 : 0 \div 4096 # k
  BY SMT

LEMMA TakenFrom ==
  ASSUME Typed, InRange, RegsFrom, LevelsFrom, NEW x \in 1 .. 4, NEW k \in 1 .. 15, Taken(x, k) # None
  PROVE  From(x, k, Taken(x, k))
<1>1. PICK v : v = bar0[DIN[x]]
  OBVIOUS
<1>2. Taken(x, k) = IF v \div 4096 = k THEN (v % 4096) \div 4 ELSE level[x][k]
  BY <1>1, SMT DEF Taken, Take
<1>3. CASE v \div 4096 # k
  BY <1>2, <1>3, SMT DEF LevelsFrom
<1>4. CASE v \div 4096 = k
  <2>1. v # 0
    BY <1>4, ZeroTakesNone, SMT
  <2>2. PICK c \in asked : On(c, x) /\ v = Value(c)
    BY <1>1, <2>1 DEF RegsFrom, Sourced
  <2>3. c.ch # 0
    BY <2>2 DEF On
  <2>4. get_control(c.ch, c.hl) = k /\ Taken(x, k) = Code(c)
    <3>1. Decodes(v, get_control(c.ch, c.hl), Code(c))
      BY <2>2, <2>3, AskedFacts
    <3> QED
      BY <1>2, <1>4, <3>1, SMT DEF Decodes
  <2> QED
    BY <2>2, <2>4 DEF From
<1> QED
  BY <1>3, <1>4

LEMMA FromAccess ==
  ASSUME Typed, FromInv, NEW t \in Threads, access(t)
  PROVE  FromInv'
<1>1. asked' = asked /\ (InRange' <=> InRange)
  BY AccessFacts DEF InRange
<1> SUFFICES ASSUME InRange PROVE (RegsFrom /\ TodoFrom /\ LevelsFrom)'
  BY <1>1, Zenon DEF FromInv
<1>2. RegsFrom /\ TodoFrom /\ LevelsFrom
  BY DEF FromInv
<1>3. \A x, v : Sourced(x, v)' <=> Sourced(x, v)
  BY <1>1 DEF Sourced
<1>4. \A x, k, v : From(x, k, v)' <=> From(x, k, v)
  BY <1>1 DEF From
<1>5. RegsFrom'
  <2> SUFFICES ASSUME NEW x \in 1 .. 4 PROVE Sourced(x, bar0'[DIN[x]])
    BY <1>3 DEF RegsFrom
  <2>1. DIN[x] \in Regs
    BY DinAt
  <2>2. CASE handle /\ todo[t][1].addr = DIN[x]
    <3>1. DIN[x] # \h2008
      BY DinAt, Areas, SMT
    <3>2. todo[t][1].op = "write"
      <4>1. PICK o \in Access : o = todo[t][1]
        BY AccessFacts
      <4> QED
        BY <2>2, <3>1, <4>1, AccessParts, SMT
    <3>3. bar0'[DIN[x]] = todo[t][1].v
      BY <2>2, <3>2, AccessFacts
    <3>4. 1 \in 1 .. Len(todo[t])
      BY AccessFacts, Elements
    <3> QED
      BY <1>2, <2>2, <3>3, <3>4 DEF TodoFrom
  <2>3. CASE ~(handle /\ todo[t][1].addr = DIN[x])
    <3>1. bar0'[DIN[x]] = bar0[DIN[x]]
      BY <2>1, <2>3, AccessFacts
    <3> QED
      BY <1>2, <3>1 DEF RegsFrom
  <2> QED
    BY <2>2, <2>3
<1>6. TodoFrom'
  <2> SUFFICES ASSUME NEW u \in Threads, NEW i \in 1 .. Len(todo'[u]), NEW x \in 1 .. 4, todo'[u][i].addr = DIN[x]
               PROVE  Sourced(x, todo'[u][i].v)
    BY <1>3 DEF TodoFrom
  <2>1. CASE u # t
    <3>1. todo'[u] = todo[u]
      BY <2>1, AccessFacts
    <3>2. i \in 1 .. Len(todo[u]) /\ todo[u][i].addr = DIN[x]
      BY ONLY <3>1, i \in 1 .. Len(todo'[u]), todo'[u][i].addr = DIN[x], Zenon
    <3>3. Sourced(x, todo[u][i].v)
      BY <1>2, <3>2, Zenon DEF TodoFrom
    <3> QED
      BY ONLY <3>1, <3>3, Zenon
  <2>2. CASE u = t
    <3>1. PICK j \in 1 .. Len(todo[t]) : todo'[u][i] = todo[t][j]
      <4>1. todo'[u] = Tail(todo[t]) /\ todo[t] \in Seq(Access) /\ todo[t] # <<>>
        BY <2>2, AccessFacts
      <4>2. /\ Len(todo'[u]) = Len(todo[t]) - 1 /\ Len(todo[t]) \in Nat
            /\ \A l \in 1 .. Len(todo[t]) - 1 : todo'[u][l] = todo[t][l + 1]
        BY <4>1, Elements
      <4>3. i + 1 \in 1 .. Len(todo[t]) /\ todo'[u][i] = todo[t][i + 1]
        BY <4>2
      <4> QED
        BY <4>3
    <3> QED
      BY <1>2, <3>1 DEF TodoFrom
  <2> QED
    BY <2>1, <2>2
<1>7. LevelsFrom'
  <2> SUFFICES ASSUME NEW x \in 1 .. 4, NEW k \in 1 .. 15, level'[x][k] # None
               PROVE  From(x, k, level'[x][k])
    BY <1>4 DEF LevelsFrom
  <2>1. CASE level' = level
    BY <1>2, <2>1 DEF LevelsFrom
  <2>2. CASE level' = Latched(bar0)
    <3>1. level'[x][k] = Taken(x, k)
      BY <2>2, LatchedTyped DEF Typed
    <3> QED
      BY <1>2, <3>1, TakenFrom
  <2> QED
    BY <2>1, <2>2, AccessFacts
<1> QED
  BY <1>5, <1>6, <1>7

LEMMA FromCall ==
  ASSUME Typed, FromInv, NEW t \in Threads, call(t)
  PROVE  FromInv'
<1>1. PICK c \in Calls :
        /\ todo'[t] = Accesses(c) /\ \A u \in Threads : u # t => todo'[u] = todo[u]
        /\ asked' = IF c.f = "di" THEN asked \union {c} ELSE asked
        /\ bar0' = bar0 /\ level' = level
  BY CallStep
<1>2. asked \subseteq asked' /\ (InRange' => InRange)
  BY <1>1 DEF InRange
<1> SUFFICES ASSUME InRange PROVE (RegsFrom /\ TodoFrom /\ LevelsFrom)'
  BY <1>2, Zenon DEF FromInv
<1>3. RegsFrom /\ TodoFrom /\ LevelsFrom
  BY DEF FromInv
<1>4. \A x, v : Sourced(x, v) => Sourced(x, v)'
  BY <1>2 DEF Sourced
<1>5. \A x, k, v : From(x, k, v) => From(x, k, v)'
  BY <1>2 DEF From
<1>6. RegsFrom'
  BY <1>1, <1>3, <1>4 DEF RegsFrom
<1>7. LevelsFrom'
  BY <1>1, <1>3, <1>5 DEF LevelsFrom
<1>8. TodoFrom'
  <2> SUFFICES ASSUME NEW u \in Threads, NEW i \in 1 .. Len(todo'[u]), NEW x \in 1 .. 4, todo'[u][i].addr = DIN[x],
                      NEW v, v = todo'[u][i].v
               PROVE  Sourced(x, v)'
    BY DEF TodoFrom
  <2>1. CASE u # t
    BY <1>1, <1>3, <1>4, <2>1 DEF TodoFrom
  <2>2. CASE u = t /\ c.f # "di"
    BY <1>1, <2>2, InputsLeft DEF Quiet
  <2>3. CASE u = t /\ c.f = "di" /\ c.ch = 0
    <3>1. Accesses(c) = Call_DI_Config(c.ch, Value(c))
      BY <2>3, CallDi
    <3>2. c.ch \in DIs
      BY <2>3 DEF DIs
    <3>3. Quiet(Accesses(c), DIN[x])
      BY <2>3, <3>1, <3>2, DiTyped
    <3> QED
      BY <1>1, <2>3, <3>3 DEF Quiet
  <2>4. CASE u = t /\ c.f = "di" /\ c.ch # 0
    <3>1. Accesses(c) = Call_DI_Config(c.ch, Value(c)) /\ c.ch \in 1 .. 16 /\ Value(c) \in Int
      BY <2>4, CallDi
    <3>2. c.ch \in DIs
      BY <3>1 DEF DIs
    <3>3. todo'[u][i].v = IF x = Din(c.ch) THEN Value(c) ELSE 0
      <4>1. \A j \in 1 .. Len(Accesses(c)) : \A y \in 1 .. 4 :
              Accesses(c)[j].addr = DIN[y] => Accesses(c)[j].v = IF y = Din(c.ch) THEN Value(c) ELSE 0
        BY <2>4, <3>1, <3>2, DiTyped
      <4>2. todo'[u] = Accesses(c)
        BY <1>1, <2>4
      <4> QED
        BY <4>1, <4>2
    <3>4. c \in asked'
      BY <1>1, <2>4
    <3>5. CASE x = Din(c.ch)
      <4>1. On(c, x) /\ v = Value(c)
        BY <2>4, <3>3, <3>5 DEF On
      <4> QED
        BY <3>4, <4>1 DEF Sourced
    <3>6. CASE x # Din(c.ch)
      BY <3>3, <3>6 DEF Sourced
    <3> QED
      BY <3>5, <3>6
  <2> QED
    BY <2>1, <2>2, <2>3, <2>4
<1> QED
  BY <1>6, <1>7, <1>8

LEMMA FromClose ==
  ASSUME FromInv, device_close
  PROVE  FromInv'
<1>1. asked' = asked /\ bar0' = bar0 /\ todo' = todo /\ level' = level
  BY DEF device_close
<1>2. (InRange' <=> InRange) /\ (RegsFrom' <=> RegsFrom) /\ (TodoFrom' <=> TodoFrom) /\ (LevelsFrom' <=> LevelsFrom)
  BY <1>1 DEF InRange, RegsFrom, TodoFrom, LevelsFrom, From, Sourced
<1> QED
  BY <1>2, Zenon DEF FromInv

-----------------------------------------------------------------------------
(* Calls that do not overlap set the thresholds asked for, and no other.   *)
LEMMA TakeFacts ==
  /\ \A v, k, l : Take(v, k, Take(v, k, l)) = Take(v, k, l)
  /\ \A k \in 1 .. 15 : \A l : Take(0, k, l) = l
<1>1. \A v, k, l : Take(v, k, Take(v, k, l)) = Take(v, k, l)
  BY DEF Take
<1>2. \A k \in 1 .. 15 : \A l : Take(0, k, l) = l
  BY ZeroTakesNone, SMT DEF Take
<1> QED
  BY <1>1, <1>2

LEMMA TakeDecoded ==
  ASSUME NEW v, NEW k, NEW n, NEW l, Decodes(v, k, n)
  PROVE  Take(v, k, l) = n /\ \A j : j # k => Take(v, j, l) = l
  BY SMT DEF Take, Decodes

LEMMA GoodSame ==
  ASSUME NEW ch, NEW hl, Good(ch, hl), want'[<<"di", ch, hl>>] = want[<<"di", ch, hl>>],
         level'[Din(ch)][get_control(ch, hl)] = level[Din(ch)][get_control(ch, hl)]
  PROVE  Good(ch, hl)'
  BY DEF Good, LevelOf

LEMMA LevelIn ==
  ASSUME NEW ch \in 1 .. 16, NEW hl \in {LOW, HIGH}
  PROVE  Din(ch) \in 1 .. 4 /\ get_control(ch, hl) \in 1 .. 15
  BY DinFacts, Control

(* Nothing the thresholds depend on changes.                               *)
LEMMA SettledSame ==
  ASSUME Settled,
         \A ch \in 1 .. 16 : \A hl \in {LOW, HIGH} : want'[<<"di", ch, hl>>] = want[<<"di", ch, hl>>],
         \A x \in 1 .. 4 : bar0'[DIN[x]] = bar0[DIN[x]],
         \A x \in 1 .. 4 : \A k \in 1 .. 15 : level'[x][k] = level[x][k]
  PROVE  Settled'
<1>1. AllGood'
  BY GoodSame, LevelIn DEF Settled, AllGood
<1>2. ASSUME NEW x \in 1 .. 4, NEW k \in 1 .. 15
      PROVE  Taken(x, k)' = level'[x][k]
  BY DEF Settled, Taken
<1> QED
  BY <1>1, <1>2 DEF Settled

LEMMA CleanTail ==
  ASSUME NEW s \in Seq(Access), s # <<>>, Clean(s)
  PROVE  Clean(Tail(s)) /\ (\A x \in 1 .. 4 : s[1].addr # DIN[x]) /\ s[1] # W(DIN_VLD, 1)
<1> DEFINE r == Tail(s)
<1>1. Len(s) \in Nat /\ Len(s) # 0 /\ Len(r) = Len(s) - 1 /\ \A i \in 1 .. Len(s) - 1 : r[i] = s[i + 1]
  BY Elements
<1> HIDE DEF r
<1>2. Clean(r)
  BY <1>1 DEF Clean
<1>3. (\A x \in 1 .. 4 : s[1].addr # DIN[x]) /\ s[1] # W(DIN_VLD, 1)
  BY <1>1 DEF Clean
<1> QED
  BY <1>2, <1>3 DEF r

LEMMA StrobeTail ==
  ASSUME NEW s \in Seq(Access), Strobe(s)
  PROVE  /\ s # <<>>
         /\ Len(s) = 2 => /\ s[1] = W(DIN_VLD, 1) /\ s[2] = W(DIN_VLD, 0) /\ Len(Tail(s)) = 1
                          /\ Tail(s)[1] = W(DIN_VLD, 0)
         /\ Len(s) # 2 => Strobe(Tail(s)) /\ s[1].addr # DIN_VLD
<1> DEFINE r == Tail(s)
<1>1. Len(s) \in Nat /\ Len(s) >= 2 /\ s # <<>>
  BY Elements DEF Strobe
<1>2. Len(r) = Len(s) - 1 /\ \A i \in 1 .. Len(s) - 1 : r[i] = s[i + 1]
  BY <1>1, Elements
<1> HIDE DEF r
<1>3. CASE Len(s) = 2
  BY <1>1, <1>2, <1>3 DEF Strobe, r
<1>4. CASE Len(s) # 2
  <2>1. Len(r) >= 2 /\ r[Len(r) - 1] = W(DIN_VLD, 1) /\ r[Len(r)] = W(DIN_VLD, 0)
    BY <1>1, <1>2, <1>4 DEF Strobe
  <2>2. \A i \in 1 .. Len(s) - 2 : s[i].addr # DIN_VLD
    BY DEF Strobe
  <2>3. \A i \in 1 .. Len(r) - 2 : r[i].addr # DIN_VLD
    <3> SUFFICES ASSUME NEW i \in 1 .. Len(r) - 2 PROVE r[i].addr # DIN_VLD
      OBVIOUS
    <3>1. i + 1 \in 1 .. Len(s) - 2 /\ r[i] = s[i + 1]
      BY <1>1, <1>2
    <3> QED
      BY <2>2, <3>1
  <2>4. s[1].addr # DIN_VLD
    <3>1. PICK n \in Nat : n = Len(s) /\ n >= 2 /\ n # 2
      BY <1>1, <1>4
    <3>2. 1 \in 1 .. n - 2
      BY <3>1
    <3>3. 1 \in 1 .. Len(s) - 2
      BY <3>1, <3>2
    <3> QED
      BY <2>2, <3>3
  <2> QED
    BY <1>1, <1>4, <2>1, <2>3, <2>4 DEF Strobe, r
<1> QED
  BY <1>3, <1>4

(* The last access of a call on an input.                                  *)
LEMMA StrobeEnd ==
  ASSUME Typed, Solo, handle, NEW t \in Threads, access(t), Strobe(todo[t]), Len(todo[t]) = 2
  PROVE  /\ \A u \in Threads : Clean(todo'[u])
         /\ \A x \in 1 .. 4 : bar0'[DIN[x]] = bar0[DIN[x]]
         /\ \A x \in 1 .. 4 : \A k \in 1 .. 15 : level'[x][k] = Taken(x, k)
<1>1. PICK s \in Seq(Access) : s = todo[t] /\ s # <<>> /\ todo'[t] = Tail(s)
  BY AccessFacts
<1>2. s[1] = W(DIN_VLD, 1) /\ Len(Tail(s)) = 1 /\ Tail(s)[1] = W(DIN_VLD, 0)
  BY <1>1, StrobeTail
<1>3. Clean(todo'[t])
  <2>1. W(DIN_VLD, 0) # W(DIN_VLD, 1) /\ W(DIN_VLD, 0).addr = DIN_VLD
    BY Written
  <2> QED
    BY <1>1, <1>2, <2>1, DinAt DEF Clean
<1>4. \A u \in Threads : u # t => todo'[u] = <<>>
  BY <1>1, AccessFacts DEF Solo
<1>5. Clean(<<>>)
  BY DEF Clean
<1>6. s[1].addr = DIN_VLD
  BY <1>2, Written
<1>7. \A x \in 1 .. 4 : bar0'[DIN[x]] = bar0[DIN[x]]
  <2>1. \A a \in Regs : a # s[1].addr => bar0'[a] = bar0[a]
    BY <1>1, AccessFacts
  <2> QED
    BY ONLY <1>6, <2>1, DinAt
<1>8. level' = Latched(bar0)
  BY <1>1, <1>2, AccessFacts
<1>9. \A x \in 1 .. 4 : \A k \in 1 .. 15 : level'[x][k] = Taken(x, k)
  BY <1>8, LatchedTyped DEF Typed
<1> QED
  BY <1>3, <1>4, <1>5, <1>7, <1>9

LEMMA StrobeSets ==
  ASSUME Typed, Solo, InRange, handle, NEW t \in Threads, access(t), Strobe(todo[t]), Len(todo[t]) = 2,
         NEW c \in asked, Setting(todo[t], c)
  PROVE  Settled'
<1>1. /\ \A x \in 1 .. 4 : bar0'[DIN[x]] = bar0[DIN[x]]
      /\ \A x \in 1 .. 4 : \A k \in 1 .. 15 : level'[x][k] = Taken(x, k)
  BY StrobeEnd
<1>2. c.ch # 0 /\ want[<<"di", c.ch, c.hl>>] = c.m
  BY DEF Setting
<1>3. /\ c.ch \in 1 .. 16 /\ c.hl \in {LOW, HIGH} /\ c.m \in Nat /\ Din(c.ch) \in 1 .. 4
      /\ get_control(c.ch, c.hl) \in 1 .. 8 /\ Code(c) \in Nat /\ Within(Code(c), c.m)
      /\ Decodes(Value(c), get_control(c.ch, c.hl), Code(c))
  BY <1>2, AskedFacts
<1>4. PICK x \in 1 .. 4 : x = Din(c.ch)
  BY <1>3
<1>5. PICK k \in 1 .. 15 : k = get_control(c.ch, c.hl)
  BY <1>3
<1>6. want' = want
  BY AccessFacts
<1>7. \A y \in 1 .. 4 : Quiet(todo[t], DIN[y]) /\ \A v : ~LastWrite(todo[t], DIN[y], v)
  <2>1. todo[t][1] = W(DIN_VLD, 1) /\ todo[t][2] = W(DIN_VLD, 0)
    BY AccessFacts, StrobeTail
  <2>2. W(DIN_VLD, 1).addr = DIN_VLD /\ W(DIN_VLD, 0).addr = DIN_VLD
    BY Written
  <2>3. \A i \in 1 .. Len(todo[t]) : \A y \in 1 .. 4 : todo[t][i].addr # DIN[y]
    BY <2>1, <2>2, DinAt
  <2>4. \A y \in 1 .. 4 : Quiet(todo[t], DIN[y])
    BY <2>3 DEF Quiet
  <2>5. ASSUME NEW y \in 1 .. 4, NEW v, LastWrite(todo[t], DIN[y], v) PROVE FALSE
    <3>1. PICK i \in 1 .. Len(todo[t]) : todo[t][i] = W(DIN[y], v)
      BY <2>5 DEF LastWrite
    <3>2. todo[t][i].addr = DIN[y]
      BY <3>1, Written
    <3> QED
      BY <2>3, <3>2
  <2> QED
    BY <2>4, <2>5
<1>8. bar0[DIN[x]] = Value(c)
  <2>1. WillBe(todo[t], DIN[x], Value(c))
    BY <1>4 DEF Setting
  <2> QED
    BY <1>7, <2>1 DEF WillBe
<1>9. \A y \in 1 .. 4 : y # x => bar0[DIN[y]] = 0
  <2>1. \A y \in 1 .. 4 : y # x => WillBe(todo[t], DIN[y], 0)
    BY <1>4 DEF Setting
  <2> QED
    BY <1>7, <2>1 DEF WillBe
<1>10. \A y \in 1 .. 4 : \A j \in 1 .. 15 : y # x => level'[y][j] = level[y][j]
  BY <1>1, <1>9, TakeFacts DEF Taken
<1>11. level'[x][k] = Code(c) /\ \A j \in 1 .. 15 : j # k => level'[x][j] = level[x][j]
  <2>1. Decodes(bar0[DIN[x]], k, Code(c))
    BY <1>3, <1>5, <1>8
  <2>2. Taken(x, k) = Code(c)
    BY <2>1, TakeDecoded DEF Taken
  <2>3. ASSUME NEW j \in 1 .. 15, j # k PROVE Taken(x, j) = level[x][j]
    BY <2>1, <2>3, TakeDecoded DEF Taken
  <2> QED
    BY <1>1, <2>2, <2>3
<1>12. Good(c.ch, c.hl)'
  <2>1. LevelOf(c.ch, c.hl)' = Code(c)
    BY <1>4, <1>5, <1>11 DEF LevelOf
  <2>2. want'[<<"di", c.ch, c.hl>>] = c.m /\ c.m # None /\ Code(c) # None
    BY <1>2, <1>3, <1>6, NoneApart
  <2> QED
    BY <1>3, <2>1, <2>2 DEF Good
<1>13. ASSUME NEW ch \in 1 .. 16, NEW hl \in {LOW, HIGH}, <<ch, hl>> # <<c.ch, c.hl>>
       PROVE  Good(ch, hl)'
  <2>1. Good(ch, hl)
    BY <1>13 DEF Setting
  <2>2. Din(ch) \in 1 .. 4 /\ get_control(ch, hl) \in 1 .. 15
    BY LevelIn
  <2>3. Din(ch) # x \/ get_control(ch, hl) # k
    BY <1>3, <1>4, <1>5, <1>13, OneLevel
  <2>4. level'[Din(ch)][get_control(ch, hl)] = level[Din(ch)][get_control(ch, hl)]
    BY <1>10, <1>11, <2>2, <2>3
  <2> QED
    BY <1>6, <2>1, <2>4, GoodSame
<1>14. AllGood'
  <2> SUFFICES ASSUME NEW ch \in 1 .. 16, NEW hl \in {LOW, HIGH} PROVE Good(ch, hl)'
    BY DEF AllGood
  <2>1. CASE ch = c.ch /\ hl = c.hl
    BY <1>12, <2>1
  <2>2. CASE ~(ch = c.ch /\ hl = c.hl)
    BY <1>13, <2>2
  <2> QED
    BY <2>1, <2>2
<1>15. ASSUME NEW y \in 1 .. 4, NEW j \in 1 .. 15
       PROVE  Taken(y, j)' = level'[y][j]
  BY <1>1, TakeFacts DEF Taken
<1> QED
  BY <1>14, <1>15 DEF Settled

LEMMA LevelsAccess ==
  ASSUME Typed, undisturbed => Solo, LevelsInv, NEW t \in Threads, access(t)
  PROVE  LevelsInv'
<1>1. undisturbed' = undisturbed /\ want' = want /\ asked' = asked /\ handle' = handle /\ (InRange' <=> InRange)
  BY AccessFacts DEF InRange
<1> SUFFICES ASSUME undisturbed, InRange PROVE AtRest' \/ AtWork'
  BY <1>1, Zenon DEF LevelsInv
<1>2. Solo
  OBVIOUS
<1>3. PICK s \in Seq(Access) : s = todo[t] /\ s # <<>> /\ s[1] \in Access /\ todo'[t] = Tail(s)
  BY AccessFacts
<1>4. \A u \in Threads : u # t => todo'[u] = todo[u] /\ todo[u] = <<>>
  BY <1>2, <1>3, AccessFacts DEF Solo
<1>5. CASE AtRest /\ ~handle
  <2>1. bar0' = bar0 /\ level' = level
    BY <1>5, AccessFacts
  <2>2. Settled'
    BY <1>1, <1>5, <2>1, SettledSame DEF AtRest
  <2> QED
    BY <1>1, <1>5, <2>2 DEF AtRest
<1>6. CASE AtRest /\ handle
  <2>1. Clean(s)
    BY <1>3, <1>6 DEF AtRest
  <2>2. Clean(Tail(s)) /\ (\A x \in 1 .. 4 : s[1].addr # DIN[x]) /\ s[1] # W(DIN_VLD, 1)
    BY <1>3, <2>1, CleanTail
  <2>3. level' = level
    BY <1>3, <2>2, AccessFacts
  <2>4. \A x \in 1 .. 4 : bar0'[DIN[x]] = bar0[DIN[x]]
    BY <1>3, <2>2, AccessFacts, DinAt
  <2>5. Settled'
    BY <1>1, <1>6, <2>3, <2>4, SettledSame DEF AtRest
  <2>6. \A u \in Threads : Clean(todo'[u])
    BY <1>3, <1>4, <1>6, <2>2 DEF AtRest
  <2> QED
    BY <2>5, <2>6 DEF AtRest, Clean
<1>7. CASE AtWork
  <2>1. PICK u \in Threads :
          /\ Strobe(todo[u])
          /\ (Settled /\ Len(todo[u]) = 2) \/ \E c \in asked : Setting(todo[u], c)
    BY <1>7 DEF AtWork
  <2>2. u = t
    <3>1. ~Strobe(<<>>)
      BY DEF Strobe
    <3> QED
      BY <1>4, <2>1, <3>1
  <2>3. handle /\ Strobe(todo[t])
    BY <1>7, <2>1, <2>2 DEF AtWork
  <2>4. CASE Len(todo[t]) = 2
    <3>1. /\ \A v \in Threads : Clean(todo'[v])
          /\ \A x \in 1 .. 4 : bar0'[DIN[x]] = bar0[DIN[x]]
          /\ \A x \in 1 .. 4 : \A k \in 1 .. 15 : level'[x][k] = Taken(x, k)
      BY <1>2, <2>3, <2>4, StrobeEnd
    <3>2. CASE Settled
      <4>1. \A x \in 1 .. 4 : \A k \in 1 .. 15 : level'[x][k] = level[x][k]
        BY <3>1, <3>2 DEF Settled
      <4>2. Settled'
        BY <1>1, <3>1, <3>2, <4>1, SettledSame
      <4> QED
        BY <3>1, <4>2 DEF AtRest, Clean
    <3>3. ASSUME NEW c \in asked, Setting(todo[t], c) PROVE AtRest'
      <4>1. Settled'
        BY <1>2, <2>3, <2>4, <3>3, StrobeSets
      <4> QED
        BY <3>1, <4>1 DEF AtRest, Clean
    <3> QED
      BY <2>1, <2>2, <3>2, <3>3
  <2>5. CASE Len(todo[t]) # 2
    <3>1. PICK c \in asked : Setting(todo[t], c)
      BY <2>1, <2>2, <2>5
    <3>2. Strobe(Tail(s)) /\ s[1].addr # DIN_VLD
      BY <1>3, <2>3, <2>5, StrobeTail
    <3>3. level' = level
      <4>1. s[1] # W(DIN_VLD, 1)
        BY <3>2, Written
      <4> QED
        BY <1>3, <4>1, AccessFacts
    <3>4. Strobe(todo[t])'
      BY <1>3, <3>2 DEF Strobe
    <3>5. c.ch \in 1 .. 16 /\ Din(c.ch) \in 1 .. 4
      BY <3>1, AskedFacts DEF Setting
    <3>6. ASSUME NEW x \in 1 .. 4, NEW v, WillBe(todo[t], DIN[x], v) PROVE WillBe(todo[t], DIN[x], v)'
      BY <2>3, <3>6, WillBeStep, DinAt
    <3>7. WillBe(todo[t], DIN[Din(c.ch)], Value(c))' /\ \A y \in 1 .. 4 : y # Din(c.ch) => WillBe(todo[t], DIN[y], 0)'
      BY <3>1, <3>5, <3>6 DEF Setting
    <3>8. \A ch \in 1 .. 16 : \A hl \in {LOW, HIGH} : <<ch, hl>> # <<c.ch, c.hl>> => Good(ch, hl)'
      BY <1>1, <3>1, <3>3, GoodSame DEF Setting
    <3>9. Setting(todo[t], c)'
      BY <1>1, <3>1, <3>7, <3>8 DEF Setting
    <3> QED
      BY <1>1, <2>3, <3>4, <3>9 DEF AtWork
  <2> QED
    BY <2>4, <2>5
<1> QED
  BY <1>5, <1>6, <1>7 DEF LevelsInv

LEMMA DiTargets ==
  ASSUME NEW ch \in 1 .. 16, NEW hl \in {LOW, HIGH}
  PROVE  <<"di", ch, hl>> \in Targets
<1>1. ch \in DIs
  BY DEF DIs
<1> QED
  BY <1>1, TheTargets

LEMMA LevelsIdle ==
  ASSUME LevelsInv, undisturbed, InRange, Idle
  PROVE  Settled
<1>1. ~Strobe(<<>>)
  BY DEF Strobe
<1>2. ~AtWork
  BY <1>1 DEF AtWork, Idle
<1> QED
  BY <1>2 DEF LevelsInv, AtRest

LEMMA LevelsClose ==
  ASSUME LevelsInv, device_close
  PROVE  LevelsInv'
<1>1. /\ undisturbed' = (undisturbed /\ Idle) /\ ~handle'
      /\ want' = want /\ asked' = asked /\ bar0' = bar0 /\ level' = level
  BY DEF device_close
<1>2. InRange' <=> InRange
  BY <1>1 DEF InRange
<1> SUFFICES ASSUME undisturbed, Idle, InRange PROVE AtRest'
  BY <1>1, <1>2, Zenon DEF LevelsInv
<1>3. Settled'
  BY <1>1, LevelsIdle, SettledSame
<1> QED
  BY <1>1, <1>3 DEF AtRest

LEMMA LevelsCall ==
  ASSUME Typed, LevelsInv, NEW t \in Threads, call(t)
  PROVE  LevelsInv'
<1>1. PICK c \in Calls :
        /\ todo'[t] = Accesses(c) /\ \A u \in Threads : u # t => todo'[u] = todo[u]
        /\ handle => want'[Target(c)] = Arg(c) /\ \A g \in Targets : g # Target(c) => want'[g] = want[g]
        /\ ~handle => want' = want
        /\ asked' = IF c.f = "di" THEN asked \union {c} ELSE asked
        /\ undisturbed' = (undisturbed /\ Idle)
        /\ bar0' = bar0 /\ level' = level /\ handle' = handle
  BY CallStep
<1>2. InRange' => InRange
  BY <1>1 DEF InRange
<1> SUFFICES ASSUME undisturbed, Idle, InRange PROVE AtRest' \/ AtWork'
  BY <1>1, <1>2, Zenon DEF LevelsInv
<1>3. Settled
  BY LevelsIdle
<1>4. ASSUME \A ch \in 1 .. 16 : \A hl \in {LOW, HIGH} : want'[<<"di", ch, hl>>] = want[<<"di", ch, hl>>]
      PROVE  Settled'
  BY <1>1, <1>3, <1>4, SettledSame
<1>5. \A ch \in 1 .. 16 : \A hl \in {LOW, HIGH} : <<"di", ch, hl>> \in Targets
  BY DiTargets
<1>6. CASE ~handle
  <2>1. Settled'
    BY <1>1, <1>4, <1>6
  <2> QED
    BY <1>1, <1>6, <2>1 DEF AtRest
<1>7. CASE handle /\ c.f # "di"
  <2>1. \A ch, hl : Target(c) # <<"di", ch, hl>>
    BY <1>7, TargetOf
  <2>2. Settled'
    BY <1>1, <1>4, <1>5, <1>7, <2>1
  <2>3. Clean(<<>>)
    BY DEF Clean
  <2>4. \A u \in Threads : Clean(todo'[u])
    BY <1>1, <1>7, <2>3, InputsLeft DEF Idle
  <2> QED
    BY <2>2, <2>4 DEF AtRest, Clean
<1>8. CASE handle /\ c.f = "di" /\ c.ch = 0
  <2>1. \A ch \in 1 .. 16 : \A hl : Target(c) # <<"di", ch, hl>>
    BY <1>8, TargetOf
  <2>2. Settled'
    BY <1>1, <1>4, <1>5, <1>8, <2>1
  <2>3. Accesses(c) = Call_DI_Config(c.ch, Value(c)) /\ c.ch \in DIs
    BY <1>8, CallDi DEF DIs
  <2>4. Strobe(Accesses(c)) /\ Len(Accesses(c)) = 2
    BY <1>8, <2>3, DiTyped
  <2>5. Strobe(todo[t])' /\ (Settled /\ Len(todo[t]) = 2)'
    BY <1>1, <2>2, <2>4 DEF Strobe
  <2> QED
    BY <1>1, <1>8, <2>5 DEF AtWork
<1>9. CASE handle /\ c.f = "di" /\ c.ch # 0
  <2>1. Accesses(c) = Call_DI_Config(c.ch, Value(c)) /\ c.ch \in 1 .. 16 /\ Value(c) \in Int /\ c.hl \in {LOW, HIGH}
    BY <1>9, CallDi
  <2>2. c.ch \in DIs
    BY <2>1 DEF DIs
  <2>3. /\ Strobe(Accesses(c)) /\ LastWrite(Accesses(c), DIN[Din(c.ch)], Value(c))
        /\ \A y \in 1 .. 4 : y # Din(c.ch) => LastWrite(Accesses(c), DIN[y], 0)
    BY <1>9, <2>1, <2>2, DiTyped
  <2>4. want'[<<"di", c.ch, c.hl>>] = c.m
    BY <1>1, <1>9, TargetOf
  <2>5. ASSUME NEW ch \in 1 .. 16, NEW hl \in {LOW, HIGH}, <<ch, hl>> # <<c.ch, c.hl>>
        PROVE  Good(ch, hl)'
    <3>1. Target(c) # <<"di", ch, hl>>
      BY <1>9, <2>5, TargetOf
    <3>2. want'[<<"di", ch, hl>>] = want[<<"di", ch, hl>>]
      BY <1>1, <1>5, <1>9, <3>1
    <3>3. Good(ch, hl)
      BY <1>3 DEF Settled, AllGood
    <3> QED
      BY <1>1, <3>2, <3>3, GoodSame
  <2>6. ASSUME NEW a, NEW v, LastWrite(Accesses(c), a, v) PROVE WillBe(todo[t], a, v)'
    BY <1>1, <2>6 DEF WillBe, LastWrite
  <2>7. Setting(todo[t], c)'
    BY <1>9, <2>3, <2>4, <2>5, <2>6 DEF Setting
  <2>8. Strobe(todo[t])' /\ c \in asked'
    BY <1>1, <1>9, <2>3 DEF Strobe
  <2> QED
    BY <1>1, <1>9, <2>7, <2>8 DEF AtWork
<1> QED
  BY <1>6, <1>7, <1>8, <1>9
-----------------------------------------------------------------------------
(* The invariant, and what it says when no call is under way.              *)
LEMMA InitInv == Init => RegsInv
<1> SUFFICES ASSUME Init PROVE RegsInv
  OBVIOUS
<1>1. /\ \A a \in Regs : bar0[a] = 0
      /\ \A x \in 1 .. 4 : \A k \in 1 .. 15 : level[x][k] = None
      /\ \A t \in Threads : todo[t] = <<>>
      /\ \A g \in Targets : want[g] = None
      /\ asked = {} /\ undisturbed = TRUE /\ handle = TRUE
  BY DEF Init
<1>2. Typed
  <2>1. level \in Levels
    BY DEF Init, Levels
  <2> QED
    BY <2>1 DEF Init, Typed
<1>3. Solo /\ Idle
  BY <1>1 DEF Solo, Idle
<1>4. \A a \in Regs : Comes(a, 0)
  BY <1>1, <1>3 DEF Comes
<1>5. OutputsInv
  <2>1. \A ch \in DOs : want[<<"do", ch, 0>>] = None
    BY <1>1, TheTargets
  <2>2. want[<<"volt", 0, 0>>] = None
    BY <1>1, TheTargets
  <2> QED
    BY <2>1, <2>2 DEF OutputsInv
<1>6. ScopeInv
  <2>1. want[<<"mode", 0, 0>>] = None /\ want[<<"sel", 0, 0>>] = None /\ want[<<"count", 0, 0>>] = None
    BY <1>1, TheTargets
  <2>2. Enabled = 0
    BY <2>1 DEF Enabled
  <2>3. EnableInv
    BY <1>4, <2>2, ScopeAddrs, SMT DEF EnableInv
  <2>4. ModeInv /\ SelInv /\ CountInv
    BY <2>1 DEF ModeInv, SelInv, CountInv
  <2>5. Comes(\h4000, 0) /\ Comes(DIN_VLD, 0)
    BY <1>4, ScopeAddrs, OtherAddrs, SMT
  <2> QED
    BY <2>3, <2>4, <2>5, SMT DEF ScopeInv
<1>7. \A x \in 1 .. 4 : bar0[DIN[x]] = 0
  BY <1>1, DinAt
<1>8. FromInv
  <2>1. RegsFrom
    BY <1>7 DEF RegsFrom, Sourced
  <2>2. TodoFrom
    BY <1>1 DEF TodoFrom
  <2>3. LevelsFrom
    BY <1>1 DEF LevelsFrom
  <2> QED
    BY <2>1, <2>2, <2>3 DEF FromInv
<1>9. LevelsInv
  <2>1. AllGood
    <3>1. ASSUME NEW ch \in 1 .. 16, NEW hl \in {LOW, HIGH} PROVE Good(ch, hl)
      <4>1. want[<<"di", ch, hl>>] = None
        BY <1>1, DiTargets
      <4>2. LevelOf(ch, hl) = None
        BY <1>1, LevelIn DEF LevelOf
      <4> QED
        BY <4>1, <4>2 DEF Good
    <3> QED
      BY <3>1 DEF AllGood
  <2>2. \A x \in 1 .. 4 : \A k \in 1 .. 15 : Taken(x, k) = level[x][k]
    BY <1>7, TakeFacts DEF Taken
  <2>3. \A t \in Threads : Clean(todo[t])
    BY <1>1 DEF Clean
  <2> QED
    BY <2>1, <2>2, <2>3 DEF LevelsInv, AtRest, Settled
<1> QED
  BY <1>2, <1>3, <1>5, <1>6, <1>8, <1>9 DEF RegsInv

LEMMA StepInv == RegsInv /\ [Next]_vars => RegsInv'
<1> SUFFICES ASSUME RegsInv, [Next]_vars PROVE RegsInv'
  OBVIOUS
<1>1. /\ Typed /\ (undisturbed => Solo)
      /\ OutputsInv /\ ScopeInv /\ FromInv /\ LevelsInv
  BY DEF RegsInv
<1>2. ASSUME NEW t \in Threads, call(t) PROVE RegsInv'
  <2>1. Typed' /\ (undisturbed' => Solo')
    BY <1>1, <1>2, TypedCall, SoloStep DEF Next
  <2>2. OutputsInv' /\ ScopeInv' /\ FromInv' /\ LevelsInv'
    BY <1>1, <1>2, OutputsCall, ScopeCall, FromCall, LevelsCall
  <2> QED
    BY <2>1, <2>2 DEF RegsInv
<1>3. ASSUME NEW t \in Threads, access(t) PROVE RegsInv'
  <2>1. Typed' /\ (undisturbed' => Solo')
    BY <1>1, <1>3, TypedAccess, SoloStep DEF Next
  <2>2. OutputsInv' /\ ScopeInv' /\ FromInv' /\ LevelsInv'
    BY <1>1, <1>3, OutputsAccess, ScopeAccess, FromAccess, LevelsAccess
  <2> QED
    BY <2>1, <2>2 DEF RegsInv
<1>4. CASE device_close
  <2>1. Typed' /\ (undisturbed' => Solo')
    BY <1>1, <1>4, TypedClose, SoloStep DEF Next
  <2>2. OutputsInv' /\ ScopeInv' /\ FromInv' /\ LevelsInv'
    BY <1>1, <1>4, OutputsClose, ScopeClose, FromClose, LevelsClose
  <2> QED
    BY <2>1, <2>2 DEF RegsInv
<1>5. CASE UNCHANGED vars
  <2>1. Typed'
    BY <1>1, <1>5, Zenon DEF vars, Typed
  <2>2. undisturbed' => Solo'
    BY <1>1, <1>5, Zenon DEF vars, Solo
  <2>3. /\ bar0' = bar0 /\ level' = level /\ handle' = handle /\ todo' = todo /\ val' = val
        /\ want' = want /\ asked' = asked /\ undisturbed' = undisturbed
    BY <1>5 DEF vars
  <2>4. \A a, v : Comes(a, v)' <=> Comes(a, v)
    BY <2>3, Zenon DEF Comes, Idle, WillBe
  <2>5. OutputsInv'
    BY <1>1, <2>3, <2>4, Zenon DEF OutputsInv
  <2>6. FromInv'
    <3>1. (InRange' <=> InRange) /\ (RegsFrom' <=> RegsFrom) /\ (TodoFrom' <=> TodoFrom) /\ (LevelsFrom' <=> LevelsFrom)
      BY <2>3 DEF InRange, RegsFrom, TodoFrom, LevelsFrom, From, Sourced
    <3> QED
      BY <1>1, <3>1, Zenon DEF FromInv
  <2>7. \A ch, hl : Good(ch, hl)' <=> Good(ch, hl)
    BY <2>3 DEF Good, LevelOf
  <2>8. (Settled' <=> Settled) /\ (InRange' <=> InRange)
    <3>1. \A x, k : Taken(x, k)' = Taken(x, k)
      BY <2>3 DEF Taken
    <3>2. InRange' <=> InRange
      BY <2>3 DEF InRange
    <3>3. Settled' <=> Settled
      BY <2>3, <2>7, <3>1 DEF Settled, AllGood
    <3> QED
      BY <3>2, <3>3
  <2>9. \A s, c : Setting(s, c)' <=> Setting(s, c)
    <3>1. \A s, a, v : WillBe(s, a, v)' <=> WillBe(s, a, v)
      BY <2>3 DEF WillBe
    <3> QED
      BY <2>3, <2>7, <3>1 DEF Setting
  <2>10. (AtRest' <=> AtRest) /\ (AtWork' <=> AtWork)
    BY <2>3, <2>8, <2>9, Zenon DEF AtRest, AtWork
  <2>11. LevelsInv'
    BY <1>1, <2>3, <2>8, <2>10, Zenon DEF LevelsInv
  <2>12. (EnableInv' <=> EnableInv) /\ (ModeInv' <=> ModeInv) /\ (SelInv' <=> SelInv) /\ (CountInv' <=> CountInv)
    <3>1. Enabled' = Enabled
      BY <2>3 DEF Enabled
    <3>2. \A t, w : Clearing(t, w)' <=> Clearing(t, w)
      BY <2>3, SMT DEF Clearing
    <3>3. EnableInv' <=> EnableInv
      BY <2>3, <2>4, <3>1, <3>2, SMT DEF EnableInv
    <3>4. ModeInv' <=> ModeInv
      BY <2>3, <2>4, SMT DEF ModeInv
    <3>5. SelInv' <=> SelInv
      BY <2>3, <2>4, SMT DEF SelInv
    <3>6. CountInv' <=> CountInv
      BY <2>3, <2>4, SMT DEF CountInv
    <3> QED
      BY <3>3, <3>4, <3>5, <3>6
  <2>13. ScopeInv'
    BY <1>1, <2>3, <2>4, <2>12, SMT DEF ScopeInv
  <2> QED
    BY <2>1, <2>2, <2>5, <2>6, <2>11, <2>13 DEF RegsInv
<1> QED
  BY <1>2, <1>3, <1>4, <1>5 DEF Next

LEMMA InvHolds == Spec => []RegsInv
  BY InitInv, StepInv, PTL DEF Spec

LEMMA OutputsFromInv == RegsInv => OutputsAsAsked
<1> SUFFICES ASSUME RegsInv, undisturbed, Idle
             PROVE  /\ \A ch \in DOs \intersect 1 .. 16 :
                         LET v == want[<<"do", ch, 0>>]
                         IN v # None => bar0[DO_En(ch)] = v[1] /\ bar0[DO_Ref(ch)] = v[2]
                    /\ want[<<"volt", 0, 0>>] # None => bar0[F_VOLT_SEC_REF] = want[<<"volt", 0, 0>>]
  BY Zenon DEF OutputsAsAsked
<1>1. ASSUME NEW ch \in DOs \intersect 1 .. 16, NEW v, v = want[<<"do", ch, 0>>], v # None
      PROVE  bar0[DO_En(ch)] = v[1] /\ bar0[DO_Ref(ch)] = v[2]
  <2>1. Comes(DO_En(ch), v[1]) /\ Comes(DO_Ref(ch), v[2])
    BY <1>1 DEF RegsInv, OutputsInv
  <2> QED
    BY <2>1, ComesIdle
<1>2. ASSUME NEW v, v = want[<<"volt", 0, 0>>], v # None
      PROVE  bar0[F_VOLT_SEC_REF] = v
  <2>1. Comes(F_VOLT_SEC_REF, v)
    BY <1>2 DEF RegsInv, OutputsInv
  <2> QED
    BY <2>1, ComesIdle
<1> QED
  BY <1>1, <1>2

(* The bytes of a packed word.                                             *)
Byte(w, d) == (w \div d) % 256

IsByte(p) == p \in 0 .. 255
Unpacks(w, p, q, r, u) == Byte(w, 1) = p /\ Byte(w, 256) = q /\ Byte(w, 65536) = r /\ Byte(w, 16777216) = u

LEMMA UnpackWord ==
  ASSUME NEW p, NEW q, NEW r, NEW u, IsByte(p), IsByte(q), IsByte(r), IsByte(u)
  PROVE  Unpacks(Word(p, q, r, u), p, q, r, u)
<1>1. p \in 0 .. 255 /\ q \in 0 .. 255 /\ r \in 0 .. 255 /\ u \in 0 .. 255
  BY SMT DEF IsByte
<1>2. PICK w \in Int : w = p + 256 * q + 65536 * r + 16777216 * u
  BY <1>1, SMT
<1>3. (w \div 1) % 256 = p
  BY <1>1, <1>2, SMT
<1>4. (w \div 256) % 256 = q
  <2>1. w \div 256 = q + 256 * r + 65536 * u
    BY <1>1, <1>2, SMT
  <2>2. (q + 256 * r + 65536 * u) % 256 = q
    BY <1>1, SMT
  <2> QED
    BY <2>1, <2>2, SMT
<1>5. (w \div 65536) % 256 = r
  <2>1. w \div 65536 = r + 256 * u
    BY <1>1, <1>2, SMT
  <2>2. (r + 256 * u) % 256 = r
    BY <1>1, SMT
  <2> QED
    BY <2>1, <2>2, SMT
<1>6. (w \div 16777216) % 256 = u
  <2>1. w \div 16777216 = u
    BY <1>1, <1>2, SMT
  <2>2. u % 256 = u
    BY <1>1, SMT
  <2> QED
    BY <2>1, <2>2, SMT
<1>7. Unpacks(w, p, q, r, u)
  BY <1>3, <1>4, <1>5, <1>6, SMT DEF Unpacks, Byte
<1>8. w = Word(p, q, r, u)
  BY <1>2, SMT DEF Word
<1> QED
  BY ONLY <1>7, <1>8

LEMMA Unpacked ==
  ASSUME NEW v \in Selections, bar0[\h0] = Packed(v, 0), bar0[\h8] = Packed(v, 4)
  PROVE  \A k \in 0 .. 7 : SelByte(k) = v[k + 1]
<1>1. PICK p, q \in Int : p = bar0[\h0] /\ q = bar0[\h8]
  BY PackedInt, SMT
<1>2. /\ SelByte(0) = Byte(p, 1) /\ SelByte(1) = Byte(p, 256) /\ SelByte(2) = Byte(p, 65536) /\ SelByte(3) = Byte(p, 16777216)
      /\ SelByte(4) = Byte(q, 1) /\ SelByte(5) = Byte(q, 256) /\ SelByte(6) = Byte(q, 65536) /\ SelByte(7) = Byte(q, 16777216)
  BY <1>1, SMT DEF SelByte, Byte
<1>3. p = Word(v[1], v[2], v[3], v[4]) /\ q = Word(v[5], v[6], v[7], v[8])
  BY <1>1, SMT DEF Packed, Word
<1>4. /\ IsByte(v[1]) /\ IsByte(v[2]) /\ IsByte(v[3]) /\ IsByte(v[4])
      /\ IsByte(v[5]) /\ IsByte(v[6]) /\ IsByte(v[7]) /\ IsByte(v[8])
  BY Bytes, SMT DEF IsByte
<1>5. Unpacks(p, v[1], v[2], v[3], v[4]) /\ Unpacks(q, v[5], v[6], v[7], v[8])
  BY ONLY <1>3, <1>4, UnpackWord
<1>6. /\ SelByte(0) = v[1] /\ SelByte(1) = v[2] /\ SelByte(2) = v[3] /\ SelByte(3) = v[4]
      /\ SelByte(4) = v[5] /\ SelByte(5) = v[6] /\ SelByte(6) = v[7] /\ SelByte(7) = v[8]
  BY ONLY <1>2, <1>5, SMT DEF Unpacks
<1> SUFFICES ASSUME NEW k \in 0 .. 7 PROVE SelByte(k) = v[k + 1]
  OBVIOUS
<1>7. k = 0 \/ k = 1 \/ k = 2 \/ k = 3 \/ k = 4 \/ k = 5 \/ k = 6 \/ k = 7
  OBVIOUS
<1> QED
  BY ONLY <1>6, <1>7

LEMMA ScopeFromInv == RegsInv => ScopeAsAsked
<1> SUFFICES ASSUME RegsInv, undisturbed, Idle PROVE ScopeAsAsked
  BY SMT DEF ScopeAsAsked
<1>1. EnableInv /\ ModeInv /\ SelInv /\ CountInv /\ Comes(\h4000, 0) /\ Comes(DIN_VLD, 0)
  BY SMT DEF RegsInv, ScopeInv
<1>2. bar0[\h2008] = Enabled
  BY <1>1, EnableIdle, ComesIdle, SMT
<1>3. want[<<"mode", 0, 0>>] # None => bar0[\h2000] = ModeValue(want[<<"mode", 0, 0>>])
  BY <1>1, ComesIdle, SMT DEF ModeInv
<1>4. want[<<"sel", 0, 0>>] # None => \A k \in 0 .. 7 : SelByte(k) = want[<<"sel", 0, 0>>][k + 1]
  <2> SUFFICES ASSUME NEW v, v = want[<<"sel", 0, 0>>], v # None
               PROVE  \A k \in 0 .. 7 : SelByte(k) = v[k + 1]
    OBVIOUS
  <2>1. v \in Selections /\ Comes(\h0, Packed(v, 0)) /\ Comes(\h8, Packed(v, 4))
    BY <1>1, SMT DEF SelInv
  <2>2. bar0[\h0] = Packed(v, 0) /\ bar0[\h8] = Packed(v, 4)
    BY <2>1, ComesIdle, SMT
  <2> QED
    BY <2>1, <2>2, Unpacked
<1>5. want[<<"count", 0, 0>>] # None => bar0[\h1008] = want[<<"count", 0, 0>>]
  BY <1>1, ComesIdle, SMT DEF CountInv
<1>6. bar0[\h4000] = 0 /\ bar0[DIN_VLD] = 0
  BY <1>1, ComesIdle, SMT
<1> QED
  BY <1>2, <1>3, <1>4, <1>5, <1>6, SMT DEF ScopeAsAsked, Enabled

LEMMA InputNames == DIs \ {0} = 1 .. 16
  BY DEF DIs

LEMMA LevelsFromInv == RegsInv => LevelsAsAsked
<1> SUFFICES ASSUME RegsInv, undisturbed, InRange, Idle,
                    NEW ch \in 1 .. 16, NEW hl \in {LOW, HIGH}
             PROVE  LET m == want[<<"di", ch, hl>>]
                    IN IF m = None THEN LevelOf(ch, hl) = None
                       ELSE LevelOf(ch, hl) # None /\ Within(LevelOf(ch, hl), m)
  BY InputNames, Zenon DEF LevelsAsAsked
<1>1. Settled
  BY LevelsIdle DEF RegsInv
<1> QED
  BY <1>1 DEF Settled, AllGood, Good

LEMMA CallsFromInv == RegsInv => LevelsFromCalls
<1> SUFFICES ASSUME RegsInv, InRange, NEW ch \in 1 .. 16, NEW hl \in {LOW, HIGH}, LevelOf(ch, hl) # None
             PROVE  \E c \in asked : c.ch = ch /\ c.hl = hl /\ Within(LevelOf(ch, hl), c.m)
  BY InputNames, Zenon DEF LevelsFromCalls
<1>1. Din(ch) \in 1 .. 4 /\ get_control(ch, hl) \in 1 .. 15
  BY LevelIn
<1>2. From(Din(ch), get_control(ch, hl), LevelOf(ch, hl))
  BY <1>1 DEF RegsInv, FromInv, LevelsFrom, LevelOf
<1>3. PICK c \in asked : /\ c.ch # 0 /\ Din(c.ch) = Din(ch) /\ get_control(c.ch, c.hl) = get_control(ch, hl)
                         /\ LevelOf(ch, hl) = Code(c)
  BY <1>2 DEF From, On
<1>4. c.ch \in 1 .. 16 /\ c.hl \in {LOW, HIGH} /\ Within(Code(c), c.m)
  BY <1>3, AskedFacts DEF RegsInv
<1>5. c.ch = ch /\ c.hl = hl
  BY <1>3, <1>4, OneLevel
<1> QED
  BY <1>3, <1>4, <1>5
-----------------------------------------------------------------------------
(* After calls that did not overlap the enables and references of the      *)
(* digital outputs hold what handler_do_config() and                       *)
(* handler_f_voit_sec_ref() were asked for last: neither writes a register *)
(* of another channel, and no other call writes any of them.               *)
THEOREM OutputsTheorem == Spec => []OutputsAsAsked
  BY InvHolds, OutputsFromInv, PTL

(* After calls that did not overlap the oscilloscope is in the mode, with  *)
(* the channels and the count, that were asked for last: scope_select_ch() *)
(* packs the eight selections so that each is read back, clear_a_buff()    *)
(* restores the enable bit it read, and every strobe is back at zero.      *)
THEOREM ScopeTheorem == Spec => []ScopeAsAsked
  BY InvHolds, ScopeFromInv, PTL

(* After calls that did not overlap every threshold below 2.5 V is within  *)
(* one step of what handler_di_config() was asked for last, and those      *)
(* never asked for are untouched, although four channels share a converter *)
(* and all of them share the strobe.                                       *)
THEOREM LevelsTheorem == Spec => []LevelsAsAsked
  BY InvHolds, LevelsFromInv, PTL

(* Whatever overlaps, and whenever the handle goes, a converter only ever  *)
(* takes, for a level of a channel, a code that some call asked for that   *)
(* level of that channel.                                                  *)
THEOREM FromCallsTheorem == Spec => []LevelsFromCalls
  BY InvHolds, CallsFromInv, PTL
=============================================================================
