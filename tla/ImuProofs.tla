------------------------------- MODULE ImuProofs -------------------------------
(***************************************************************************)
(* Theorems about ImuDriver: every access meets its bank, no               *)
(* half-configured chip is polled, and a prompt I2C master leaves the      *)
(* magnetometer measuring, whatever fails on the bus and whatever state    *)
(* the chip was found in.                                                  *)
(***************************************************************************)
EXTENDS ImuDriver, SequenceTheorems, TLAPS

Registers ==
    {"REG_BANK_SEL", "WHO_AM_I", "PWR_MGMT_1", "PWR_MGMT_2", "GYRO_CONFIG_1",
     "ACCEL_CONFIG", "GYRO_SMPLRT_DIV", "ACCEL_SMPLRT_DIV_1", "ACCEL_SMPLRT_DIV_2",
     "USER_CTRL", "I2C_MST_CTRL", "ADDR", "REG", "DO", "CTRL", "ACCEL_XOUT_H",
     "EXT_SENS_DATA_00"}

Transactions == [do : {"select", "write", "read"}, bank : 0 .. 3, reg : Registers, val : Int]

(* Each access comes after a selection of its own bank, or after an access *)
(* to the same one.                                                        *)
Chained(s) == \A i \in 1 .. Len(s) - 1 :
                 s[i + 1].do # "select" => s[i + 1].bank = s[i].bank

Opened(s) == Len(s) > 0 /\ s[1].do = "select"

LEMMA ChainedConcat ==
    ASSUME NEW s \in Seq(Transactions), NEW t \in Seq(Transactions),
           Chained(s), Chained(t), Len(s) > 0,
           Len(t) > 0 /\ t[1].do # "select" => t[1].bank = s[Len(s)].bank
    PROVE  s \o t \in Seq(Transactions) /\ Chained(s \o t)
<1>1. /\ s \o t \in Seq(Transactions) /\ Len(s \o t) = Len(s) + Len(t)
      /\ Len(s) \in Nat /\ Len(t) \in Nat
  OBVIOUS
<1>2. \A i \in 1 .. Len(s) + Len(t) :
         (s \o t)[i] = IF i <= Len(s) THEN s[i] ELSE t[i - Len(s)]
  OBVIOUS
<1>3. ASSUME NEW i \in 1 .. Len(s) + Len(t) - 1, (s \o t)[i + 1].do # "select"
      PROVE  (s \o t)[i + 1].bank = (s \o t)[i].bank
  <2>1. CASE i + 1 <= Len(s)
    BY <1>1, <1>2, <1>3, <2>1 DEF Chained
  <2>2. CASE i = Len(s)
    <3>1. (s \o t)[i] = s[Len(s)] /\ (s \o t)[i + 1] = t[1] /\ Len(t) > 0
      BY <1>1, <1>2, <2>2
    <3> QED BY <1>3, <3>1
  <2>3. CASE i > Len(s)
    <3>1. (s \o t)[i] = t[i - Len(s)] /\ (s \o t)[i + 1] = t[(i - Len(s)) + 1]
      BY <1>1, <1>2, <2>3
    <3>2. i - Len(s) \in 1 .. Len(t) - 1
      BY <1>1, <2>3
    <3> QED BY <1>3, <3>1, <3>2 DEF Chained
  <2> QED BY <1>1, <2>1, <2>2, <2>3
<1> QED BY <1>1, <1>3 DEF Chained

(* The sequences the node goes through.                                    *)
LEMMA PollChained ==
    /\ Poll \in Seq(Transactions) /\ Opened(Poll) /\ Chained(Poll)
    /\ \A i \in 1 .. Len(Poll) : Poll[i].do = "write" => Poll[i].reg = "CTRL"
<1> DEFINE data == <<Select(0), Read(0, "ACCEL_XOUT_H")>>
<1>1. data \in Seq(Transactions) /\ PollMagnetometer \in Seq(Transactions)
  BY DEF Select, Write, Read, Transactions, Registers, PollMagnetometer, Standing
<1>2. Chained(data)
  BY DEF Select, Read, Chained
<1>3. Chained(PollMagnetometer) /\ PollMagnetometer[1].do = "select"
  BY DEF Select, Read, Write, Chained, PollMagnetometer
<1>4. CASE mag
  <2>1. Poll = data \o PollMagnetometer
    BY <1>4 DEF Poll
  <2>2. Len(data) > 0 /\ Len(PollMagnetometer) = 4
    BY DEF PollMagnetometer
  <2>3. Poll \in Seq(Transactions) /\ Chained(Poll)
    BY <1>1, <1>2, <1>3, <2>1, <2>2, ChainedConcat
  <2>4. /\ Len(Poll) = 6 /\ Poll[1] = Select(0) /\ Poll[2] = Read(0, "ACCEL_XOUT_H")
        /\ Poll[3] = Select(3) /\ Poll[4] = Write(3, "CTRL", Standing)
        /\ Poll[5] = Select(0) /\ Poll[6] = Read(0, "EXT_SENS_DATA_00")
    BY <2>1 DEF PollMagnetometer
  <2>5. \A i \in 1 .. 6 : Poll[i].do = "write" => Poll[i].reg = "CTRL"
    <3>1. /\ Poll[1].do = "select" /\ Poll[2].do = "read" /\ Poll[3].do = "select"
          /\ Poll[4].reg = "CTRL" /\ Poll[5].do = "select" /\ Poll[6].do = "read"
      BY <2>4 DEF Select, Read, Write
    <3> QED BY <3>1
  <2>6. Len(Poll) > 0 /\ Poll[1].do = "select"
    BY <2>4 DEF Select
  <2> QED BY <2>3, <2>4, <2>5, <2>6 DEF Opened
<1>5. CASE ~mag
  <2>1. Poll = data
    BY <1>1, <1>5 DEF Poll
  <2> QED BY <1>1, <1>2, <2>1 DEF Select, Read, Opened
<1> QED BY <1>4, <1>5

(* Concatenation, element by element.                                      *)
LEMMA Elements ==
    ASSUME NEW s \in Seq(Transactions), NEW t \in Seq(Transactions)
    PROVE  /\ Len(s \o t) = Len(s) + Len(t)
           /\ \A i \in 1 .. Len(s) : (s \o t)[i] = s[i]
           /\ \A i \in 1 .. Len(t) : (s \o t)[Len(s) + i] = t[i]
  OBVIOUS

Base ==
    <<Select(0), Read(0, "WHO_AM_I"), Select(0),
      Write(0, "PWR_MGMT_1", Whatever), Write(0, "PWR_MGMT_2", Whatever), Select(2),
      Write(2, "GYRO_CONFIG_1", Whatever), Write(2, "ACCEL_CONFIG", Whatever),
      Write(2, "GYRO_SMPLRT_DIV", Whatever), Write(2, "ACCEL_SMPLRT_DIV_1", Whatever),
      Write(2, "ACCEL_SMPLRT_DIV_2", Whatever)>>

MasterOn ==
    <<Select(0), Write(0, "USER_CTRL", Whatever), Select(3), Write(3, "I2C_MST_CTRL", Whatever)>>

Reading == <<Write(3, "ADDR", FromAk), Write(3, "REG", HXL), Write(3, "CTRL", Standing), Select(0)>>

LEMMA BaseFacts ==
    /\ Base \in Seq(Transactions) /\ Len(Base) = 11 /\ Chained(Base)
    /\ Base[1].do = "select"
<1>1. Base \in Seq(Transactions) /\ Len(Base) = 11
  BY DEF Base, Select, Write, Read, Transactions, Registers, Whatever
<1>2. /\ Base[1].do = "select" /\ Base[1].bank = 0 /\ Base[2].bank = 0
      /\ Base[3].bank = 0 /\ Base[4].bank = 0 /\ Base[5].bank = 0
      /\ Base[6].do = "select" /\ Base[6].bank = 2 /\ Base[7].bank = 2
      /\ Base[8].bank = 2 /\ Base[9].bank = 2 /\ Base[10].bank = 2 /\ Base[11].bank = 2
  BY DEF Base, Select, Write, Read
<1>3. \A i \in 1 .. 10 : Base[i + 1].do # "select" => Base[i + 1].bank = Base[i].bank
  <2> SUFFICES ASSUME NEW i \in 1 .. 10, Base[i + 1].do # "select"
               PROVE  Base[i + 1].bank = Base[i].bank
    OBVIOUS
  <2>1. CASE i \in 1 .. 5
    <3>1. i # 5
      BY <1>2
    <3> QED BY <1>2, <2>1, <3>1
  <2>2. CASE i \in 6 .. 10
    BY <1>2, <2>2
  <2> QED BY <2>1, <2>2
<1> QED BY <1>1, <1>2, <1>3 DEF Chained

LEMMA MasterFacts ==
    ASSUME NEW reg \in {CNTL2, CNTL3}, NEW val \in Int
    PROVE  /\ I2cMasterWrite(reg, val) \in Seq(Transactions)
           /\ Len(I2cMasterWrite(reg, val)) = 4 /\ Chained(I2cMasterWrite(reg, val))
           /\ I2cMasterWrite(reg, val)[1] = Write(3, "ADDR", ToAk)
           /\ I2cMasterWrite(reg, val)[2] = Write(3, "REG", reg)
           /\ I2cMasterWrite(reg, val)[3] = Write(3, "DO", val)
           /\ I2cMasterWrite(reg, val)[4] = Write(3, "CTRL", Once)
<1> DEFINE w == I2cMasterWrite(reg, val)
<1>1. /\ w \in Seq(Transactions) /\ Len(w) = 4
      /\ w[1] = Write(3, "ADDR", ToAk) /\ w[2] = Write(3, "REG", reg)
      /\ w[3] = Write(3, "DO", val) /\ w[4] = Write(3, "CTRL", Once)
  BY DEF I2cMasterWrite, Write, Transactions, Registers, ToAk, Once, CNTL2, CNTL3
<1> HIDE DEF w
<1>2. w[1].bank = 3 /\ w[2].bank = 3 /\ w[3].bank = 3 /\ w[4].bank = 3
  BY <1>1 DEF Write
<1>3. Chained(w)
  BY <1>1, <1>2 DEF Chained
<1> QED BY <1>1, <1>3 DEF w

LEMMA MagnetometerChained ==
    /\ ConfigureMagnetometer \in Seq(Transactions) /\ Len(ConfigureMagnetometer) = 16
    /\ Chained(ConfigureMagnetometer) /\ ConfigureMagnetometer[1].do = "select"
    /\ \A i \in 1 .. 4 :
         /\ ConfigureMagnetometer[8 + i] = I2cMasterWrite(CNTL2, Continuous)[i]
         /\ ConfigureMagnetometer[12 + i] = Reading[i]
<1> DEFINE r == I2cMasterWrite(CNTL3, SoftReset)
           w == I2cMasterWrite(CNTL2, Continuous)
           m == ConfigureMagnetometer
           a == MasterOn \o r
           b == a \o w
<1>1. m = b \o Reading
  BY DEF ConfigureMagnetometer, MasterOn, Reading
<1>2. /\ r \in Seq(Transactions) /\ Len(r) = 4 /\ Chained(r)
      /\ r[1] = Write(3, "ADDR", ToAk) /\ r[4] = Write(3, "CTRL", Once)
  BY MasterFacts DEF SoftReset
<1>3. /\ w \in Seq(Transactions) /\ Len(w) = 4 /\ Chained(w)
      /\ w[1] = Write(3, "ADDR", ToAk) /\ w[4] = Write(3, "CTRL", Once)
  BY MasterFacts DEF Continuous
<1>4. /\ MasterOn \in Seq(Transactions) /\ Len(MasterOn) = 4
      /\ MasterOn[1].do = "select" /\ MasterOn[1].bank = 0 /\ MasterOn[2].bank = 0
      /\ MasterOn[3].do = "select" /\ MasterOn[3].bank = 3 /\ MasterOn[4].bank = 3
  BY DEF MasterOn, Select, Write, Transactions, Registers, Whatever
<1>5. /\ Reading \in Seq(Transactions) /\ Len(Reading) = 4
      /\ Reading[1].bank = 3 /\ Reading[2].bank = 3 /\ Reading[3].bank = 3
      /\ Reading[4].do = "select"
  BY DEF Reading, Select, Write, Transactions, Registers, FromAk, HXL, Standing
<1>6. Chained(MasterOn) /\ Chained(Reading)
  BY <1>4, <1>5 DEF Chained
<1>7. r[1].bank = 3 /\ r[4].bank = 3 /\ w[1].bank = 3 /\ w[4].bank = 3
  BY <1>2, <1>3 DEF Write
<1> HIDE DEF r, w, m, a, b
<1>8. /\ a \in Seq(Transactions) /\ Len(a) = 8 /\ Chained(a) /\ a[1] = MasterOn[1]
      /\ a[8] = r[4]
  <2>1. r[1].bank = MasterOn[Len(MasterOn)].bank
    BY <1>4, <1>7
  <2>2. Len(MasterOn) > 0
    BY <1>4
  <2>3. a \in Seq(Transactions) /\ Chained(a)
    BY <1>2, <1>4, <1>6, <2>1, <2>2, ChainedConcat DEF a
  <2>4. /\ Len(a) = 4 + 4 /\ \A i \in 1 .. 4 : a[i] = MasterOn[i]
        /\ \A i \in 1 .. 4 : a[4 + i] = r[i]
    <3>1. /\ r \in Seq(Transactions) /\ Len(r) = 4
          /\ MasterOn \in Seq(Transactions) /\ Len(MasterOn) = 4
      BY <1>2, <1>4
    <3>2. /\ Len(MasterOn \o r) = Len(MasterOn) + Len(r)
          /\ \A i \in 1 .. Len(MasterOn) : (MasterOn \o r)[i] = MasterOn[i]
          /\ \A i \in 1 .. Len(r) : (MasterOn \o r)[Len(MasterOn) + i] = r[i]
      BY <3>1, Elements
    <3> QED BY <3>1, <3>2 DEF a
  <2>5. a[1] = MasterOn[1] /\ a[4 + 4] = r[4]
    BY <2>4
  <2> QED BY <2>3, <2>4, <2>5
<1>9. /\ b \in Seq(Transactions) /\ Len(b) = 12 /\ Chained(b) /\ b[1] = MasterOn[1]
      /\ b[12] = w[4] /\ \A i \in 1 .. 4 : b[8 + i] = w[i]
  <2>1. w[1].bank = a[Len(a)].bank
    BY <1>7, <1>8
  <2>2. Len(a) > 0
    BY <1>8
  <2>3. b \in Seq(Transactions) /\ Chained(b)
    BY <1>3, <1>8, <2>1, <2>2, ChainedConcat DEF b
  <2>4. /\ Len(b) = 8 + 4 /\ \A i \in 1 .. 8 : b[i] = a[i]
        /\ \A i \in 1 .. 4 : b[8 + i] = w[i]
    <3>1. a \in Seq(Transactions) /\ Len(a) = 8 /\ w \in Seq(Transactions) /\ Len(w) = 4
      BY <1>3, <1>8
    <3>2. /\ Len(a \o w) = Len(a) + Len(w)
          /\ \A i \in 1 .. Len(a) : (a \o w)[i] = a[i]
          /\ \A i \in 1 .. Len(w) : (a \o w)[Len(a) + i] = w[i]
      BY <3>1, Elements
    <3> QED BY <3>1, <3>2 DEF b
  <2>5. b[1] = a[1] /\ b[8 + 4] = w[4]
    BY <2>4
  <2> QED BY <1>8, <2>3, <2>4, <2>5
<1>10. /\ m \in Seq(Transactions) /\ Len(m) = 16 /\ Chained(m) /\ m[1] = MasterOn[1]
       /\ \A i \in 1 .. 4 : m[8 + i] = w[i] /\ m[12 + i] = Reading[i]
  <2>1. Reading[1].bank = b[Len(b)].bank
    BY <1>5, <1>7, <1>9
  <2>2. Len(b) > 0
    BY <1>9
  <2>3. m \in Seq(Transactions) /\ Chained(m)
    BY <1>1, <1>5, <1>6, <1>9, <2>1, <2>2, ChainedConcat
  <2>4. /\ Len(m) = 12 + 4 /\ \A i \in 1 .. 12 : m[i] = b[i]
        /\ \A i \in 1 .. 4 : m[12 + i] = Reading[i]
    <3>1. /\ b \in Seq(Transactions) /\ Len(b) = 12
          /\ Reading \in Seq(Transactions) /\ Len(Reading) = 4
      BY <1>5, <1>9
    <3>2. /\ Len(b \o Reading) = Len(b) + Len(Reading)
          /\ \A i \in 1 .. Len(b) : (b \o Reading)[i] = b[i]
          /\ \A i \in 1 .. Len(Reading) : (b \o Reading)[Len(b) + i] = Reading[i]
      BY <3>1, Elements
    <3> QED BY <1>1, <3>1, <3>2
  <2>5. \A i \in 1 .. 4 : m[8 + i] = b[8 + i]
    BY <2>4
  <2>6. m[1] = b[1]
    BY <2>4
  <2> QED BY <1>9, <2>3, <2>4, <2>5, <2>6
<1> QED BY <1>4, <1>10 DEF m, w

LEMMA ChipChained ==
    /\ ConfigureChip \in Seq(Transactions) /\ Opened(ConfigureChip) /\ Chained(ConfigureChip)
    /\ mag => /\ Len(ConfigureChip) = 28 /\ ConfigureChip[28] = Select(0)
              /\ \A i \in 1 .. 4 :
                   /\ ConfigureChip[19 + i] = I2cMasterWrite(CNTL2, Continuous)[i]
                   /\ ConfigureChip[23 + i] = Reading[i]
<1> DEFINE end == <<Select(0)>>
           m == ConfigureMagnetometer
           cc == ConfigureChip
           a == Base \o m
<1>1. /\ end \in Seq(Transactions) /\ Len(end) = 1 /\ end[1] = Select(0)
      /\ end[1].do = "select" /\ Chained(end)
  BY DEF Select, Transactions, Registers, Chained
<1>2. /\ m \in Seq(Transactions) /\ Len(m) = 16 /\ Chained(m) /\ m[1].do = "select"
      /\ \A i \in 1 .. 4 : /\ m[8 + i] = I2cMasterWrite(CNTL2, Continuous)[i]
                          /\ m[12 + i] = Reading[i]
  BY MagnetometerChained
<1>3. mag => cc = a \o end
  BY DEF ConfigureChip, Base
<1>4. ~mag => cc = (Base \o <<>>) \o end
  BY DEF ConfigureChip, Base
<1> HIDE DEF end, m, cc, a
<1>5. Len(Base) > 0
  BY BaseFacts
<1>6. ASSUME mag
      PROVE  /\ cc \in Seq(Transactions) /\ Chained(cc) /\ Len(cc) = 28 /\ cc[1] = Base[1]
             /\ cc[28] = Select(0)
             /\ \A i \in 1 .. 4 : /\ cc[19 + i] = I2cMasterWrite(CNTL2, Continuous)[i]
                                 /\ cc[23 + i] = Reading[i]
  <2>1. a \in Seq(Transactions) /\ Chained(a)
    BY <1>2, <1>5, BaseFacts, ChainedConcat DEF a
  <2>2. /\ Len(a) = 11 + 16 /\ \A i \in 1 .. 11 : a[i] = Base[i]
        /\ \A i \in 1 .. 16 : a[11 + i] = m[i]
    <3>1. /\ m \in Seq(Transactions) /\ Len(m) = 16
          /\ Base \in Seq(Transactions) /\ Len(Base) = 11
      BY <1>2, BaseFacts
    <3>2. /\ Len(Base \o m) = Len(Base) + Len(m)
          /\ \A i \in 1 .. Len(Base) : (Base \o m)[i] = Base[i]
          /\ \A i \in 1 .. Len(m) : (Base \o m)[Len(Base) + i] = m[i]
      BY <3>1, Elements
    <3> QED BY <3>1, <3>2 DEF a
  <2>3. Len(a) = 27 /\ Len(a) > 0
    BY <2>2
  <2>4. cc \in Seq(Transactions) /\ Chained(cc)
    BY <1>1, <1>3, <1>6, <2>1, <2>3, ChainedConcat
  <2>5. /\ Len(cc) = 27 + 1 /\ \A i \in 1 .. 27 : cc[i] = a[i]
        /\ \A i \in 1 .. 1 : cc[27 + i] = end[i]
    <3>1. /\ a \in Seq(Transactions) /\ Len(a) = 27 /\ cc = a \o end
          /\ end \in Seq(Transactions) /\ Len(end) = 1
      BY <1>1, <1>3, <1>6, <2>1, <2>3
    <3>2. /\ Len(a \o end) = Len(a) + Len(end)
          /\ \A i \in 1 .. Len(a) : (a \o end)[i] = a[i]
          /\ \A i \in 1 .. Len(end) : (a \o end)[Len(a) + i] = end[i]
      BY <3>1, Elements
    <3> QED BY <3>1, <3>2
  <2>6. cc[1] = Base[1] /\ cc[27 + 1] = Select(0)
    <3>1. cc[1] = a[1] /\ a[1] = Base[1]
      BY <2>2, <2>5
    <3> QED BY <1>1, <2>5, <3>1
  <2>7. ASSUME NEW i \in 1 .. 4
        PROVE  /\ cc[19 + i] = I2cMasterWrite(CNTL2, Continuous)[i]
               /\ cc[23 + i] = Reading[i]
    <3>1. a[11 + (8 + i)] = m[8 + i] /\ a[11 + (12 + i)] = m[12 + i]
      BY <2>2
    <3>2. cc[19 + i] = a[19 + i] /\ cc[23 + i] = a[23 + i]
      BY <2>5
    <3>3. 11 + (8 + i) = 19 + i /\ 11 + (12 + i) = 23 + i
      OBVIOUS
    <3> QED BY <1>2, <3>1, <3>2, <3>3
  <2> QED BY <2>4, <2>5, <2>6, <2>7
<1>7. ASSUME ~mag
      PROVE  cc \in Seq(Transactions) /\ Chained(cc) /\ Len(cc) > 0 /\ cc[1] = Base[1]
  <2>1. Base \o <<>> = Base
    BY BaseFacts
  <2>2. cc = Base \o end
    BY <1>4, <1>7, <2>1
  <2>3. cc \in Seq(Transactions) /\ Chained(cc)
    BY <1>1, <1>5, <2>2, BaseFacts, ChainedConcat
  <2>4. Len(cc) = 11 + 1 /\ \A i \in 1 .. 11 : cc[i] = Base[i]
    <3>1. /\ end \in Seq(Transactions) /\ Len(end) = 1
          /\ Base \in Seq(Transactions) /\ Len(Base) = 11
      BY <1>1, BaseFacts
    <3>2. /\ Len(Base \o end) = Len(Base) + Len(end)
          /\ \A i \in 1 .. Len(Base) : (Base \o end)[i] = Base[i]
          /\ \A i \in 1 .. Len(end) : (Base \o end)[Len(Base) + i] = end[i]
      BY <3>1, Elements
    <3> QED BY <2>2, <3>1, <3>2
  <2> QED BY <2>3, <2>4
<1> QED BY <1>6, <1>7, BaseFacts DEF Opened, cc

-----------------------------------------------------------------------------
(* What is left of a sequence after its first transactions.                *)
Suffix(s, w) ==
    /\ s \in Seq(Transactions) /\ Len(s) <= Len(w)
    /\ \A i \in 1 .. Len(s) : s[i] = w[(Len(w) - Len(s)) + i]

Whole == IF stage = "setup" THEN ConfigureChip ELSE Poll
Made == Len(Whole) - Len(todo)
Set(t, regs) == t.do = "write" => <<t.bank, t.reg>> \in regs

ImuTypes ==
    /\ mag \in BOOLEAN /\ prompt \in BOOLEAN /\ waiting \in BOOLEAN /\ bank \in 0 .. 3
    /\ stage \in {"setup", "poll", "idle", "dead"}
    /\ slv0 \in [{"ADDR", "REG", "DO", "CTRL"} -> Int]

(* The node is somewhere in its sequence; once a transaction has been made *)
(* the chip is in the bank of the one before the next.                     *)
Progress ==
    /\ stage \in {"setup", "poll"} => Suffix(todo, Whole)
    /\ stage \in {"idle", "dead"} => todo = <<>>
    /\ Len(todo) > 0 /\ Made > 0 => bank = Whole[Made].bank

(* What the constructor has gone through is written.                       *)
SetSoFar ==
    /\ stage = "setup" => \A i \in 1 .. Made : Set(ConfigureChip[i], written)
    /\ stage \in {"idle", "poll"} => \A i \in 1 .. Len(ConfigureChip) : Set(ConfigureChip[i], written)

(* How the transfer that selects continuous measurement comes about, while *)
(* the master makes whatever transfer SLV0 describes at the moment.        *)
MasterSteered ==
    /\ stage = "setup" =>
          /\ Made \in 20 .. 23 => slv0["ADDR"] = ToAk
          /\ Made \in 21 .. 23 => slv0["REG"] = CNTL2
          /\ Made \in 22 .. 23 => slv0["DO"] = Continuous
          /\ Made = 23 => waiting \/ mode = Continuous
          /\ Made >= 24 => slv0["ADDR"] = FromAk /\ mode = Continuous
    /\ stage \in {"idle", "poll"} => slv0["ADDR"] = FromAk /\ mode = Continuous

IInv == ImuTypes /\ Progress /\ RightBank /\ SetSoFar /\ (mag /\ prompt => MasterSteered)

LEMMA SuffixHead ==
    ASSUME NEW w \in Seq(Transactions), Chained(w), Opened(w),
           NEW s, Suffix(s, w), s # <<>>
    PROVE  LET k == Len(w) - Len(s) IN
           /\ k \in Nat /\ Len(s) \in Nat \ {0} /\ k + 1 \in 1 .. Len(w)
           /\ Head(s) = w[k + 1] /\ Head(s) \in Transactions
           /\ Head(s).do # "select" => k > 0 /\ Head(s).bank = w[k].bank
           /\ Suffix(Tail(s), w) /\ Len(Tail(s)) = Len(s) - 1
<1> DEFINE k == Len(w) - Len(s)
<1>1. /\ s \in Seq(Transactions) /\ Len(s) \in Nat /\ Len(w) \in Nat /\ Len(s) <= Len(w)
      /\ \A i \in 1 .. Len(s) : s[i] = w[k + i]
  BY DEF Suffix
<1>2. Len(s) > 0
  BY <1>1, EmptySeq
<1>3. /\ Head(s) = s[1] /\ s[1] \in Transactions /\ Tail(s) \in Seq(Transactions)
      /\ Len(Tail(s)) = Len(s) - 1 /\ \A i \in 1 .. Len(s) - 1 : Tail(s)[i] = s[i + 1]
  BY <1>1, <1>2
<1>4. k \in Nat /\ k + 1 \in 1 .. Len(w) /\ s[1] = w[k + 1]
  BY <1>1, <1>2
<1>5. ASSUME Head(s).do # "select"
      PROVE  k > 0 /\ Head(s).bank = w[k].bank
  <2>1. k # 0
    BY <1>3, <1>4, <1>5 DEF Opened
  <2>2. k \in 1 .. Len(w) - 1
    BY <1>4, <2>1
  <2> QED BY <1>3, <1>4, <1>5, <2>2 DEF Chained
<1>6. ASSUME NEW i \in 1 .. Len(Tail(s))
      PROVE  Tail(s)[i] = w[(Len(w) - Len(Tail(s))) + i]
  <2>1. i + 1 \in 1 .. Len(s) /\ Tail(s)[i] = s[i + 1]
    BY <1>1, <1>3
  <2>2. s[i + 1] = w[k + (i + 1)]
    BY <1>1, <2>1
  <2>3. k + (i + 1) = (Len(w) - Len(Tail(s))) + i
    BY <1>1, <1>3
  <2> QED BY <2>1, <2>2, <2>3
<1>7. Suffix(Tail(s), w)
  BY <1>1, <1>3, <1>6 DEF Suffix
<1> QED BY <1>1, <1>2, <1>3, <1>4, <1>5, <1>7

LEMMA WholeFacts ==
    Whole \in Seq(Transactions) /\ Opened(Whole) /\ Chained(Whole)
  BY PollChained, ChipChained DEF Whole

(* The next transaction, made, meets its bank and leaves its mark.         *)
LEMMA AccessMeets ==
    ASSUME ImuTypes, Progress, todo # <<>>, Access(Head(todo))
    PROVE  /\ bank' = Head(todo).bank /\ bank' \in 0 .. 3 /\ waiting' \in BOOLEAN
           /\ RightBank' /\ Set(Head(todo), written') /\ written \subseteq written'
           /\ slv0' \in [{"ADDR", "REG", "DO", "CTRL"} -> Int]
           /\ mode' = mode
<1> DEFINE t == Head(todo)
<1>1. stage \in {"setup", "poll"} /\ Suffix(todo, Whole)
  BY DEF ImuTypes, Progress
<1>2. /\ Made \in Nat /\ Len(todo) \in Nat \ {0} /\ t \in Transactions
      /\ t.do # "select" => Made > 0 /\ t.bank = Whole[Made].bank
  BY <1>1, WholeFacts, SuffixHead DEF Made
<1>3. t.do # "select" => bank = t.bank
  BY <1>2 DEF Progress
<1>4. t.bank \in 0 .. 3 /\ t.val \in Int
  BY <1>2 DEF Transactions
<1>0. Access(t)
  OBVIOUS
<1> HIDE DEF t
<1>5. /\ bank' = t.bank /\ last' = [at |-> bank', meant |-> t] /\ mode' = mode
      /\ written' = IF t.do = "write" THEN written \cup {<<bank, t.reg>>} ELSE written
      /\ slv0' = slv0 \/ slv0' = [slv0 EXCEPT ![t.reg] = t.val]
      /\ waiting' \in BOOLEAN
  <2>1. bank' = t.bank
    BY <1>0, <1>3 DEF Access
  <2>2. last' = [at |-> bank', meant |-> t] /\ mode' = mode
    BY <1>0 DEF Access
  <2>3. /\ written' = IF t.do = "write" THEN written \cup {<<bank, t.reg>>} ELSE written
        /\ slv0' = slv0 \/ slv0' = [slv0 EXCEPT ![t.reg] = t.val]
    BY <1>0 DEF Access
  <2>4. waiting' \in BOOLEAN
    BY <1>0 DEF Access, ImuTypes
  <2> QED BY <2>1, <2>2, <2>3, <2>4
<1>6. RightBank'
  BY <1>5 DEF RightBank
<1>7. Set(t, written') /\ written \subseteq written'
  BY <1>3, <1>5 DEF Set
<1>8. slv0' \in [{"ADDR", "REG", "DO", "CTRL"} -> Int]
  BY <1>4, <1>5 DEF ImuTypes
<1> QED BY <1>4, <1>5, <1>6, <1>7, <1>8 DEF t

LEMMA SameSequences ==
    ASSUME mag' = mag
    PROVE  ConfigureChip' = ConfigureChip /\ Poll' = Poll
  BY DEF ConfigureChip, Poll

LEMMA InitIInv == Init => IInv
<1> SUFFICES ASSUME Init PROVE IInv
  OBVIOUS
<1> USE DEF Init
<1>1. ImuTypes
  <2>1. slv0 \in [{"ADDR", "REG", "DO", "CTRL"} -> Int]
    BY DEF FromAk, HXL, Continuous, Standing, ToAk, CNTL3, SoftReset, Once, Off
  <2> QED BY <2>1 DEF ImuTypes
<1>2. /\ Whole = ConfigureChip /\ todo = Whole /\ Made = 0
      /\ Whole \in Seq(Transactions) /\ Opened(Whole)
  <2>1. Whole = ConfigureChip /\ todo = Whole
    BY DEF Whole
  <2>2. Len(Whole) \in Nat
    BY WholeFacts
  <2> QED BY <2>1, <2>2, WholeFacts DEF Made
<1>3. Progress
  <2>1. Suffix(todo, Whole)
    BY <1>2 DEF Suffix
  <2> QED BY <1>2, <2>1 DEF Progress
<1>4. RightBank
  BY DEF RightBank, Read
<1>5. SetSoFar
  BY <1>2 DEF SetSoFar
<1>6. MasterSteered
  BY <1>2 DEF MasterSteered
<1> QED BY <1>1, <1>3, <1>4, <1>5, <1>6 DEF IInv

(* What the other actions leave alone.                                     *)
LEMMA SameKept ==
    ASSUME ImuTypes, Progress, SetSoFar, UNCHANGED <<mag, todo, stage, bank, written>>
    PROVE  Progress' /\ SetSoFar' /\ Made' = Made
<1>1. Whole' = Whole /\ Made' = Made /\ ConfigureChip' = ConfigureChip
  BY SameSequences DEF Whole, Made
<1>2. Progress'
  BY <1>1 DEF Progress
<1>3. SetSoFar'
  BY <1>1 DEF SetSoFar
<1> QED BY <1>1, <1>2, <1>3

(* A write for bank 3 lands in SLV0.                                       *)
LEMMA Lands ==
    ASSUME ImuTypes, NEW t, Access(t), t.do = "write", bank' = 3,
           t.reg \in {"ADDR", "REG", "DO", "CTRL"}
    PROVE  slv0' = [slv0 EXCEPT ![t.reg] = t.val] /\ waiting' = (t.reg = "CTRL")
<1>1. bank = 3 /\ t.reg \in DOMAIN slv0
  BY DEF Access, ImuTypes
<1> QED BY <1>1 DEF Access

LEMMA PollKeepsAddress ==
    ASSUME ImuTypes, Progress, stage = "poll", todo # <<>>, Access(Head(todo))
    PROVE  slv0'["ADDR"] = slv0["ADDR"]
<1> DEFINE t == Head(todo)
<1>1. Suffix(todo, Poll) /\ Whole = Poll
  BY DEF Progress, Whole
<1>2. \E i \in 1 .. Len(Poll) : t = Poll[i]
  <2>1. LET k == Len(Poll) - Len(todo) IN k + 1 \in 1 .. Len(Poll) /\ t = Poll[k + 1]
    BY <1>1, PollChained, SuffixHead
  <2> QED BY <2>1
<1>3. t.do = "write" => t.reg = "CTRL"
  BY <1>2, PollChained
<1>4. Access(t)
  OBVIOUS
<1> HIDE DEF t
<1>5. slv0' = slv0 \/ slv0' = [slv0 EXCEPT !["CTRL"] = t.val]
  BY <1>3, <1>4 DEF Access
<1> QED BY <1>5 DEF ImuTypes

LEMMA MasterRunsIInv == IInv /\ MasterRuns => IInv'
<1> SUFFICES ASSUME IInv, MasterRuns PROVE IInv'
  OBVIOUS
<1>1. ImuTypes /\ Progress /\ RightBank /\ SetSoFar /\ (mag /\ prompt => MasterSteered)
  BY DEF IInv
<1>2. /\ UNCHANGED <<mag, prompt, todo, stage, bank, written, slv0, last>>
      /\ waiting' = FALSE
      /\ mode' = mode \/ mode' = PowerDown \/ (slv0["REG"] = CNTL2 /\ mode' = slv0["DO"])
      /\ mode' # mode => slv0["ADDR"] = ToAk
      /\ slv0["ADDR"] = ToAk /\ slv0["REG"] = CNTL2 => mode' = slv0["DO"]
  BY DEF MasterRuns, CNTL2, CNTL3
<1>3. Progress' /\ SetSoFar' /\ Made' = Made
  BY <1>1, <1>2, SameKept
<1>4. ImuTypes' /\ RightBank'
  BY <1>1, <1>2 DEF ImuTypes, RightBank
<1>5. ASSUME mag, prompt PROVE MasterSteered'
  <2>1. MasterSteered
    BY <1>1, <1>5
  <2>2. ASSUME stage = "setup", Made = 23 PROVE mode' = Continuous
    <3>1. slv0["ADDR"] = ToAk /\ slv0["REG"] = CNTL2 /\ slv0["DO"] = Continuous
      BY <2>1, <2>2 DEF MasterSteered
    <3> QED BY <1>2, <3>1
  <2>3. slv0["ADDR"] = FromAk => mode' = mode
    BY <1>2 DEF FromAk, ToAk
  <2> QED BY <1>2, <1>3, <2>1, <2>2, <2>3 DEF MasterSteered
<1> QED BY <1>1, <1>2, <1>3, <1>4, <1>5 DEF IInv

LEMMA StartPollIInv == IInv /\ StartPoll => IInv'
<1> SUFFICES ASSUME IInv, StartPoll PROVE IInv'
  OBVIOUS
<1>1. ImuTypes /\ Progress /\ RightBank /\ SetSoFar /\ (mag /\ prompt => MasterSteered)
  BY DEF IInv
<1>2. /\ stage = "idle" /\ stage' = "poll" /\ todo' = Poll
      /\ UNCHANGED <<mag, prompt, bank, written, slv0, waiting, mode, last>>
  BY DEF StartPoll, chip
<1>3. Whole' = Poll /\ ConfigureChip' = ConfigureChip
  BY <1>2, SameSequences DEF Whole
<1>4. Len(Poll) \in Nat /\ Made' = 0
  BY <1>2, <1>3, PollChained DEF Made
<1>5. Progress'
  <2>1. Suffix(Poll, Poll)
    BY <1>4, PollChained DEF Suffix
  <2> QED BY <1>2, <1>3, <1>4, <2>1 DEF Progress
<1>6. ImuTypes' /\ RightBank'
  BY <1>1, <1>2 DEF ImuTypes, RightBank
<1>7. SetSoFar'
  BY <1>1, <1>2, <1>3 DEF SetSoFar
<1>8. MasterSteered => MasterSteered'
  BY <1>2 DEF MasterSteered
<1> QED BY <1>1, <1>2, <1>5, <1>6, <1>7, <1>8 DEF IInv

LEMMA RaiseIInv == IInv /\ Raise => IInv'
<1> SUFFICES ASSUME IInv, Raise PROVE IInv'
  OBVIOUS
<1>1. ImuTypes /\ Progress /\ RightBank /\ SetSoFar /\ (mag /\ prompt => MasterSteered)
  BY DEF IInv
<1>2. /\ todo # <<>> /\ (Access(Head(todo)) \/ UNCHANGED chip) /\ todo' = <<>>
      /\ stage' = IF stage = "poll" THEN "idle" ELSE "dead"
      /\ UNCHANGED <<mag, prompt>>
  BY DEF Raise
<1>3. Progress'
  BY <1>2 DEF Progress
<1>4. /\ ImuTypes' /\ RightBank' /\ written \subseteq written' /\ mode' = mode
  <2>1. CASE Access(Head(todo))
    BY <1>1, <1>2, <2>1, AccessMeets DEF ImuTypes
  <2>2. CASE UNCHANGED chip
    BY <1>1, <1>2, <2>2 DEF chip, ImuTypes, RightBank
  <2> QED BY <1>2, <2>1, <2>2
<1>5. SetSoFar'
  <2>1. ConfigureChip' = ConfigureChip
    BY <1>2, SameSequences
  <2> QED BY <1>1, <1>2, <1>4, <2>1 DEF SetSoFar, Set
<1>6. ASSUME mag, prompt PROVE MasterSteered'
  <2>1. stage = "poll" => slv0["ADDR"] = FromAk /\ mode = Continuous
    BY <1>1, <1>6 DEF MasterSteered
  <2>2. stage = "poll" => slv0'["ADDR"] = slv0["ADDR"]
    BY <1>1, <1>2, PollKeepsAddress DEF chip
  <2> QED BY <1>2, <1>4, <2>1, <2>2 DEF MasterSteered
<1> QED BY <1>1, <1>2, <1>3, <1>4, <1>5, <1>6 DEF IInv

(* One transaction further towards continuous measurement.                 *)
LEMMA SteeredFurther ==
    ASSUME IInv, mag, prompt, stage = "setup", todo # <<>>, InTime, Access(Head(todo))
    PROVE  LET n == Made + 1 IN
           /\ n \in 20 .. 23 => slv0'["ADDR"] = ToAk
           /\ n \in 21 .. 23 => slv0'["REG"] = CNTL2
           /\ n \in 22 .. 23 => slv0'["DO"] = Continuous
           /\ n = 23 => waiting'
           /\ n >= 24 => slv0'["ADDR"] = FromAk /\ mode' = Continuous
<1> DEFINE t == Head(todo)
           n == Made + 1
           cc == ConfigureChip
<1>1. ImuTypes /\ Progress /\ MasterSteered /\ Whole = cc
  BY DEF IInv, Whole
<1>2. /\ bank' = t.bank /\ mode' = mode
      /\ slv0' \in [{"ADDR", "REG", "DO", "CTRL"} -> Int]
  BY <1>1, AccessMeets
<1>3. /\ t = cc[n] /\ n \in Nat /\ n \in 1 .. 28 /\ Made = n - 1
  <2>1. LET k == Len(cc) - Len(todo) IN k \in Nat /\ k + 1 \in 1 .. Len(cc) /\ t = cc[k + 1]
    BY <1>1, ChipChained, SuffixHead DEF Progress
  <2>2. Len(cc) = 28
    BY ChipChained
  <2> QED BY <1>1, <2>1, <2>2 DEF Made
<1>4. /\ n = 20 => t = Write(3, "ADDR", ToAk)
      /\ n = 21 => t = Write(3, "REG", CNTL2)
      /\ n = 22 => t = Write(3, "DO", Continuous)
      /\ n = 23 => t = Write(3, "CTRL", Once)
      /\ n = 24 => t = Write(3, "ADDR", FromAk)
      /\ n = 25 => t = Write(3, "REG", HXL)
      /\ n = 26 => t = Write(3, "CTRL", Standing)
      /\ n \in 27 .. 28 => t = Select(0)
  <2>1. /\ cc[19 + 1] = I2cMasterWrite(CNTL2, Continuous)[1]
        /\ cc[19 + 2] = I2cMasterWrite(CNTL2, Continuous)[2]
        /\ cc[19 + 3] = I2cMasterWrite(CNTL2, Continuous)[3]
        /\ cc[19 + 4] = I2cMasterWrite(CNTL2, Continuous)[4]
        /\ cc[23 + 1] = Reading[1] /\ cc[23 + 2] = Reading[2]
        /\ cc[23 + 3] = Reading[3] /\ cc[23 + 4] = Reading[4] /\ cc[28] = Select(0)
    BY ChipChained
  <2>2. /\ I2cMasterWrite(CNTL2, Continuous)[1] = Write(3, "ADDR", ToAk)
        /\ I2cMasterWrite(CNTL2, Continuous)[2] = Write(3, "REG", CNTL2)
        /\ I2cMasterWrite(CNTL2, Continuous)[3] = Write(3, "DO", Continuous)
        /\ I2cMasterWrite(CNTL2, Continuous)[4] = Write(3, "CTRL", Once)
    BY MasterFacts DEF Continuous
  <2>3. /\ Reading[1] = Write(3, "ADDR", FromAk) /\ Reading[2] = Write(3, "REG", HXL)
        /\ Reading[3] = Write(3, "CTRL", Standing) /\ Reading[4] = Select(0)
    BY DEF Reading
  <2> QED BY <1>3, <2>1, <2>2, <2>3
<1>5. Access(t) /\ (waiting => t.do # "write")
  BY DEF InTime
<1> HIDE DEF t, n, cc
<1>6. ASSUME NEW r \in {"ADDR", "REG", "DO", "CTRL"}, NEW v \in Int, t = Write(3, r, v)
      PROVE  slv0' = [slv0 EXCEPT ![r] = v] /\ waiting' = (r = "CTRL") /\ ~waiting
  <2>1. t.do = "write" /\ t.bank = 3 /\ t.reg = r /\ t.val = v
    BY <1>6 DEF Write
  <2> QED BY <1>1, <1>2, <1>5, <2>1, Lands
<1>7. /\ n = 20 => slv0' = [slv0 EXCEPT !["ADDR"] = ToAk]
      /\ n = 21 => slv0' = [slv0 EXCEPT !["REG"] = CNTL2]
      /\ n = 22 => slv0' = [slv0 EXCEPT !["DO"] = Continuous]
      /\ n = 23 => slv0' = [slv0 EXCEPT !["CTRL"] = Once] /\ waiting'
      /\ n = 24 => slv0' = [slv0 EXCEPT !["ADDR"] = FromAk] /\ ~waiting
      /\ n = 25 => slv0' = [slv0 EXCEPT !["REG"] = HXL]
      /\ n = 26 => slv0' = [slv0 EXCEPT !["CTRL"] = Standing]
  <2>1. /\ ToAk \in Int /\ CNTL2 \in Int /\ Continuous \in Int /\ Once \in Int
        /\ FromAk \in Int /\ HXL \in Int /\ Standing \in Int
    BY DEF ToAk, CNTL2, Continuous, Once, FromAk, HXL, Standing
  <2> QED BY <1>4, <1>6, <2>1
<1>8. n \in 27 .. 28 => slv0' = slv0
  <2>1. n \in 27 .. 28 => t.do # "write"
    BY <1>4 DEF Select
  <2> QED BY <1>5, <2>1 DEF Access
<1>9. /\ n \in 21 .. 24 => slv0["ADDR"] = ToAk
      /\ n \in 22 .. 24 => slv0["REG"] = CNTL2
      /\ n \in 23 .. 24 => slv0["DO"] = Continuous
      /\ n = 24 => waiting \/ mode = Continuous
      /\ n >= 25 => slv0["ADDR"] = FromAk /\ mode = Continuous
  <2>1. /\ Made \in 20 .. 23 => slv0["ADDR"] = ToAk
        /\ Made \in 21 .. 23 => slv0["REG"] = CNTL2
        /\ Made \in 22 .. 23 => slv0["DO"] = Continuous
        /\ Made = 23 => waiting \/ mode = Continuous
        /\ Made >= 24 => slv0["ADDR"] = FromAk /\ mode = Continuous
    BY <1>1 DEF MasterSteered
  <2> QED BY <1>3, <2>1
<1>10. slv0 \in [{"ADDR", "REG", "DO", "CTRL"} -> Int]
  BY <1>1 DEF ImuTypes
<1>11. n \in 20 .. 23 => slv0'["ADDR"] = ToAk
  BY <1>7, <1>9, <1>10
<1>12. n \in 21 .. 23 => slv0'["REG"] = CNTL2
  BY <1>7, <1>9, <1>10
<1>13. n \in 22 .. 23 => slv0'["DO"] = Continuous
  BY <1>7, <1>9, <1>10
<1>14. n \in 24 .. 28 => slv0'["ADDR"] = FromAk /\ mode' = Continuous
  BY <1>2, <1>7, <1>8, <1>9, <1>10
<1>15. n >= 24 => n \in 24 .. 28
  BY <1>3
<1>16. n = 23 => waiting'
  BY <1>7
<1> QED BY <1>11, <1>12, <1>13, <1>14, <1>15, <1>16 DEF n

LEMMA TransactIInv == IInv /\ Transact => IInv'
<1> SUFFICES ASSUME IInv, Transact PROVE IInv'
  OBVIOUS
<1> DEFINE t == Head(todo)
<1>1. ImuTypes /\ Progress /\ RightBank /\ SetSoFar /\ (mag /\ prompt => MasterSteered)
  BY DEF IInv
<1>2. /\ todo # <<>> /\ InTime /\ Access(t) /\ todo' = Tail(todo)
      /\ stage' = IF todo' = <<>> THEN "idle" ELSE stage
      /\ UNCHANGED <<mag, prompt>>
  BY DEF Transact
<1>3. /\ bank' = t.bank /\ bank' \in 0 .. 3 /\ waiting' \in BOOLEAN
      /\ RightBank' /\ Set(t, written') /\ written \subseteq written'
      /\ slv0' \in [{"ADDR", "REG", "DO", "CTRL"} -> Int] /\ mode' = mode
  BY <1>1, <1>2, AccessMeets
<1>4. stage \in {"setup", "poll"} /\ Suffix(todo, Whole)
  BY <1>1, <1>2 DEF Progress, ImuTypes
<1>5. /\ Made \in Nat /\ Len(todo) \in Nat \ {0} /\ Made + 1 \in 1 .. Len(Whole)
      /\ t = Whole[Made + 1] /\ Suffix(todo', Whole) /\ Len(todo') = Len(todo) - 1
      /\ Made = Len(Whole) - Len(todo)
  BY <1>2, <1>4, WholeFacts, SuffixHead DEF Made
<1>6. ConfigureChip' = ConfigureChip /\ Poll' = Poll
  BY <1>2, SameSequences
<1>7. todo' # <<>> => Whole' = Whole /\ Made' = Made + 1
  BY <1>2, <1>5, <1>6, WholeFacts DEF Whole, Made
<1>8. todo' = <<>> => Made + 1 = Len(Whole)
  <2>1. Len(<<>>) = 0
    OBVIOUS
  <2>2. Len(Whole) \in Nat
    BY WholeFacts
  <2>3. ASSUME todo' = <<>> PROVE Made + 1 = Len(Whole)
    <3>1. Len(todo') = 0
      BY <2>1, <2>3
    <3>2. Len(todo) = 1
      BY <1>5, <3>1
    <3> QED BY <1>5, <2>2, <3>2
  <2> QED BY <2>3
<1> HIDE DEF t
<1>9. ImuTypes'
  BY <1>1, <1>2, <1>3, <1>4 DEF ImuTypes
<1>10. Progress'
  <2>1. CASE todo' = <<>>
    BY <1>2, <2>1 DEF Progress
  <2>2. CASE todo' # <<>>
    BY <1>2, <1>3, <1>4, <1>5, <1>7, <2>2 DEF Progress
  <2> QED BY <2>1, <2>2
<1>11. SetSoFar'
  <2>1. ASSUME NEW i, Set(ConfigureChip[i], written) PROVE Set(ConfigureChip[i], written')
    BY <1>3, <2>1 DEF Set
  <2>2. CASE stage = "poll"
    BY <1>1, <1>2, <1>6, <2>1, <2>2 DEF SetSoFar
  <2>3. CASE stage = "setup"
    <3>1. Whole = ConfigureChip
      BY <2>3 DEF Whole
    <3>2. \A i \in 1 .. Made + 1 : Set(ConfigureChip[i], written')
      <4>1. \A i \in 1 .. Made : Set(ConfigureChip[i], written')
        BY <1>1, <2>1, <2>3 DEF SetSoFar
      <4>2. Set(ConfigureChip[Made + 1], written')
        BY <1>3, <1>5, <3>1
      <4>3. \A i \in 1 .. Made + 1 : i \in 1 .. Made \/ i = Made + 1
        BY <1>5
      <4> QED BY <4>1, <4>2, <4>3
    <3>3. CASE todo' = <<>>
      BY <1>2, <1>6, <1>8, <3>1, <3>2, <3>3 DEF SetSoFar
    <3>4. CASE todo' # <<>>
      BY <1>2, <1>6, <1>7, <2>3, <3>2, <3>4 DEF SetSoFar
    <3> QED BY <3>3, <3>4
  <2> QED BY <1>4, <2>2, <2>3
<1>12. ASSUME mag, prompt PROVE MasterSteered'
  <2>1. MasterSteered
    BY <1>1, <1>12
  <2>2. CASE stage = "poll"
    <3>1. slv0'["ADDR"] = slv0["ADDR"]
      BY <1>1, <1>2, <2>2, PollKeepsAddress DEF t
    <3> QED BY <1>2, <1>3, <2>1, <2>2, <3>1 DEF MasterSteered
  <2>3. CASE stage = "setup"
    <3> DEFINE n == Made + 1
    <3>1. /\ n \in 20 .. 23 => slv0'["ADDR"] = ToAk
          /\ n \in 21 .. 23 => slv0'["REG"] = CNTL2
          /\ n \in 22 .. 23 => slv0'["DO"] = Continuous
          /\ n = 23 => waiting'
          /\ n >= 24 => slv0'["ADDR"] = FromAk /\ mode' = Continuous
      BY <1>2, <1>12, <2>3, SteeredFurther DEF t
    <3>2. CASE todo' = <<>>
      <4>1. n = 28
        BY <1>8, <1>12, <2>3, <3>2, ChipChained DEF Whole
      <4> QED BY <1>2, <3>1, <3>2, <4>1 DEF MasterSteered
    <3>3. CASE todo' # <<>>
      <4>1. Made' = n /\ stage' = "setup"
        BY <1>2, <1>7, <2>3, <3>3
      <4> HIDE DEF n
      <4> QED BY <3>1, <4>1 DEF MasterSteered
    <3> QED BY <3>2, <3>3
  <2> QED BY <1>4, <2>2, <2>3
<1> QED BY <1>2, <1>3, <1>9, <1>10, <1>11, <1>12 DEF IInv

LEMMA ImuInvariant == Spec => []IInv
<1>1. Init => IInv
  BY InitIInv
<1>2. IInv /\ [Next]_vars => IInv'
  <2> SUFFICES ASSUME IInv, [Next]_vars PROVE IInv'
    OBVIOUS
  <2>1. CASE MasterRuns
    BY <2>1, MasterRunsIInv
  <2>2. ASSUME UNCHANGED <<mag, prompt, todo, stage, chip>> PROVE IInv'
    <3>1. ImuTypes /\ Progress /\ RightBank /\ SetSoFar /\ (mag /\ prompt => MasterSteered)
      BY DEF IInv
    <3>2. UNCHANGED <<mag, prompt, todo, stage, bank, written, slv0, waiting, mode, last>>
      BY <2>2 DEF chip
    <3>3. Progress' /\ SetSoFar' /\ Made' = Made
      BY <3>1, <3>2, SameKept
    <3>4. ImuTypes' /\ RightBank' /\ (MasterSteered => MasterSteered')
      BY <3>1, <3>2, <3>3 DEF ImuTypes, RightBank, MasterSteered
    <3> QED BY <3>1, <3>2, <3>3, <3>4 DEF IInv
  <2>3. CASE BusChanges
    BY <2>2, <2>3 DEF BusChanges
  <2>4. CASE StartPoll
    BY <2>4, StartPollIInv
  <2>5. CASE Transact
    BY <2>5, TransactIInv
  <2>6. CASE Raise
    BY <2>6, RaiseIInv
  <2>7. CASE UNCHANGED vars
    BY <2>2, <2>7 DEF vars, chip
  <2> QED BY <2>1, <2>3, <2>4, <2>5, <2>6, <2>7 DEF Next
<1> QED BY <1>1, <1>2, PTL DEF Spec

(* Every register access meets the bank it was written for, whatever       *)
(* transactions have failed before (imu:201-239).                          *)
THEOREM AccessesMeetTheirBank == Spec => []RightBank
<1>1. IInv => RightBank
  BY DEF IInv
<1> QED BY <1>1, ImuInvariant, PTL

(* The driver polls no chip whose configuration has stopped short: every   *)
(* register that the constructor sets is set (imu:111-115, 117-175).       *)
THEOREM PolledChipsAreConfigured == Spec => []NeverHalfConfigured
<1>1. IInv => NeverHalfConfigured
  <2> SUFFICES ASSUME IInv, stage \in {"idle", "poll"},
                      NEW t \in ToSet(ConfigureChip), t.do = "write"
               PROVE  <<t.bank, t.reg>> \in written
    BY DEF NeverHalfConfigured
  <2>1. \E i \in 1 .. Len(ConfigureChip) : t = ConfigureChip[i]
    BY ChipChained DEF ToSet
  <2> QED BY <2>1 DEF IInv, SetSoFar, Set
<1> QED BY <1>1, ImuInvariant, PTL

(* If the master serves every transfer before SLV0 is written again, the   *)
(* magnetometer measures continuously whenever the driver polls it.        *)
(* Without that promise nothing is claimed: the driver waits for nothing   *)
(* (imu:181-188).                                                          *)
THEOREM PromptMasterMeasures == Spec => []MagnetometerRuns
<1>1. IInv => MagnetometerRuns
  BY DEF IInv, MasterSteered, MagnetometerRuns
<1> QED BY <1>1, ImuInvariant, PTL

=============================================================================
