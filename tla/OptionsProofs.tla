---------------------------- MODULE OptionsProofs ----------------------------
(***************************************************************************)
(* What main reads is what the writers of the two lines meant, for lines   *)
(* of any length, any words and any number they stand for.                 *)
(*                                                                         *)
(* A scan stops at the first hit, and what is written later comes behind   *)
(* it.  The settings therefore never change for an option once it is       *)
(* there, and neither does the value main finds.                           *)
(***************************************************************************)
EXTENDS Options, WellFoundedInduction, TLAPS

Names    == ValueOptions \cup Flags
AnyWord  == Words \cup Names \cup {"RdmaTests"}

-----------------------------------------------------------------------------
(* Scanning a line.                                                        *)

\* A scan for a word that is there ends at its first place.
LEMMA FirstHit ==
  ASSUME NEW S, NEW q \in Seq(S), NEW name, Given(q, name)
  PROVE  /\ Hit(q, name) \in 1..Len(q)
         /\ q[Hit(q, name)] = name
         /\ \A j \in 1..Len(q) : q[j] = name => Hit(q, name) <= j
<1> DEFINE T == {j \in 1..Len(q) : q[j] = name}
           First(k) == k \in DOMAIN q /\ q[k] = name /\ \A j \in DOMAIN q : q[j] = name => k <= j
<1>1. DOMAIN q = 1..Len(q) /\ Len(q) \in Nat
  OBVIOUS
<1>2. T \subseteq Nat /\ T # {}
  BY <1>1 DEF Given
<1>3. \E k \in T : \A j \in T : ~(<<j, k>> \in OpToRel(<, Nat))
  <2> HIDE DEF T
  <2> QED BY <1>2, NatLessThanWellFounded, WFMin
<1>4. \E k \in T : \A j \in T : k <= j
  <2>1. PICK k \in T : \A j \in T : ~(<<j, k>> \in OpToRel(<, Nat))
    BY <1>3
  <2>2. ASSUME NEW j \in T
        PROVE  k <= j
    <3>1. j \in Nat /\ k \in Nat
      BY <1>2
    <3>2. j < k => <<j, k>> \in OpToRel(<, Nat)
      BY <3>1 DEF OpToRel
    <3>3. ~(j < k)
      BY <2>1, <3>2
    <3> QED BY <3>1, <3>3
  <2> QED BY <2>2
<1>5. \E k : First(k)
  BY <1>1, <1>4
<1>6. First(CHOOSE k : First(k))
  <2> HIDE DEF First
  <2> QED BY <1>5
<1>7. First(Hit(q, name))
  BY <1>5 DEF Hit
<1> QED BY <1>1, <1>7

\* A word is in a longer line if it is in either part.
LEMMA GivenAppended ==
  ASSUME NEW S, NEW q \in Seq(S), NEW p \in Seq(S), NEW name
  PROVE  Given(q \o p, name) <=> Given(q, name) \/ Given(p, name)
<1>1. /\ DOMAIN q = 1..Len(q) /\ DOMAIN p = 1..Len(p) /\ DOMAIN (q \o p) = 1..(Len(q) + Len(p))
      /\ Len(q) \in Nat /\ Len(p) \in Nat
      /\ \A j \in 1..Len(q) : (q \o p)[j] = q[j]
      /\ \A j \in 1..Len(p) : (q \o p)[Len(q) + j] = p[j]
  OBVIOUS
<1>2. ASSUME NEW j \in 1..(Len(q) + Len(p)), (q \o p)[j] = name
      PROVE  Given(q, name) \/ Given(p, name)
  <2>1. CASE j <= Len(q)
    BY <1>1, <1>2, <2>1 DEF Given
  <2>2. CASE j > Len(q)
    <3>1. j - Len(q) \in 1..Len(p) /\ j = Len(q) + (j - Len(q))
      BY <1>1, <2>2
    <3> QED BY <1>1, <1>2, <3>1 DEF Given
  <2> QED BY <1>1, <2>1, <2>2
<1>3. ASSUME NEW j \in 1..Len(q), q[j] = name
      PROVE  Given(q \o p, name)
  BY <1>1, <1>3 DEF Given
<1>4. ASSUME NEW j \in 1..Len(p), p[j] = name
      PROVE  Given(q \o p, name)
  <2>1. Len(q) + j \in 1..(Len(q) + Len(p))
    BY <1>1
  <2> QED BY <1>1, <1>4, <2>1 DEF Given
<1> QED BY <1>1, <1>2, <1>3, <1>4 DEF Given

\* What is written behind a whole line does not change what a scan finds.
LEMMA ValueStays ==
  ASSUME NEW S, NEW q \in Seq(S), NEW p \in Seq(S), NEW name,
         Given(q, name), q[Len(q)] # name
  PROVE  ArgValue(q \o p, name) = ArgValue(q, name)
<1> DEFINE k == Hit(q, name)
           m == Hit(q \o p, name)
<1>1. /\ q \o p \in Seq(S) /\ Len(q \o p) = Len(q) + Len(p) /\ Len(q) \in Nat /\ Len(p) \in Nat
      /\ \A j \in 1..Len(q) : (q \o p)[j] = q[j]
  OBVIOUS
<1>2. Given(q \o p, name)
  BY GivenAppended
<1>3. k \in 1..Len(q) /\ q[k] = name /\ \A j \in 1..Len(q) : q[j] = name => k <= j
  BY FirstHit
<1>4. /\ m \in 1..Len(q \o p) /\ (q \o p)[m] = name
      /\ \A j \in 1..Len(q \o p) : (q \o p)[j] = name => m <= j
  BY <1>1, <1>2, FirstHit
<1> HIDE DEF k, m
<1>5. m = k
  <2>1. m <= k
    BY <1>1, <1>3, <1>4
  <2>2. m \in 1..Len(q) /\ q[m] = name
    BY <1>1, <1>3, <1>4, <2>1
  <2> QED BY <1>3, <2>1, <2>2
<1>6. k # Len(q) /\ k + 1 \in 1..Len(q) /\ m # Len(q \o p)
  BY <1>1, <1>3, <1>5
<1>7. After(q \o p, m) = After(q, k)
  BY <1>1, <1>5, <1>6 DEF After
<1> QED BY <1>2, <1>7 DEF ArgValue, k, m

\* An option that was not in the line has the value that is written behind it,
\* or none.
LEMMA ValueWritten ==
  ASSUME NEW S, NEW q \in Seq(S), NEW name \in S, NEW p \in Seq(S), p # <<>>,
         p[1] = name, ~Given(q, name)
  PROVE  ArgValue(q \o p, name) = IF Len(p) = 1 THEN Missing ELSE p[2]
<1> DEFINE m == Hit(q \o p, name)
<1>1. /\ q \o p \in Seq(S) /\ Len(q \o p) = Len(q) + Len(p)
      /\ Len(q) \in Nat /\ Len(p) \in Nat /\ Len(p) > 0
      /\ \A j \in 1..Len(q) : (q \o p)[j] = q[j]
      /\ \A j \in 1..Len(p) : (q \o p)[Len(q) + j] = p[j]
  OBVIOUS
<1>2. Given(q \o p, name)
  <2>1. Given(p, name)
    BY <1>1 DEF Given
  <2> QED BY <2>1, GivenAppended
<1>3. /\ m \in 1..Len(q \o p) /\ (q \o p)[m] = name
      /\ \A j \in 1..Len(q \o p) : (q \o p)[j] = name => m <= j
  <2> DEFINE r == q \o p
  <2>1. r \in Seq(S) /\ Given(r, name)
    BY <1>1, <1>2
  <2> HIDE DEF r
  <2>2. /\ Hit(r, name) \in 1..Len(r) /\ r[Hit(r, name)] = name
        /\ \A j \in 1..Len(r) : r[j] = name => Hit(r, name) <= j
    BY <2>1, FirstHit
  <2> QED BY <2>2 DEF r
<1> HIDE DEF m
<1>4. m = Len(q) + 1
  <2>1. m <= Len(q) + 1
    BY <1>1, <1>3
  <2>2. ~(m <= Len(q))
    BY <1>1, <1>3 DEF Given
  <2> QED BY <1>1, <1>3, <2>1, <2>2
<1>5. CASE Len(p) = 1
  BY <1>1, <1>2, <1>4, <1>5 DEF ArgValue, After, m
<1>6. CASE Len(p) # 1
  <2>1. Len(p) >= 2
    <3>1. Len(p) \in Nat /\ Len(p) > 0
      BY <1>1
    <3>2. \A n \in Nat : n > 0 /\ n # 1 => n >= 2
      OBVIOUS
    <3> QED BY <1>6, <3>1, <3>2
  <2>2. 2 \in 1..Len(p) /\ (Len(q) + 1) + 1 = Len(q) + 2 /\ Len(q) + 1 # Len(q) + Len(p)
    BY <1>1, <2>1
  <2>3. After(q \o p, m) = p[2]
    BY <1>1, <1>4, <2>2 DEF After
  <2> QED BY <1>2, <1>6, <2>3 DEF ArgValue, m
<1> QED BY <1>5, <1>6

-----------------------------------------------------------------------------
(* Writing a line.                                                         *)

\* What Means makes of the settings T.
With(T, name, value) ==
  IF \E s \in T : s[1] = name THEN T ELSE T \cup {<<name, value>>}

\* The value of the option, or the flag, that the group p begins with.
ValueIn(p, name) ==
  IF name \in Flags THEN name ELSE IF Len(p) = 1 THEN Missing ELSE p[2]

\* A group of words -- an option with its value, an option at the end of the
\* line, or a flag -- is meant if it is the first of its name.
LEMMA GroupWritten ==
  ASSUME NEW q, NEW T, LineOK(q, T), q[Len(q)] \notin ValueOptions,
         NEW p \in Seq(AnyWord), p # <<>>,
         NEW name \in Names, p[1] = name,
         \A j \in 1..Len(p) : j # 1 => p[j] \in Words,
         NEW value, value = ValueIn(p, name)
  PROVE  LineOK(q \o p, With(T, name, value))
<1> DEFINE U == With(T, name, value)
           r == q \o p
<1>1. /\ q \in Seq(AnyWord) /\ q # <<>> /\ r \in Seq(AnyWord) /\ r # <<>>
  <2>1. q \in Seq(AnyWord) /\ q # <<>>
    BY DEF LineOK, AnyWord, Names
  <2> QED BY <2>1
<1>2. \A k \in Names : Given(p, k) <=> k = name
  <2>1. DOMAIN p = 1..Len(p) /\ 1 \in DOMAIN p
    OBVIOUS
  <2>2. ASSUME NEW k \in Names, Given(p, k)
        PROVE  k = name
    <3>1. PICK j \in 1..Len(p) : p[j] = k
      BY <2>1, <2>2 DEF Given
    <3>2. k \notin Words
      BY OptionsAssumption DEF Names
    <3> QED BY <3>1, <3>2
  <2> QED BY <2>1, <2>2 DEF Given
<1>3. \A k \in Names : Given(r, k) <=> Given(q, k) \/ k = name
  BY <1>1, <1>2, GivenAppended
<1>4. ~Given(q, name) <=> ~\E s \in T : s[1] = name
  BY DEF LineOK, Names
<1>5. T \subseteq U /\ \A s \in U : s \in T \/ (~Given(q, name) /\ s = <<name, value>>)
  BY <1>4 DEF With
<1>6. Given(q, name) \/ <<name, value>> \in U
  BY <1>4 DEF With
<1> HIDE DEF U, r
<1>7. \A s, t \in U : s[1] = t[1] => s = t
  BY <1>4, <1>5 DEF LineOK
<1>8. ASSUME NEW k \in Names
      PROVE  Given(r, k) <=> \E s \in U : s[1] = k
  <2>1. Given(q, k) <=> \E s \in T : s[1] = k
    BY DEF LineOK, Names
  <2>2. <<name, value>>[1] = name
    OBVIOUS
  <2> QED BY <1>3, <1>5, <1>6, <2>1, <2>2
<1>9. ASSUME NEW o \in ValueOptions, Given(r, o)
      PROVE  <<o, ArgValue(r, o)>> \in U
  <2>1. o \in Names /\ o \notin Flags /\ o \in AnyWord
    BY DEF Names, ValueOptions, Flags, AnyWord
  <2>2. CASE Given(q, o)
    <3>1. ArgValue(r, o) = ArgValue(q, o)
      BY <1>1, <2>2, ValueStays DEF r
    <3> QED BY <1>5, <2>2, <3>1 DEF LineOK
  <2>3. CASE ~Given(q, o)
    <3>1. o = name
      BY <1>3, <1>9, <2>1, <2>3
    <3>2. ArgValue(r, o) = value
      BY <1>1, <2>1, <2>3, <3>1, ValueWritten DEF r, ValueIn
    <3> QED BY <1>6, <2>3, <3>1, <3>2
  <2> QED BY <2>2, <2>3
<1>10. ASSUME NEW f \in Flags, Given(r, f)
       PROVE  <<f, f>> \in U
  <2>1. f \in Names
    BY DEF Names
  <2>2. CASE Given(q, f)
    BY <1>5, <2>2 DEF LineOK
  <2>3. CASE ~Given(q, f)
    BY <1>3, <1>6, <1>10, <2>1, <2>3 DEF ValueIn
  <2> QED BY <2>2, <2>3
<1>11. LineOK(r, U)
  BY <1>1, <1>7, <1>8, <1>9, <1>10 DEF LineOK, AnyWord, Names
<1> QED BY <1>11 DEF U, r

\* A word that is neither an option nor a flag means nothing.
LEMMA WordWritten ==
  ASSUME NEW q, NEW T, LineOK(q, T), q[Len(q)] \notin ValueOptions, NEW w \in Words
  PROVE  LineOK(q \o <<w>>, T)
<1> DEFINE r == q \o <<w>>
<1>1. q \in Seq(AnyWord) /\ <<w>> \in Seq(AnyWord) /\ r \in Seq(AnyWord) /\ r # <<>>
  <2>1. q \in Seq(AnyWord) /\ w \in AnyWord
    BY DEF LineOK, AnyWord, Names
  <2> QED BY <2>1
<1>2. \A k \in Names : ~Given(<<w>>, k)
  BY OptionsAssumption DEF Given, Names
<1>3. \A k \in Names : Given(r, k) <=> Given(q, k)
  BY <1>1, <1>2, GivenAppended
<1>4. \A o \in ValueOptions : Given(q, o) => ArgValue(r, o) = ArgValue(q, o)
  <2> SUFFICES ASSUME NEW o \in ValueOptions, Given(q, o) PROVE ArgValue(r, o) = ArgValue(q, o)
    OBVIOUS
  <2> QED BY <1>1, ValueStays
<1> HIDE DEF r
<1>5. LineOK(r, T)
  BY <1>1, <1>3, <1>4 DEF LineOK, AnyWord, Names
<1> QED BY <1>5 DEF r

\* Every step writes one line further.
LEMMA WriteStep ==
  ASSUME LinesInv, Next
  PROVE  LinesInv'
<1>1. ASSUME NEW n \in Program, NEW p, NEW T, Write(n, p, T), LineOK(argv[n] \o p, T)
      PROVE  LinesInv'
  BY <1>1 DEF LinesInv, Write
<1>2. ASSUME NEW n \in Program, Open(n)
      PROVE  LineOK(argv[n], settings[n]) /\ argv[n][Len(argv[n])] \notin ValueOptions
  BY <1>2 DEF LinesInv, LineOK, Open
<1>3. ASSUME NEW n \in Program, NEW p \in Seq(AnyWord), p # <<>>, NEW name \in Names, p[1] = name,
             \A j \in 1..Len(p) : j # 1 => p[j] \in Words,
             NEW value, value = ValueIn(p, name),
             Write(n, p, Means(n, name, value))
      PROVE  LinesInv'
  <2>1. LineOK(argv[n], settings[n]) /\ argv[n][Len(argv[n])] \notin ValueOptions
    BY <1>2, <1>3 DEF Write
  <2>2. LineOK(argv[n] \o p, With(settings[n], name, value))
    BY <1>3, <2>1, GroupWritten
  <2>3. Means(n, name, value) = With(settings[n], name, value)
    BY DEF Means, With
  <2> QED BY <1>1, <1>3, <2>2, <2>3
<1>4. ASSUME NEW n \in Program, NEW o \in ValueOptions, NEW w \in Words, WriteOption(n, o, w)
      PROVE  LinesInv'
  <2> DEFINE p == <<o, w>>
  <2>1. /\ o \in Names /\ o \notin Flags /\ p \in Seq(AnyWord) /\ p # <<>>
        /\ Len(p) = 2 /\ p[1] = o /\ p[2] = w
    BY DEF Names, AnyWord, ValueOptions, Flags
  <2>2. \A j \in 1..Len(p) : j # 1 => p[j] \in Words
    BY <2>1
  <2>3. w = ValueIn(p, o)
    BY <2>1 DEF ValueIn
  <2>4. Write(n, p, Means(n, o, w))
    BY <1>4 DEF WriteOption
  <2> HIDE DEF p
  <2> QED BY <1>3, <2>1, <2>2, <2>3, <2>4
<1>5. ASSUME NEW n \in Program, NEW f \in Flags, WriteFlag(n, f)
      PROVE  LinesInv'
  <2> DEFINE p == <<f>>
  <2>1. f \in Names /\ p \in Seq(AnyWord) /\ p # <<>> /\ Len(p) = 1 /\ p[1] = f
    BY DEF Names, AnyWord
  <2>2. \A j \in 1..Len(p) : j # 1 => p[j] \in Words
    BY <2>1
  <2>3. f = ValueIn(p, f)
    BY DEF ValueIn
  <2>4. Write(n, p, Means(n, f, f))
    BY <1>5 DEF WriteFlag
  <2> HIDE DEF p
  <2> QED BY <1>3, <2>1, <2>2, <2>3, <2>4
<1>6. ASSUME NEW n \in Program, NEW o \in ValueOptions, WriteHalf(n, o)
      PROVE  LinesInv'
  <2> DEFINE p == <<o>>
  <2>1. /\ o \in Names /\ o \notin Flags /\ p \in Seq(AnyWord) /\ p # <<>>
        /\ Len(p) = 1 /\ p[1] = o
    BY DEF Names, AnyWord, ValueOptions, Flags
  <2>2. \A j \in 1..Len(p) : j # 1 => p[j] \in Words
    BY <2>1
  <2>3. Missing = ValueIn(p, o)
    BY <2>1 DEF ValueIn
  <2>4. Write(n, p, Means(n, o, Missing))
    BY <1>6 DEF WriteHalf
  <2> HIDE DEF p
  <2> QED BY <1>3, <2>1, <2>2, <2>3, <2>4
<1>7. ASSUME NEW n \in Program, NEW w \in Words, WriteWord(n, w)
      PROVE  LinesInv'
  <2>1. Open(n)
    BY <1>7 DEF WriteWord, Write
  <2>2. LineOK(argv[n] \o <<w>>, settings[n])
    BY <1>2, <2>1, WordWritten
  <2> QED BY <1>1, <1>7, <2>2 DEF WriteWord
<1> QED BY <1>4, <1>5, <1>6, <1>7 DEF Next

-----------------------------------------------------------------------------
(* The theorems.                                                           *)

\* Each line goes with what its writer means by it, whatever is written and in
\* whatever order.
THEOREM LinesInvariance == Spec => []LinesInv
<1>1. Init => LinesInv
  <2> DEFINE line == <<"RdmaTests">>
  <2>1. /\ line \in Seq(AnyWord) /\ line # <<>>
        /\ \A k \in Names : ~Given(line, k)
    BY DEF AnyWord, Names, ValueOptions, Flags, Given
  <2> HIDE DEF line
  <2>2. LineOK(line, {})
    BY <2>1 DEF LineOK, AnyWord, Names
  <2> QED BY <2>2 DEF Init, LinesInv, line
<1>2. LinesInv /\ [Next]_vars => LinesInv'
  <2>1. LinesInv /\ UNCHANGED vars => LinesInv'
    BY DEF LinesInv, vars
  <2> QED BY <2>1, WriteStep
<1> QED BY <1>1, <1>2, PTL DEF Spec

\* What main reads is what was meant, in whatever order the options come, with
\* whatever words in between and however often one is repeated.
THEOREM SettingsRead == Spec => []ReadsSettings
<1>1. LinesInv => ReadsSettings
  <2> SUFFICES ASSUME LinesInv, NEW n \in Program
               PROVE  /\ \A o \in ValueOptions :
                           \/ <<o, ArgValue(argv[n], o)>> \in settings[n]
                           \/ ArgValue(argv[n], o) = Default[o] /\ ~\E s \in settings[n] : s[1] = o
                      /\ \A f \in Flags : Given(argv[n], f) <=> <<f, f>> \in settings[n]
    BY DEF ReadsSettings
  <2>1. LineOK(argv[n], settings[n])
    BY DEF LinesInv
  <2>2. ASSUME NEW o \in ValueOptions, ~Given(argv[n], o)
        PROVE  ArgValue(argv[n], o) = Default[o] /\ ~\E s \in settings[n] : s[1] = o
    BY <2>1, <2>2 DEF LineOK, ArgValue
  <2>3. ASSUME NEW f \in Flags, <<f, f>> \in settings[n]
        PROVE  Given(argv[n], f)
    <3>1. \E s \in settings[n] : s[1] = f
      <4>1. <<f, f>>[1] = f
        OBVIOUS
      <4> QED BY <2>3, <4>1
    <3> QED BY <2>1, <3>1 DEF LineOK
  <2> QED BY <2>1, <2>2, <2>3 DEF LineOK
<1> QED BY <1>1, LinesInvariance, PTL

\* Two lines with the same settings give the same value to every option that
\* these are about.
LEMMA SameValue ==
  ASSUME LinesInv, Shared("client") = Shared("server"),
         NEW o \in {"-datasize", "-numtuples", "-metric", "-connection"}
  PROVE  ArgValue(argv["client"], o) = ArgValue(argv["server"], o)
<1> DEFINE v(n) == ArgValue(argv[n], o)
<1>1. o \in ValueOptions /\ "client" \in Program /\ "server" \in Program
  BY DEF ValueOptions, Program
<1>2. \A n \in Program : LineOK(argv[n], settings[n])
  BY DEF LinesInv
<1>3. \A n \in Program : Given(argv[n], o) => <<o, v(n)>> \in Shared(n)
  <2>1. \A n \in Program : <<o, v(n)>>[1] = o
    OBVIOUS
  <2> QED BY <1>1, <1>2, <2>1 DEF LineOK, Shared
<1>4. \A n \in Program : \A s \in Shared(n) : s[1] = o => Given(argv[n], o)
  BY <1>1, <1>2 DEF LineOK, Shared
<1>5. \A n \in Program : \A s, t \in Shared(n) : s[1] = t[1] => s = t
  BY <1>2 DEF LineOK, Shared
<1>6. CASE Given(argv["client"], o) \/ Given(argv["server"], o)
  <2>1. Given(argv["client"], o) /\ Given(argv["server"], o)
    <3>1. \A n \in Program : <<o, v(n)>>[1] = o
      OBVIOUS
    <3> QED BY <1>1, <1>3, <1>4, <1>6, <3>1
  <2>2. <<o, v("client")>> \in Shared("server") /\ <<o, v("server")>> \in Shared("server")
    BY <1>1, <1>3, <2>1
  <2>3. <<o, v("client")>> = <<o, v("server")>>
    BY <1>1, <1>5, <2>2
  <2> QED BY <2>3
<1>7. CASE ~Given(argv["client"], o) /\ ~Given(argv["server"], o)
  BY <1>7 DEF ArgValue
<1> QED BY <1>6, <1>7

\* Two programs whose lines have the same settings run the same tests, with
\* the same data size and over the same transport, or neither runs any, unless
\* the client lacks its address.  This is the assumption Matched of the other
\* modules, as far as the command lines can grant it.
THEOREM SameStart == Spec => []StartAlike
<1>1. LinesInv => StartAlike
  <2> SUFFICES ASSUME LinesInv, Shared("client") = Shared("server"),
                      ~IsServer(argv["client"]), IsServer(argv["server"]),
                      <<"-serverip", Missing>> \notin settings["client"]
               PROVE  LET c == Started(argv["client"]) s == Started(argv["server"]) IN
                      IF s.kind = "server" THEN c = [s EXCEPT !.kind = "client"] ELSE c = s
    BY DEF StartAlike
  <2> DEFINE c == argv["client"]
             s == argv["server"]
  <2>1. \A o \in {"-datasize", "-numtuples", "-metric", "-connection"} : ArgValue(c, o) = ArgValue(s, o)
    BY SameValue
  <2>2. ArgValue(c, "-serverip") # Missing
    <3>1. LineOK(c, settings["client"]) /\ "-serverip" \in ValueOptions
      BY DEF LinesInv, Program, ValueOptions
    <3>2. CASE Given(c, "-serverip")
      BY <3>1, <3>2 DEF LineOK
    <3>3. CASE ~Given(c, "-serverip")
      BY <3>1, <3>3, OptionsAssumption DEF ArgValue
    <3> QED BY <3>2, <3>3
  <2>3. Readable(c) <=> Readable(s)
    BY <2>1, <2>2 DEF Readable
  <2> DEFINE connection == ConnectionOf(ArgValue(c, "-connection"))
             metric == MetricOf(ArgValue(c, "-metric"))
             size == Number[ArgValue(c, "-datasize")] % SizeMax
  <2>4. CASE ~Readable(c)
    BY <2>3, <2>4 DEF Started
  <2>5. CASE Readable(c) /\ connection = "rpc"
    BY <2>1, <2>3, <2>5 DEF Started
  <2>6. CASE Readable(c) /\ connection # "rpc"
    <3>1. /\ Started(c) = [kind |-> "client", connection |-> connection, metric |-> metric, data_size |-> size]
          /\ Started(s) = [kind |-> "server", connection |-> connection, metric |-> metric, data_size |-> size]
      BY <2>1, <2>3, <2>6 DEF Started
    <3> HIDE DEF connection, metric, size
    <3> QED BY <3>1
  <2> QED BY <2>4, <2>5, <2>6
<1> QED BY <1>1, LinesInvariance, PTL
=============================================================================
