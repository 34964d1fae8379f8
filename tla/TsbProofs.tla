----------------------------- MODULE TsbProofs -----------------------------
(***************************************************************************)
(* Theorems about Tsb, for every set of images, page size, size of the     *)
(* flash and number of boots.                                              *)
(*                                                                         *)
(* Nothing in a byte says which installation, or which page, it belongs    *)
(* to.  The invariant says why an answer is nevertheless the answer to the *)
(* last question: the bootloader is woken at most once after each Connect, *)
(* and from then on either side waits for the other.                       *)
(***************************************************************************)
EXTENDS Tsb, SeqLemmas

\* A step of an installation that has the right page size, or none yet.
SizedStep == Sized /\ Sized'

-----------------------------------------------------------------------------
(* The invariant *)

InfoByte == {DeviceInfo[1], DeviceInfo[2], CONFIRM, REQUEST}

\* How far writeFlash has come, and what the bootloader keeps of a page.
TypeInv == /\ TypeOK
           /\ received \in Seq(Byte)
           /\ flash \in [0..(Capacity - 1) -> Seq(Byte \cup {Old})]
           /\ host = "info" => page = 0 /\ Sized
           /\ host = "request" => page < Pages
           /\ host \in {"programmed", "confirm"} => page = Pages
           /\ boot \in {"listening", "page"} \/ received = <<>>
           /\ boot = "page" => Len(received) < PageSize
           /\ boot = "listening" => /\ Len(received) < Len(Wake)
                                    /\ \A i \in DOMAIN received : received[i] = Wake[1]
           /\ result # 0 => host = "done"

\* A bootloader that listens is not woken by the bytes of a page and then told by
\* the same page to write.
ListenInv == boot = "listening" => Calm(received \o toBoot)

\* A CPU1 that is not reset is woken once, by the first bytes it receives.
WakeInv == boot = "listening" /\ ~Restarts =>
  host \in {"off", "info", "done"} /\ toHost = <<>> /\ result = 0

\* CPU1 was reset and nothing has been sent to it since.
Fresh == boot = "listening" /\ received = <<>> /\ toBoot = <<>>

\* A device info is an answer to the wake-up of this boot.
InfoInv == host = "info" =>
  /\ boot = "listening" /\ toHost # <<>> => Fresh
  /\ Contains(toHost, DeviceInfo[1]) =>
       /\ ~Contains(toHost, REQUEST)
       /\ Fresh \/ (boot \in {"command", "app"} /\ ~Contains(toBoot, WRITE_FLASH))

\* The first pages of the image are in CPU1.
FlashOk(pages) == \A p \in DOMAIN flash : p < pages => flash[p] = PageBytes(p)

\* A request that is on its way is the last answer to what has been sent.
AskedInv == host \in {"request", "programmed"} /\ Contains(toHost, REQUEST) =>
  /\ \A i \in DOMAIN toHost : toHost[i] = REQUEST => i = Len(toHost)
  /\ \/ Fresh
     \/ boot = "writing" /\ toBoot = <<>> /\ address = page /\ FlashOk(page)

\* Without one the bootloader has the page whole, or will never ask for another.
UnaskedInv == host \in {"request", "programmed"} /\ ~Contains(toHost, REQUEST) =>
  /\ boot = "command" => \A i \in DOMAIN toBoot :
                           toBoot[i] = WRITE_FLASH => page = 0 /\ i = Len(toBoot)
  /\ boot = "writing" => \/ /\ page > 0 /\ address = page - 1 /\ FlashOk(page - 1)
                            /\ toBoot = <<CONFIRM>> \o PageBytes(page - 1)
                         \/ Len(toBoot) <= PageSize /\ Ended(toBoot)
  /\ boot = "page" => \/ /\ page > 0 /\ address = page - 1 /\ FlashOk(page - 1)
                         /\ received \o toBoot = PageBytes(page - 1)
                      \/ Len(received) + Len(toBoot) < PageSize

\* The bootloader confirms the end only with all the pages in CPU1.
ConfirmInv == host = "confirm" =>
  /\ toHost \in {<<>>, <<CONFIRM>>}
  /\ boot = "writing" => toHost = <<>> /\ (toBoot = <<>> \/ (toBoot = <<REQUEST>> /\ FlashOk(page)))
  /\ boot # "writing" => boot \in {"listening", "command", "app"} /\ received = <<>>
  /\ boot = "listening" => toBoot \in {<<>>, <<REQUEST>>}
  /\ boot \in {"command", "app"} => toBoot = <<>>
  /\ toHost # <<>> => toBoot = <<>> /\ FlashOk(page)

\* Nothing on the line after that makes the bootloader write again.
DoneInv == result # 0 =>
  /\ boot \in {"listening", "command", "app"} /\ received = <<>>
  /\ toBoot \in {<<>>, <<RUN>>}
  /\ FlashOk(Pages)

Inv == ListenInv /\ InfoInv /\ AskedInv /\ UnaskedInv /\ ConfirmInv /\ DoneInv

\* The bytes that may wake CPU1 or tell it to write stand in the order of the first bytes
\* of an image, or are the command of this boot.
Steers(b) == b \in {WRITE_FLASH, Wake[1]}

Placed(s, length, whole) ==
  \E f \in [DOMAIN s -> Nat] :
    /\ \A i \in DOMAIN s : Steers(s[i]) =>
         \/ f[i] \in 1..length /\ s[i] = whole[f[i]]
         \/ f[i] = 0 /\ s[i] = WRITE_FLASH
    /\ \A i, j \in DOMAIN s : i < j /\ Steers(s[i]) /\ Steers(s[j]) => f[i] < f[j]

\* With a wrong page size CPU1 may be reset with more than one page still to be asked for.
SentInv == boot = "listening" /\ host = "request" /\ ~Sized =>
             Placed(received \o toBoot, page * page_size, Whole(image, page_size))

\* What holds with every page size, and what with the right one.
AnyInv == ListenInv /\ InfoInv /\ SentInv
SizedInv == Sized => Inv

-----------------------------------------------------------------------------
(* Bytes on the line *)

\* What does not occur in a sequence, or not in that order, does not in what is left.
LEMMA SubKeeps ==
  ASSUME NEW S, NEW s \in Seq(S), NEW t \in Seq(S), Sub(s, t)
  PROVE  /\ Calm(t) => Calm(s)
         /\ Ended(t) => Ended(s)
         /\ \A x : Contains(s, x) => Contains(t, x)
<1>1. PICK f \in [DOMAIN s -> DOMAIN t] :
             /\ \A i, j \in DOMAIN s : i < j => f[i] < f[j]
             /\ \A i \in DOMAIN s : s[i] = t[f[i]]
  BY DEF Sub
<1>2. DOMAIN s = 1..Len(s) /\ DOMAIN t = 1..Len(t) /\ Len(s) \in Nat /\ Len(t) \in Nat
  OBVIOUS
<1>3. ASSUME NEW d \in DOMAIN s, NEW a \in 1..(d - 1)
      PROVE  a \in DOMAIN s /\ f[d] \in DOMAIN t /\ f[a] \in 1..(f[d] - 1)
  <2>1. a \in DOMAIN s /\ a < d
    BY <1>2
  <2>2. f[a] < f[d] /\ f[a] \in DOMAIN t /\ f[d] \in DOMAIN t
    BY <1>1, <2>1
  <2> QED  BY <1>2, <2>1, <2>2
<1>4. ASSUME Calm(t), NEW d \in DOMAIN s, s[d] = WRITE_FLASH,
             NEW a \in 1..(d - 1), NEW b \in 1..(d - 1), NEW c \in 1..(d - 1),
             a < b, b < c, s[a] = Wake[1], s[b] = Wake[1], s[c] = Wake[1]
      PROVE  FALSE
  <2>1. f[d] \in DOMAIN t /\ t[f[d]] = WRITE_FLASH
    BY <1>1, <1>4
  <2>2. /\ f[a] \in 1..(f[d] - 1) /\ f[b] \in 1..(f[d] - 1) /\ f[c] \in 1..(f[d] - 1)
        /\ a \in DOMAIN s /\ b \in DOMAIN s /\ c \in DOMAIN s
    BY <1>3
  <2>3. f[a] < f[b] /\ f[b] < f[c]
        /\ t[f[a]] = Wake[1] /\ t[f[b]] = Wake[1] /\ t[f[c]] = Wake[1]
    BY <1>1, <1>4, <2>2
  <2> QED  BY <1>4, <2>1, <2>2, <2>3 DEF Calm
<1>5. ASSUME Ended(t), NEW d \in DOMAIN s, s[d] = WRITE_FLASH,
             NEW a \in 1..(d - 1), s[a] = REQUEST
      PROVE  FALSE
  <2>1. f[d] \in DOMAIN t /\ t[f[d]] = WRITE_FLASH
    BY <1>1, <1>5
  <2>2. f[a] \in 1..(f[d] - 1) /\ a \in DOMAIN s
    BY <1>3
  <2>3. t[f[a]] = REQUEST
    BY <1>1, <1>5, <2>2
  <2> QED  BY <1>5, <2>1, <2>2, <2>3 DEF Ended
<1>6. \A x : Contains(s, x) => Contains(t, x)
  BY <1>1, <1>2 DEF Contains
<1> QED  BY <1>4, <1>5, <1>6 DEF Calm, Ended

\* The bytes of the protocol, and its padding, are bytes.
LEMMA ByteFacts == {Pad, REQUEST, CONFIRM, WRITE_FLASH, RUN, Wake[1]} \subseteq Byte
BY DEF Byte

\* A page is as many bytes as the page size says.
LEMMA PageType ==
  ASSUME NEW bytes \in Seq(Byte), NEW size \in Nat, NEW i \in Nat
  PROVE  Page(bytes, size, i) \in Seq(Byte) /\ Len(Page(bytes, size, i)) = size
<1>1. i * size \in Nat
  OBVIOUS
<1>2. Pad \in Byte
  BY ByteFacts
<1>3. ASSUME NEW k \in 1..size
      PROVE  (IF i * size + k <= Len(bytes) THEN bytes[i * size + k] ELSE Pad) \in Byte
  BY <1>1, <1>2
<1> QED  BY <1>3 DEF Page

\* A number of whole pages.
LEMMA Quotient ==
  ASSUME NEW length \in Nat, NEW size \in Nat \ {0}
  PROVE  length \div size \in Nat
OBVIOUS

\* The number of pages is a positive number.
LEMMA PagesType ==
  ASSUME image \in Seq(Byte), page_size \in Nat \ {0}
  PROVE  Pages \in Nat \ {0}
<1>1. Len(image) \in Nat
  OBVIOUS
<1>2. Len(image) \div page_size \in Nat
  BY <1>1, Quotient
<1> QED  BY <1>2 DEF Pages

-----------------------------------------------------------------------------
(* Type correctness *)

\* A bootloader that listens has less than the wake-up, and one more byte of it
\* completes the wake-up or does not.
LEMMA WakeStep ==
  ASSUME NEW r \in Seq(Byte), Len(r) < Len(Wake), \A i \in DOMAIN r : r[i] = Wake[1],
         Append(r, Wake[1]) # Wake
  PROVE  Len(Append(r, Wake[1])) < Len(Wake)
<1>1. Len(Wake) = 3 /\ Wake \in Seq(Byte) /\ \A i \in 1..3 : Wake[i] = Wake[1]
  BY ByteFacts DEF Wake
<1>2. Wake[1] \in Byte
  BY ByteFacts
<1>3. CASE Len(r) = 2
  <2>1. /\ Append(r, Wake[1]) \in Seq(Byte) /\ Len(Append(r, Wake[1])) = 3
        /\ \A i \in 1..3 : Append(r, Wake[1])[i] = Wake[1]
    <3>1. DOMAIN r = 1..2
      BY <1>3
    <3>2. /\ Append(r, Wake[1]) \in Seq(Byte) /\ Len(Append(r, Wake[1])) = 3
          /\ Append(r, Wake[1])[3] = Wake[1]
          /\ \A i \in 1..2 : Append(r, Wake[1])[i] = r[i]
      <4>1. /\ Append(r, Wake[1]) \in Seq(Byte)
            /\ Len(Append(r, Wake[1])) = Len(r) + 1
            /\ \A i \in 1..Len(r) : Append(r, Wake[1])[i] = r[i]
            /\ Append(r, Wake[1])[Len(r) + 1] = Wake[1]
        BY <1>2, Appended
      <4>2. Len(r) + 1 = 3
        BY <1>3
      <4> QED  BY <1>3, <4>1, <4>2
    <3>3. \A i \in 1..3 : i = 3 \/ i \in 1..2
      OBVIOUS
    <3> QED  BY <3>1, <3>2, <3>3
  <2>2. Append(r, Wake[1]) = Wake
    BY <1>1, <2>1, SeqEqual
  <2> QED  BY <2>2
<1>4. CASE Len(r) # 2
  BY <1>1, <1>2, <1>4
<1> QED  BY <1>3, <1>4

\* What the two sides send are bytes.
LEMMA SentTypes ==
  /\ Wake \in Seq(Byte)
  /\ DeviceInfo \in Seq(InfoByte) /\ Len(DeviceInfo) = 3
  /\ <<REQUEST>> \in Seq(InfoByte) /\ <<CONFIRM>> \in Seq(InfoByte)
  /\ \A bytes \in Seq(Byte) : <<CONFIRM>> \o bytes \in Seq(Byte)
BY ByteFacts DEF Wake, DeviceInfo, InfoByte

\* What the bootloader sends are answers.
LEMMA ReplyType ==
  ASSUME toHost \in Seq(InfoByte), NEW bytes \in {DeviceInfo, <<REQUEST>>, <<CONFIRM>>},
         Reply(bytes) \/ UNCHANGED toHost
  PROVE  toHost' \in Seq(InfoByte)
BY SentTypes, ConcatProperties DEF Reply

\* No step of the firmware, the bootloader or the line breaks the types.
LEMMA TypeStep == TypeInv /\ [Next]_vars => TypeInv'
<1> SUFFICES ASSUME TypeInv, [Next]_vars PROVE TypeInv'
  OBVIOUS
<1> USE SizeAssumption, ImageAssumption DEF TypeInv, TypeOK, Sized, hostVars, bootVars
<1>0. image \in Seq(Byte) /\ page_size \in Nat \ {0} /\ Pages \in Nat \ {0}
      /\ toHost \in Seq(InfoByte)
  BY PagesType DEF InfoByte
<1>1. CASE Connect
  <2>1. Pages' \in Nat \ {0} /\ page_size' = PageSize
    <3>1. image' \in Seq(Byte) /\ page_size' \in Nat \ {0} /\ page_size' = PageSize
      BY <1>0, <1>1 DEF Connect
    <3>2. Len(image') \in Nat
      BY <3>1
    <3>3. Len(image') \div page_size' \in Nat
      BY <3>1, <3>2, Quotient
    <3> QED  BY <3>1, <3>3 DEF Pages
  <2>2. toBoot' \in Seq(Byte)
    BY <1>1, SentTypes DEF Connect
  <2>3. attempts' \in 0..MaxAttempts
    BY <1>1 DEF Connect
  <2>4. page' = 0 /\ host' = "info" /\ result' = 0 /\ toHost' = <<>>
    BY <1>1 DEF Connect, FirstPage
  <2> QED  BY <1>0, <1>1, <2>1, <2>2, <2>3, <2>4 DEF Connect, Waiting
<1>2. ASSUME NEW n \in 1..Len(DeviceInfo), ReadDeviceInfo(n) PROVE TypeInv'
  <2>1. page_size' \in {PageSize} \cup Uninitialised /\ page_size' \in Nat \ {0}
    BY <1>2 DEF ReadDeviceInfo, InfoPageSizes
  <2>2. Pages' \in Nat \ {0}
    <3>1. Len(image) \in Nat
      BY <1>0
    <3>2. Len(image) \div page_size' \in Nat
      BY <2>1, <3>1, Quotient
    <3> HIDE SizeAssumption, ImageAssumption DEF TypeInv, TypeOK
    <3>3. Pages' = (Len(image) \div page_size') + 1
      BY <1>2 DEF ReadDeviceInfo, Pages
    <3>4. \A q \in Nat : q + 1 \in Nat \ {0}
      OBVIOUS
    <3> QED  BY <3>2, <3>3, <3>4
  <2>3. toBoot' \in Seq(Byte) /\ toHost' \in Seq(InfoByte)
    BY <1>0, <1>2, ByteFacts DEF ReadDeviceInfo, InfoBytes
  <2>4. page' = 0 /\ host' = "request"
    BY <1>2 DEF ReadDeviceInfo
  <2> QED  BY SMTT(30), <1>2, <2>1, <2>2, <2>3, <2>4 DEF ReadDeviceInfo, InfoByte, Waiting
<1>3. ASSUME NEW n \in 1..Len(DeviceInfo), WrongDeviceInfo(n) PROVE TypeInv'
  <2>1. toHost' \in Seq(InfoByte)
    BY SMTT(30), <1>0, <1>3 DEF WrongDeviceInfo, InfoBytes
  <2> QED  BY <1>0, <1>3, <2>1 DEF WrongDeviceInfo, Fail, Pages, InfoByte
<1>4. CASE SendPage
  <2>1. toHost' \in Seq(InfoByte)
    BY <1>0, <1>4 DEF SendPage, Answer
  <2>2. PageBytes(page) \in Seq(Byte)
    BY <1>0, PageType DEF PageBytes
  <2>3. <<CONFIRM>> \o PageBytes(page) \in Seq(Byte)
    BY <2>2, SentTypes
  <2>4. toBoot' \in Seq(Byte)
    BY <1>4, <2>3 DEF SendPage
  <2>5. Pages' = Pages
    BY <1>4 DEF SendPage, Pages
  <2>6. page < Pages /\ page' = page + 1
    BY <1>4 DEF SendPage
  <2>7. /\ page' \in 0..Pages'
        /\ \/ host' = "request" /\ page' < Pages'
           \/ host' = "programmed" /\ page' = Pages'
    <3>1. host' = IF page + 1 < Pages THEN "request" ELSE "programmed"
      BY <1>4 DEF SendPage
    <3>2. page + 1 \in 0..Pages
      BY <1>0, <2>6
    <3> HIDE DEF TypeInv, TypeOK
    <3>3. CASE page + 1 < Pages
      BY <2>5, <2>6, <3>1, <3>2, <3>3
    <3>4. CASE ~(page + 1 < Pages)
      <4>1. page + 1 = Pages
        BY <1>0, <3>2, <3>4
      <4> QED  BY <2>5, <2>6, <3>1, <3>2, <3>4, <4>1
    <3> QED  BY <3>3, <3>4
  <2>8. result' = result /\ result = 0
    BY <1>4 DEF SendPage
  <2> QED  BY <1>4, <2>1, <2>4, <2>7, <2>8 DEF SendPage, InfoByte, Waiting
<1>5. CASE SendEnd
  <2>1. toHost' \in Seq(InfoByte)
    BY <1>0, <1>5 DEF SendEnd, Answer
  <2>2. toBoot' \in Seq(Byte)
    BY <1>5, ByteFacts DEF SendEnd
  <2>3. Pages' = Pages
    BY <1>5 DEF SendEnd, Pages
  <2> QED  BY <1>5, <2>1, <2>2, <2>3 DEF SendEnd, InfoByte, Waiting
<1>6. CASE Written
  <2>1. toHost' \in Seq(InfoByte)
    BY <1>0, <1>6 DEF Written, Answer
  <2>2. toBoot' \in Seq(Byte)
    BY <1>6, ByteFacts DEF Written
  <2>3. Pages' = Pages
    BY <1>6 DEF Written, Pages
  <2> QED  BY <1>6, <2>1, <2>2, <2>3 DEF Written, InfoByte, Waiting
<1>7. CASE WrongAnswer
  <2>1. toHost' \in Seq(InfoByte)
    BY <1>0, <1>7 DEF WrongAnswer
  <2> QED  BY <1>0, <1>7, <2>1 DEF WrongAnswer, Fail, Pages, InfoByte
<1>8. CASE Timeout
  BY <1>0, <1>8 DEF Timeout, Fail, Pages
<1>9. CASE PowerOff
  BY <1>0, <1>9 DEF PowerOff, Pages
<1>10. CASE Reset
  BY <1>0, <1>10 DEF Reset, Pages, Wake
<1>11. ASSUME NEW k \in 1..Len(toBoot), LoseToBoot(k) PROVE TypeInv'
  <2>1. toBoot' \in Seq(Byte)
    BY <1>11, RemoveFacts DEF LoseToBoot
  <2> QED  BY <1>0, <1>11, <2>1 DEF LoseToBoot, Pages
<1>12. ASSUME NEW k \in 1..Len(toHost), LoseToHost(k) PROVE TypeInv'
  <2>1. toHost' \in Seq(InfoByte)
    BY <1>0, <1>12, RemoveFacts DEF LoseToHost
  <2> QED  BY <1>0, <1>12, <2>1 DEF LoseToHost, Pages, InfoByte
<1>13. ASSUME NEW b \in Byte, Listen(b) PROVE TypeInv'
  <2>1. toBoot' \in Seq(Byte) /\ Pages' = Pages /\ b \in Byte
    BY <1>13 DEF Listen, Receive, Pages
  <2>2. toHost' \in Seq(InfoByte)
    BY <1>0, <1>13, ReplyType DEF Listen
  <2>3. CASE Append(received, b) = Wake
    BY <1>0, <1>13, <2>1, <2>2, <2>3 DEF Listen, Receive, InfoByte
  <2>4. CASE Append(received, b) # Wake /\ b # Wake[1]
    <3>1. received' = <<>> /\ boot' = "listening"
      BY <1>13, <2>4 DEF Listen, Receive
    <3> QED  BY <1>0, <1>13, <2>1, <2>2, <3>1 DEF Listen, Receive, InfoByte, Wake
  <2>5. CASE Append(received, b) # Wake /\ b = Wake[1]
    <3>1. received' = Append(received, Wake[1]) /\ boot' = "listening" /\ boot = "listening"
      BY <1>13, <2>5 DEF Listen, Receive
    <3>2. received' \in Seq(Byte) /\ Len(received') < Len(Wake)
          /\ \A i \in DOMAIN received' : received'[i] = Wake[1]
      BY <2>1, <2>5, <3>1, WakeStep
    <3> QED  BY <1>0, <1>13, <2>1, <2>2, <3>1, <3>2 DEF Listen, Receive, InfoByte
  <2> QED  BY <2>3, <2>4, <2>5
<1>14. ASSUME NEW b \in Byte, ObeyCommand(b) PROVE TypeInv'
  <2>1. toBoot' \in Seq(Byte) /\ Pages' = Pages
    BY <1>14 DEF ObeyCommand, Receive, Pages
  <2>2. toHost' \in Seq(InfoByte)
    BY <1>0, <1>14, ReplyType DEF ObeyCommand
  <2>3. boot = "command" /\ boot' \in {"writing", "app", "command"} /\ address' \in Nat
    BY <1>14 DEF ObeyCommand, Receive
  <2> QED  BY <1>0, <1>14, <2>1, <2>2, <2>3 DEF ObeyCommand, Receive, InfoByte
<1>15. ASSUME NEW b \in Byte, AwaitPage(b) PROVE TypeInv'
  <2>1. toBoot' \in Seq(Byte) /\ Pages' = Pages
    BY <1>15 DEF AwaitPage, Receive, Pages
  <2>2. toHost' \in Seq(InfoByte)
    BY <1>0, <1>15, ReplyType DEF AwaitPage
  <2>3. boot = "writing" /\ boot' \in {"writing", "page", "command"}
    BY <1>15 DEF AwaitPage, Receive
  <2>4. received' = <<>> /\ Len(received') < PageSize
    BY <1>15, <2>3 DEF AwaitPage, Receive
  <2> QED  BY <1>0, <1>15, <2>1, <2>2, <2>3, <2>4 DEF AwaitPage, Receive, InfoByte
<1>16. ASSUME NEW b \in Byte, ReceivePage(b) PROVE TypeInv'
  <2>1. toBoot' \in Seq(Byte) /\ Pages' = Pages /\ boot = "page"
    BY <1>16 DEF ReceivePage, Receive, Pages
  <2>2. Append(received, b) \in Seq(Byte) /\ Len(Append(received, b)) = Len(received) + 1
    OBVIOUS
  <2>3. CASE Len(received) + 1 < PageSize
    BY <1>0, <1>16, <2>1, <2>2, <2>3 DEF ReceivePage, Receive
  <2>4. CASE ~(Len(received) + 1 < PageSize)
    <3>1. Len(Append(received, b)) = PageSize
      BY <2>1, <2>2, <2>4
    <3>2. Append(received, b) \in Seq(Byte \cup {Old})
      BY <2>2
    <3>3. flash' = [p \in DOMAIN flash |-> IF p = address THEN Append(received, b) ELSE flash[p]]
      BY <1>16, <2>4 DEF ReceivePage
    <3>4. /\ flash' \in [0..(Capacity - 1) -> Seq(Byte \cup {Old})]
          /\ \A p \in DOMAIN flash' : Len(flash'[p]) = PageSize
      BY <3>1, <3>2, <3>3
    <3>5. toHost' \in Seq(InfoByte)
      BY <1>0, <1>16, <2>4, ReplyType DEF ReceivePage
    <3>6. received' = <<>> /\ address' = address + 1 /\ boot' = "writing"
      BY <1>16, <2>4 DEF ReceivePage
    <3> QED  BY <1>0, <1>16, <2>1, <3>4, <3>5, <3>6 DEF ReceivePage, Receive, InfoByte
  <2> QED  BY <2>3, <2>4
<1>17. ASSUME NEW b \in Byte, RunApp(b) PROVE TypeInv'
  BY <1>0, <1>17 DEF RunApp, Receive, Pages
<1>18. CASE UNCHANGED vars
  BY <1>0, <1>18 DEF vars, Pages
<1> QED
  BY <1>1, <1>2, <1>3, <1>4, <1>5, <1>6, <1>7, <1>8, <1>9, <1>10, <1>11, <1>12, <1>13,
     <1>14, <1>15, <1>16, <1>17, <1>18
  DEF Next, Host, Boot, Lose

\* The initial states have their types.
LEMMA InitType == Init => TypeInv
<1> SUFFICES ASSUME Init PROVE TypeInv
  OBVIOUS
<1> USE SizeAssumption, ImageAssumption DEF Init
<1>1. Pages \in Nat \ {0}
  BY PagesType
<1>2. [k \in 1..PageSize |-> Old] \in Seq(Byte \cup {Old})
      /\ Len([k \in 1..PageSize |-> Old]) = PageSize
  OBVIOUS
<1> QED  BY <1>1, <1>2 DEF TypeInv, TypeOK, Sized, Wake

\* Whatever is lost or late, the firmware and the bootloader keep within their types:
\* no page is sent beyond the last, and nothing but whole pages is written.
THEOREM TypeCorrect == Spec => []TypeOK
<1>1. TypeInv => TypeOK
  BY DEF TypeInv
<1> QED  BY <1>1, InitType, TypeStep, PTL DEF Spec

-----------------------------------------------------------------------------
(* What is sent, and what is left of it *)

\* The bytes that mean something are told apart.
LEMMA Distinct ==
  /\ WRITE_FLASH # Wake[1] /\ WRITE_FLASH # REQUEST /\ WRITE_FLASH # CONFIRM
  /\ WRITE_FLASH # RUN /\ REQUEST # CONFIRM /\ CONFIRM # Wake[1]
  /\ REQUEST # Wake[1] /\ RUN # REQUEST /\ RUN # Wake[1] /\ RUN # CONFIRM
  /\ DeviceInfo[1] # REQUEST /\ DeviceInfo[1] # CONFIRM
  /\ \A i \in 1..3 : DeviceInfo[i] # REQUEST
BY DEF WRITE_FLASH, Wake, REQUEST, CONFIRM, RUN, DeviceInfo

\* Bytes that are no command to write may follow anything.
LEMMA CalmGlue ==
  ASSUME NEW s \in Seq(Byte), NEW t \in Seq(Byte), Calm(s), ~Contains(t, WRITE_FLASH)
  PROVE  Calm(s \o t)
<1>1. /\ DOMAIN s = 1..Len(s) /\ Len(s) \in Nat /\ Len(t) \in Nat
      /\ DOMAIN (s \o t) = 1..(Len(s) + Len(t))
  BY Glued
<1> SUFFICES ASSUME NEW d \in DOMAIN (s \o t), (s \o t)[d] = WRITE_FLASH,
                    NEW a \in 1..(d - 1), NEW b \in 1..(d - 1), NEW c \in 1..(d - 1),
                    a < b, b < c, (s \o t)[a] = Wake[1], (s \o t)[b] = Wake[1],
                    (s \o t)[c] = Wake[1]
             PROVE  FALSE
  BY DEF Calm
<1>2. CASE d \in 1..Len(s)
  <2>1. a \in 1..Len(s) /\ b \in 1..Len(s) /\ c \in 1..Len(s)
    BY <1>1, <1>2
  <2>2. s[d] = WRITE_FLASH /\ s[a] = Wake[1] /\ s[b] = Wake[1] /\ s[c] = Wake[1]
    BY <1>2, <2>1, Glued
  <2> QED  BY <1>1, <1>2, <2>2 DEF Calm
<1>3. CASE d \in (Len(s) + 1)..(Len(s) + Len(t))
  <2>1. (s \o t)[d] = t[d - Len(s)]
    BY <1>3, Glued
  <2>2. d - Len(s) \in 1..Len(t)
    BY <1>1, <1>3
  <2> QED  BY <2>1, <2>2 DEF Contains
<1> QED  BY <1>1, <1>2, <1>3

\* An answer adds nothing but itself to the line.
LEMMA NotAnswered ==
  ASSUME toHost \in Seq(InfoByte), NEW bytes \in Seq(InfoByte), NEW x,
         ~Contains(toHost, x), ~Contains(bytes, x), toHost' = toHost \/ Reply(bytes)
  PROVE  ~Contains(toHost', x)
<1>1. ~Contains(toHost \o bytes, x)
  BY ContainsGlue
<1>2. toHost' = toHost \/ toHost' = toHost \o bytes
  BY DEF Reply
<1> QED  BY <1>1, <1>2

\* The CONFIRM before a page is no command.
LEMMA PageCall ==
  ASSUME NEW bytes \in Seq(Byte)
  PROVE  /\ Calm(bytes) => Calm(<<CONFIRM>> \o bytes)
         /\ Ended(bytes) => Ended(<<CONFIRM>> \o bytes)
<1> DEFINE s == <<CONFIRM>> \o bytes
<1>1. /\ DOMAIN bytes = 1..Len(bytes) /\ Len(bytes) \in Nat
      /\ DOMAIN s = 1..(1 + Len(bytes)) /\ s[1] = CONFIRM
      /\ \A i \in 2..(1 + Len(bytes)) : s[i] = bytes[i - 1]
  <2>1. <<CONFIRM>> \in Seq(Byte) /\ Len(<<CONFIRM>>) = 1 /\ <<CONFIRM>>[1] = CONFIRM
    BY ByteFacts
  <2>2. /\ s \in Seq(Byte) /\ Len(s) = Len(<<CONFIRM>>) + Len(bytes)
        /\ \A i \in 1..Len(<<CONFIRM>>) : s[i] = <<CONFIRM>>[i]
        /\ \A i \in (Len(<<CONFIRM>>) + 1)..(Len(<<CONFIRM>>) + Len(bytes)) :
             s[i] = bytes[i - Len(<<CONFIRM>>)]
    BY <2>1, Glued
  <2> HIDE DEF s
  <2> QED  BY <2>1, <2>2
<1> HIDE DEF s
<1>2. ASSUME NEW d \in DOMAIN s, s[d] # CONFIRM
      PROVE  d - 1 \in DOMAIN bytes /\ s[d] = bytes[d - 1]
  BY <1>1, <1>2
<1>3. ASSUME Calm(bytes), NEW d \in DOMAIN s, s[d] = WRITE_FLASH,
             NEW a \in 1..(d - 1), NEW b \in 1..(d - 1), NEW c \in 1..(d - 1),
             a < b, b < c, s[a] = Wake[1], s[b] = Wake[1], s[c] = Wake[1]
      PROVE  FALSE
  <2>1. d \in DOMAIN s /\ a \in DOMAIN s /\ b \in DOMAIN s /\ c \in DOMAIN s
    BY <1>1
  <2>2. /\ d - 1 \in DOMAIN bytes /\ bytes[d - 1] = WRITE_FLASH
        /\ a - 1 \in DOMAIN bytes /\ bytes[a - 1] = Wake[1]
        /\ b - 1 \in DOMAIN bytes /\ bytes[b - 1] = Wake[1]
        /\ c - 1 \in DOMAIN bytes /\ bytes[c - 1] = Wake[1]
    BY <1>2, <1>3, <2>1, Distinct
  <2>3. /\ a - 1 < b - 1 /\ b - 1 < c - 1
        /\ a - 1 \in 1..((d - 1) - 1) /\ b - 1 \in 1..((d - 1) - 1) /\ c - 1 \in 1..((d - 1) - 1)
    BY <1>1, <1>3, <2>2
  <2> QED  BY <1>3, <2>2, <2>3 DEF Calm
<1>4. ASSUME Ended(bytes), NEW d \in DOMAIN s, s[d] = WRITE_FLASH, NEW a \in 1..(d - 1), s[a] = REQUEST
      PROVE  FALSE
  <2>1. d \in DOMAIN s /\ a \in DOMAIN s
    BY <1>1
  <2>2. /\ d - 1 \in DOMAIN bytes /\ bytes[d - 1] = WRITE_FLASH
        /\ a - 1 \in DOMAIN bytes /\ bytes[a - 1] = REQUEST
    BY <1>2, <1>4, <2>1, Distinct
  <2>3. a - 1 \in 1..((d - 1) - 1)
    BY <1>1, <1>4, <2>2
  <2> QED  BY <1>4, <2>2, <2>3 DEF Ended
<1> QED  BY <1>3, <1>4 DEF Calm, Ended, s

\* What the types say, whatever the page size.
LEMMA AnyFacts ==
  ASSUME TypeInv
  PROVE  /\ image \in Images /\ image \in Seq(Byte) /\ Len(image) \in Nat
         /\ page_size \in Nat \ {0} /\ PageSize \in Nat \ {0}
         /\ Pages \in Nat \ {0} /\ page \in 0..Pages
         /\ toBoot \in Seq(Byte) /\ toHost \in Seq(InfoByte) /\ received \in Seq(Byte)
         /\ Len(toBoot) \in Nat /\ Len(toHost) \in Nat /\ Len(received) \in Nat
         /\ DOMAIN toBoot = 1..Len(toBoot) /\ DOMAIN toHost = 1..Len(toHost)
<1> USE SizeAssumption, ImageAssumption DEF TypeInv, TypeOK
<1>1. /\ image \in Seq(Byte) /\ image \in Images
      /\ page_size \in Nat \ {0} /\ PageSize \in Nat \ {0}
  OBVIOUS
<1>2. Pages \in Nat \ {0}
  BY <1>1, PagesType
<1>3. toHost \in Seq(InfoByte)
  BY DEF InfoByte
<1> QED  BY <1>1, <1>2, <1>3

\* What they say of an installation with the right one.
LEMMA Facts ==
  ASSUME SizedStep, TypeInv
  PROVE  /\ image \in Images /\ image \in Seq(Byte) /\ Len(image) \in Nat
         /\ page_size = PageSize /\ PageSize \in Nat \ {0}
         /\ Pages \in Nat \ {0} /\ page \in 0..Pages
         /\ toBoot \in Seq(Byte) /\ toHost \in Seq(InfoByte) /\ received \in Seq(Byte)
         /\ Len(toBoot) \in Nat /\ Len(toHost) \in Nat /\ Len(received) \in Nat
         /\ DOMAIN toBoot = 1..Len(toBoot) /\ DOMAIN toHost = 1..Len(toHost)
BY AnyFacts DEF SizedStep, Sized

\* A page that the firmware sends.
LEMMA PageFacts ==
  ASSUME SizedStep, TypeInv, NEW p \in 0..(Pages - 1)
  PROVE  PageBytes(p) \in Seq(Byte) /\ Len(PageBytes(p)) = PageSize
<1>1. page_size = PageSize /\ PageSize \in Nat \ {0} /\ image \in Seq(Byte) /\ Pages \in Nat \ {0}
  BY Facts
<1>2. p \in Nat /\ PageSize \in Nat
  BY <1>1
<1> QED  BY <1>1, <1>2, PageType DEF PageBytes

\* The bytes of a plain page, with the CONFIRM before them, are taken for no command to
\* write, as far as anything may go wrong.
LEMMA PagePlain ==
  ASSUME SizedStep, PlainImages, TypeInv, NEW p \in 0..(Pages - 1)
  PROVE  /\ Restarts => Calm(<<CONFIRM>> \o PageBytes(p))
         /\ Drops => Ended(<<CONFIRM>> \o PageBytes(p))
<1>1. page_size = PageSize /\ PageSize \in Nat \ {0}
      /\ image \in Images /\ Len(image) \in Nat /\ Pages \in Nat \ {0}
  BY Facts
<1>2. p \in 0..(Len(image) \div PageSize)
  <2>1. Len(image) \div PageSize \in Nat
    BY <1>1, Quotient
  <2> QED  BY <1>1, <2>1 DEF Pages
<1>3. Plain(PageBytes(p))
  BY <1>1, <1>2 DEF PlainImages, PlainImage, PageBytes
<1>4. PageBytes(p) \in Seq(Byte)
  BY PageFacts
<1> QED  BY <1>3, <1>4, PageCall DEF Plain

\* The pages stay what they are.
LEMMA SamePages ==
  ASSUME SizedStep, TypeInv, TypeInv', image' = image
  PROVE  page_size' = page_size /\ Pages' = Pages
<1>1. page_size' = page_size
  BY DEF SizedStep, Sized
<1> QED  BY <1>1 DEF Pages

-----------------------------------------------------------------------------
(* The steps of the firmware *)

\* Nothing is asked for any more.
LEMMA StoppedInv ==
  ASSUME Inv, UNCHANGED <<toBoot, bootVars>>, host' \in {"off", "done"}, result' = 0
  PROVE  Inv'
<1>1. ListenInv'
  <2>1. boot' = boot /\ received' = received /\ toBoot' = toBoot
    BY DEF bootVars
  <2> QED  BY <2>1 DEF Inv, ListenInv
<1>2. InfoInv' /\ AskedInv' /\ UnaskedInv' /\ ConfirmInv' /\ DoneInv'
  BY DEF InfoInv, AskedInv, UnaskedInv, ConfirmInv, DoneInv
<1> QED  BY <1>1, <1>2 DEF Inv

\* A boot starts over, whatever is still on the line.
LEMMA ConnectInv ==
  ASSUME TypeInv, ListenInv, Connect
  PROVE  Inv'
<1>1. ListenInv'
  <2>1. received \in Seq(Byte) /\ toBoot \in Seq(Byte) /\ Wake \in Seq(Byte)
    BY AnyFacts, SentTypes
  <2>2. ~Contains(Wake, WRITE_FLASH)
    BY DEF Contains, Wake, WRITE_FLASH
  <2>3. boot' = boot /\ received' = received /\ toBoot' = toBoot \o Wake
    BY DEF Connect, bootVars
  <2>4. received' \o toBoot' = (received \o toBoot) \o Wake
    BY SMTT(30), <2>1, <2>3, ConcatAssociative
  <2>5. received \o toBoot \in Seq(Byte)
    BY <2>1, Glued
  <2>6. boot = "listening" => Calm((received \o toBoot) \o Wake)
    BY <2>1, <2>2, <2>5, CalmGlue DEF ListenInv
  <2> QED  BY <2>3, <2>4, <2>6 DEF ListenInv
<1>2. toHost' = <<>> /\ host' = "info" /\ result' = 0
  BY DEF Connect
<1>3. InfoInv'
  BY <1>2, NothingIn DEF InfoInv
<1>4. AskedInv' /\ UnaskedInv' /\ ConfirmInv' /\ DoneInv'
  BY <1>2 DEF AskedInv, UnaskedInv, ConfirmInv, DoneInv
<1> QED  BY <1>1, <1>3, <1>4 DEF Inv

\* The device info names the page size, and nothing has been asked for yet.
LEMMA ReadInv ==
  ASSUME SizedStep, TypeInv, Inv, NEW n \in 1..Len(DeviceInfo), ReadDeviceInfo(n)
  PROVE  Inv'
<1>1. /\ host = "info" /\ n <= Len(toHost) /\ toHost[1] = DeviceInfo[1]
      /\ toHost' = SubSeq(toHost, n + 1, Len(toHost))
      /\ toBoot' = Append(toBoot, WRITE_FLASH)
      /\ host' = "request" /\ boot' = boot /\ received' = received /\ result' = result
      /\ page' = page
  BY DEF ReadDeviceInfo, InfoBytes, bootVars
<1>2. toHost \in Seq(InfoByte) /\ toBoot \in Seq(Byte) /\ Len(toHost) \in Nat
      /\ Len(toBoot) \in Nat /\ WRITE_FLASH \in Byte /\ n \in Nat \ {0}
  BY Facts, ByteFacts, SentTypes
<1>3. toHost # <<>> /\ Contains(toHost, DeviceInfo[1])
  BY <1>1, <1>2 DEF Contains
<1>4. /\ ~Contains(toHost, REQUEST)
      /\ boot = "listening" => Fresh
      /\ Fresh \/ (boot \in {"command", "app"} /\ ~Contains(toBoot, WRITE_FLASH))
  BY <1>1, <1>3 DEF Inv, InfoInv
<1>5. ListenInv'
  <2> SUFFICES ASSUME boot = "listening" PROVE Calm(received' \o toBoot')
    BY <1>1 DEF ListenInv
  <2>1. received' = <<>> /\ toBoot' = <<WRITE_FLASH>>
    BY <1>1, <1>4 DEF Fresh
  <2>2. received' \o toBoot' = <<WRITE_FLASH>>
    BY <2>1
  <2> QED  BY <2>2 DEF Calm
<1>6. ~Contains(toHost', REQUEST)
  <2>1. ASSUME NEW i \in 1..Len(toHost') PROVE toHost'[i] # REQUEST
    <3>1. Len(toHost') = Len(toHost) - n /\ \A j \in 1..(Len(toHost) - n) : toHost'[j] = toHost[n + j]
      BY <1>1, <1>2
    <3>2. n + i \in 1..Len(toHost) /\ toHost'[i] = toHost[n + i]
      BY <1>1, <1>2, <2>1, <3>1
    <3> QED  BY <1>4, <3>2 DEF Contains
  <2> QED  BY <2>1 DEF Contains
<1>7. InfoInv' /\ AskedInv' /\ ConfirmInv'
  BY <1>1, <1>6 DEF InfoInv, AskedInv, ConfirmInv
<1>8. UnaskedInv'
  <2>1. boot \notin {"writing", "page"} /\ page = 0
    BY <1>1, <1>4 DEF Fresh, TypeInv
  <2>2. ASSUME boot = "command", NEW i \in DOMAIN toBoot', toBoot'[i] = WRITE_FLASH
        PROVE  i = Len(toBoot')
    <3>1. /\ Len(toBoot') = Len(toBoot) + 1 /\ DOMAIN toBoot' = 1..(Len(toBoot) + 1)
          /\ \A j \in 1..Len(toBoot) : toBoot'[j] = toBoot[j]
      BY <1>1, <1>2, Appended
    <3>2. ~Contains(toBoot, WRITE_FLASH)
      BY <1>4, <2>2 DEF Fresh
    <3>3. i \notin 1..Len(toBoot)
      BY <2>2, <3>1, <3>2 DEF Contains
    <3> QED  BY <1>2, <2>2, <3>1, <3>3
  <2> QED  BY <1>1, <2>1, <2>2 DEF UnaskedInv
<1>9. DoneInv'
  BY <1>1 DEF DoneInv, TypeInv
<1> QED  BY <1>5, <1>7, <1>8, <1>9 DEF Inv

\* A request that is read is the last byte there is, and CPU1 waits for the next page.
LEMMA Requested ==
  ASSUME SizedStep, TypeInv, Inv, host \in {"request", "programmed"}, Answer(REQUEST)
  PROVE  /\ Tail(toHost) = <<>>
         /\ \/ Fresh
            \/ boot = "writing" /\ toBoot = <<>> /\ address = page /\ FlashOk(page)
<1>1. toHost \in Seq(InfoByte) /\ toHost # <<>> /\ Head(toHost) = REQUEST
  BY Facts DEF Answer
<1>2. toHost[1] = REQUEST /\ 1 \in 1..Len(toHost) /\ DOMAIN toHost = 1..Len(toHost)
  BY <1>1, TailFacts
<1>3. Contains(toHost, REQUEST)
  BY <1>2 DEF Contains
<1>4. 1 = Len(toHost)
  BY <1>2, <1>3 DEF Inv, AskedInv
<1>5. Tail(toHost) = <<>>
  BY <1>1, <1>4, AtMostOne
<1> QED  BY <1>3, <1>5 DEF Inv, AskedInv

\* A page is sent when the one before it is in CPU1.
LEMMA SendPageInv ==
  ASSUME SizedStep, PlainImages, TypeInv, TypeInv', WakeInv, Inv, SendPage
  PROVE  Inv'
<1> DEFINE bytes == <<CONFIRM>> \o PageBytes(page)
<1>1. /\ host = "request" /\ Answer(REQUEST) /\ toHost' = Tail(toHost)
      /\ toBoot' = toBoot \o bytes /\ page' = page + 1
      /\ host' \in {"request", "programmed"} /\ result' = result /\ image' = image
      /\ boot' = boot /\ received' = received /\ address' = address /\ flash' = flash
  BY DEF SendPage, bootVars
<1>2. toHost' = <<>> /\ (Fresh \/ (boot = "writing" /\ toBoot = <<>> /\ address = page /\ FlashOk(page)))
  BY <1>1, Requested
<1>3. page \in 0..(Pages - 1) /\ page' - 1 = page /\ page' > 0
  <2>1. page \in 0..Pages /\ Pages \in Nat /\ page < Pages
    BY <1>1, Facts DEF TypeInv
  <2> QED  BY <1>1, <2>1
<1>4. PageBytes(page) \in Seq(Byte) /\ bytes \in Seq(Byte) /\ (Restarts => Calm(bytes))
  BY <1>3, PageFacts, PagePlain, SentTypes
<1> HIDE DEF bytes
<1>5. toBoot' = bytes
  BY <1>1, <1>2, <1>4, ConcatEmptySeq DEF Fresh
<1>6. ListenInv'
  <2> SUFFICES ASSUME boot = "listening" PROVE Calm(received' \o toBoot')
    BY <1>1 DEF ListenInv
  <2>1. received' \o toBoot' = bytes
    BY <1>1, <1>2, <1>4, <1>5, ConcatEmptySeq DEF Fresh
  <2>2. Restarts
    BY <1>1 DEF WakeInv
  <2> QED  BY <1>4, <2>1, <2>2
<1>7. UnaskedInv'
  <2>1. CASE Fresh
    BY <1>1, <2>1 DEF UnaskedInv, Fresh
  <2>2. CASE boot = "writing" /\ address = page /\ FlashOk(page)
    <3>1. page_size' = page_size
      BY <1>1, SamePages
    <3>2. toBoot' = <<CONFIRM>> \o PageBytes(page - 1)'
      BY <1>1, <1>3, <1>5, <3>1 DEF PageBytes, bytes
    <3>3. FlashOk(page - 1)'
      BY <1>1, <1>3, <2>2, <3>1 DEF FlashOk, PageBytes
    <3> QED  BY <1>1, <1>3, <2>2, <3>2, <3>3 DEF UnaskedInv
  <2> QED  BY <1>2, <2>1, <2>2
<1>8. ~Contains(toHost', REQUEST)
  BY <1>2, NothingIn
<1>9. InfoInv' /\ AskedInv' /\ ConfirmInv'
  BY <1>1, <1>8 DEF InfoInv, AskedInv, ConfirmInv
<1>10. DoneInv'
  BY <1>1 DEF DoneInv, TypeInv
<1> QED  BY <1>6, <1>7, <1>9, <1>10 DEF Inv

\* The last answer is given when every page is in CPU1.
LEMMA SendEndInv ==
  ASSUME SizedStep, TypeInv, TypeInv', Inv, SendEnd
  PROVE  Inv'
<1>1. /\ host = "programmed" /\ Answer(REQUEST) /\ toHost' = Tail(toHost)
      /\ toBoot' = Append(toBoot, REQUEST) /\ page' = page
      /\ host' = "confirm" /\ result' = result /\ image' = image
      /\ boot' = boot /\ received' = received /\ address' = address /\ flash' = flash
  BY DEF SendEnd, bootVars
<1>2. toHost' = <<>> /\ (Fresh \/ (boot = "writing" /\ toBoot = <<>> /\ address = page /\ FlashOk(page)))
  BY <1>1, Requested
<1>3. toBoot' = <<REQUEST>>
  <2>1. toBoot = <<>>
    BY <1>2 DEF Fresh
  <2> QED  BY <1>1, <2>1
<1>4. ListenInv'
  <2> SUFFICES ASSUME boot = "listening" PROVE Calm(received' \o toBoot')
    BY <1>1 DEF ListenInv
  <2>1. received' \o toBoot' = <<REQUEST>>
    BY <1>1, <1>2, <1>3 DEF Fresh
  <2>2. Calm(<<REQUEST>>)
    BY Distinct DEF Calm
  <2> QED  BY <2>1, <2>2
<1>5. ConfirmInv'
  <2>1. CASE Fresh
    BY <1>1, <1>2, <1>3, <2>1 DEF ConfirmInv, Fresh
  <2>2. CASE boot = "writing" /\ FlashOk(page)
    <3>1. page_size' = page_size
      BY <1>1, SamePages
    <3>2. FlashOk(page)'
      BY <1>1, <2>2, <3>1 DEF FlashOk, PageBytes
    <3> QED  BY <1>1, <1>2, <1>3, <2>2, <3>2 DEF ConfirmInv
  <2> QED  BY <1>2, <2>1, <2>2
<1>6. InfoInv' /\ AskedInv' /\ UnaskedInv'
  BY <1>1 DEF InfoInv, AskedInv, UnaskedInv
<1>7. DoneInv'
  BY <1>1 DEF DoneInv, TypeInv
<1> QED  BY <1>4, <1>5, <1>6, <1>7 DEF Inv

\* The confirmation means that nothing is left on the line and every page is in CPU1.
LEMMA WrittenInv ==
  ASSUME SizedStep, TypeInv, TypeInv', Inv, Written
  PROVE  Inv'
<1>1. /\ host = "confirm" /\ toHost # <<>>
      /\ toBoot' = Append(toBoot, RUN) /\ page' = page /\ host' = "done" /\ image' = image
      /\ boot' = boot /\ received' = received /\ address' = address /\ flash' = flash
  BY DEF Written, Answer, bootVars
<1>2. /\ toBoot = <<>> /\ FlashOk(page) /\ received = <<>>
      /\ boot \in {"listening", "command", "app"} /\ page = Pages
  BY <1>1 DEF Inv, ConfirmInv, TypeInv
<1>3. toBoot' = <<RUN>>
  BY <1>1, <1>2
<1>4. ListenInv'
  <2>1. received' \o toBoot' = <<RUN>>
    BY <1>1, <1>2, <1>3
  <2>2. Calm(<<RUN>>)
    BY Distinct DEF Calm
  <2> QED  BY <2>1, <2>2 DEF ListenInv
<1>5. DoneInv'
  <2>1. page_size' = page_size /\ Pages' = Pages
    BY <1>1, SamePages
  <2>2. FlashOk(Pages)'
    BY <1>1, <1>2, <2>1 DEF FlashOk, PageBytes
  <2> QED  BY <1>1, <1>2, <1>3, <2>2 DEF DoneInv
<1>6. InfoInv' /\ AskedInv' /\ UnaskedInv' /\ ConfirmInv'
  BY <1>1 DEF InfoInv, AskedInv, UnaskedInv, ConfirmInv
<1> QED  BY <1>4, <1>5, <1>6 DEF Inv

-----------------------------------------------------------------------------
(* The line *)

\* A byte for CPU1 is lost.
LEMMA LostToBootInv ==
  ASSUME SizedStep, PlainImages, TypeInv, TypeInv', Inv, NEW k \in DOMAIN toBoot, LoseToBoot(k)
  PROVE  Inv'
<1>1. /\ toBoot' = RemoveAt(toBoot, k) /\ toHost' = toHost
      /\ host' = host /\ page' = page /\ result' = result /\ image' = image
      /\ boot' = boot /\ received' = received /\ address' = address /\ flash' = flash
  BY DEF LoseToBoot, hostVars, bootVars
<1>2. /\ toBoot \in Seq(Byte) /\ received \in Seq(Byte)
      /\ Len(toBoot) \in Nat /\ Len(received) \in Nat /\ DOMAIN toBoot = 1..Len(toBoot)
  BY Facts
<1>3. /\ toBoot' \in Seq(Byte) /\ Len(toBoot') = Len(toBoot) - 1
      /\ DOMAIN toBoot' = 1..(Len(toBoot) - 1)
      /\ \A i \in 1..(Len(toBoot) - 1) : toBoot'[i] = toBoot[IF i < k THEN i ELSE i + 1]
      /\ Sub(toBoot', toBoot) /\ toBoot # <<>> /\ k \in 1..Len(toBoot)
  <2> DEFINE r == RemoveAt(toBoot, k)
  <2>1. /\ r \in Seq(Byte) /\ Len(r) = Len(toBoot) - 1
        /\ \A i \in 1..(Len(toBoot) - 1) : r[i] = toBoot[IF i < k THEN i ELSE i + 1]
    BY ZenonT(30), <1>2, RemoveFacts
  <2>2. Sub(r, toBoot)
    BY <1>2, SubRemove
  <2> HIDE DEF r
  <2>3. DOMAIN r = 1..(Len(toBoot) - 1) /\ k \in 1..Len(toBoot) /\ toBoot # <<>>
    BY <1>2, <2>1
  <2>4. toBoot' = r
    BY <1>1 DEF r
  <2> QED  BY SMTT(30), <2>1, <2>2, <2>3, <2>4
<1>4. page_size' = page_size /\ Pages' = Pages
  BY <1>1, SamePages
<1>5. ~Fresh
  BY <1>3 DEF Fresh
<1>6. Len(toBoot) = 1 => toBoot' = <<>>
  BY <1>1, <1>2, AtMostOne
<1>7. ListenInv'
  <2>1. received \o toBoot' \in Seq(Byte) /\ received \o toBoot \in Seq(Byte)
    BY <1>2, <1>3, Glued
  <2>2. Sub(received \o toBoot', received \o toBoot)
    BY <1>2, <1>3, SubBehind
  <2>3. Calm(received \o toBoot) => Calm(received \o toBoot')
    BY <2>1, <2>2, SubKeeps
  <2> QED  BY <1>1, <2>3 DEF Inv, ListenInv
<1>8. InfoInv'
  <2>1. Contains(toBoot', WRITE_FLASH) => Contains(toBoot, WRITE_FLASH)
    BY <1>2, <1>3, SubKeeps
  <2> QED  BY <1>1, <1>5, <2>1 DEF Inv, InfoInv
<1>9. AskedInv'
  BY <1>1, <1>3, <1>5 DEF Inv, AskedInv
<1>10. UnaskedInv'
  <2> SUFFICES ASSUME host \in {"request", "programmed"}, ~Contains(toHost, REQUEST)
               PROVE  UnaskedInv'
    BY <1>1 DEF UnaskedInv
  <2>1. ASSUME boot = "command", NEW i \in DOMAIN toBoot', toBoot'[i] = WRITE_FLASH
        PROVE  page = 0 /\ i = Len(toBoot')
    <3> DEFINE j == IF i < k THEN i ELSE i + 1
    <3>1. j \in 1..Len(toBoot) /\ toBoot[j] = WRITE_FLASH
      BY <1>2, <1>3, <2>1
    <3>2. page = 0 /\ j = Len(toBoot)
      BY <1>2, <2>1, <3>1 DEF Inv, UnaskedInv
    <3> QED  BY <1>2, <1>3, <3>2
  <2>2. ASSUME boot = "writing" PROVE Len(toBoot') <= PageSize /\ Ended(toBoot')
    <3>1. CASE page > 0 /\ toBoot = <<CONFIRM>> \o PageBytes(page - 1)
      <4>1. page - 1 \in 0..(Pages - 1)
        BY <3>1, Facts
      <4>2. PageBytes(page - 1) \in Seq(Byte) /\ Len(PageBytes(page - 1)) = PageSize /\ Ended(toBoot)
        BY <3>1, <4>1, PageFacts, PagePlain DEF LoseToBoot
      <4>3. <<CONFIRM>> \in Seq(Byte) /\ Len(<<CONFIRM>>) = 1
        BY ByteFacts
      <4>4. Len(toBoot) = 1 + PageSize
        BY <3>1, <4>2, <4>3, Glued
      <4>5. PageSize \in Nat
        BY Facts
      <4>6. Ended(toBoot')
        BY <1>2, <1>3, <4>2, SubKeeps
      <4> QED  BY <1>3, <4>4, <4>5, <4>6
    <3>2. CASE Len(toBoot) <= PageSize /\ Ended(toBoot)
      <4>1. Ended(toBoot')
        BY <1>2, <1>3, <3>2, SubKeeps
      <4>2. PageSize \in Nat
        BY Facts
      <4> QED  BY <1>2, <1>3, <3>2, <4>1, <4>2
    <3> QED  BY <2>2, <3>1, <3>2 DEF Inv, UnaskedInv
  <2>3. ASSUME boot = "page" PROVE Len(received) + Len(toBoot') < PageSize
    <3>1. CASE page > 0 /\ received \o toBoot = PageBytes(page - 1)
      <4>1. page - 1 \in 0..(Pages - 1)
        BY <3>1, Facts
      <4>2. Len(received \o toBoot) = PageSize /\ PageSize \in Nat
        BY <3>1, <4>1, PageFacts, Facts
      <4>3. Len(received) + Len(toBoot) = PageSize
        BY <1>2, <4>2, Glued
      <4> QED  BY <1>2, <1>3, <4>2, <4>3
    <3>2. CASE Len(received) + Len(toBoot) < PageSize
      <4>1. PageSize \in Nat
        BY Facts
      <4> QED  BY <1>2, <1>3, <3>2, <4>1
    <3> QED  BY <2>3, <3>1, <3>2 DEF Inv, UnaskedInv
  <2> QED  BY <1>1, <2>1, <2>2, <2>3 DEF UnaskedInv
<1>11. ConfirmInv'
  <2> SUFFICES ASSUME host = "confirm" PROVE ConfirmInv'
    BY <1>1 DEF ConfirmInv
  <2>1. toBoot = <<REQUEST>>
    BY <1>3 DEF Inv, ConfirmInv
  <2>2. toBoot' = <<>>
    BY <1>6, <2>1
  <2> QED  BY <1>1, <1>3, <2>2 DEF Inv, ConfirmInv
<1>12. DoneInv'
  <2> SUFFICES ASSUME result # 0 PROVE DoneInv'
    BY <1>1 DEF DoneInv
  <2>1. toBoot = <<RUN>>
    BY <1>3 DEF Inv, DoneInv
  <2>2. toBoot' = <<>>
    BY <1>6, <2>1
  <2>3. FlashOk(Pages)'
    BY <1>1, <1>4 DEF Inv, DoneInv, FlashOk, PageBytes
  <2> QED  BY <1>1, <2>2, <2>3 DEF Inv, DoneInv
<1> QED  BY <1>7, <1>8, <1>9, <1>10, <1>11, <1>12 DEF Inv

\* A byte for the firmware is lost.
LEMMA LostToHostInv ==
  ASSUME SizedStep, TypeInv, TypeInv', Inv, NEW k \in DOMAIN toHost, LoseToHost(k)
  PROVE  Inv'
<1>1. /\ toHost' = RemoveAt(toHost, k) /\ toBoot' = toBoot
      /\ host' = host /\ page' = page /\ result' = result /\ image' = image
      /\ boot' = boot /\ received' = received /\ address' = address /\ flash' = flash
  BY DEF LoseToHost, hostVars, bootVars
<1>2. toHost \in Seq(InfoByte) /\ Len(toHost) \in Nat /\ DOMAIN toHost = 1..Len(toHost)
  BY Facts
<1>3. /\ toHost' \in Seq(InfoByte) /\ Len(toHost') = Len(toHost) - 1
      /\ DOMAIN toHost' = 1..(Len(toHost) - 1)
      /\ \A i \in 1..(Len(toHost) - 1) : toHost'[i] = toHost[IF i < k THEN i ELSE i + 1]
      /\ Sub(toHost', toHost) /\ toHost # <<>> /\ k \in 1..Len(toHost)
  <2> DEFINE r == RemoveAt(toHost, k)
  <2>1. /\ r \in Seq(InfoByte) /\ Len(r) = Len(toHost) - 1
        /\ \A i \in 1..(Len(toHost) - 1) : r[i] = toHost[IF i < k THEN i ELSE i + 1]
    BY ZenonT(30), <1>2, RemoveFacts
  <2>2. Sub(r, toHost)
    BY <1>2, SubRemove
  <2> HIDE DEF r
  <2>3. DOMAIN r = 1..(Len(toHost) - 1) /\ k \in 1..Len(toHost) /\ toHost # <<>>
    BY <1>2, <2>1
  <2>4. toHost' = r
    BY <1>1 DEF r
  <2> QED  BY SMTT(30), <2>1, <2>2, <2>3, <2>4
<1>4. page_size' = page_size /\ Pages' = Pages
  BY <1>1, SamePages
<1>5. \A x : Contains(toHost', x) => Contains(toHost, x)
  BY <1>2, <1>3, SubKeeps
<1>6. Len(toHost) = 1 => toHost' = <<>>
  BY <1>1, <1>2, AtMostOne
<1>7. ListenInv'
  BY <1>1 DEF Inv, ListenInv
<1>8. Fresh' <=> Fresh
  BY <1>1 DEF Fresh
<1>9. InfoInv'
  BY <1>1, <1>3, <1>5, <1>8 DEF Inv, InfoInv
<1>10. AskedInv'
  <2> SUFFICES ASSUME host \in {"request", "programmed"}, Contains(toHost', REQUEST)
               PROVE  AskedInv'
    BY <1>1 DEF AskedInv
  <2>1. ASSUME NEW i \in DOMAIN toHost', toHost'[i] = REQUEST PROVE i = Len(toHost')
    <3> DEFINE j == IF i < k THEN i ELSE i + 1
    <3>1. j \in 1..Len(toHost) /\ toHost[j] = REQUEST
      BY <1>2, <1>3, <2>1
    <3>2. j = Len(toHost)
      BY <1>2, <1>5, <3>1 DEF Inv, AskedInv
    <3> QED  BY <1>2, <1>3, <3>2
  <2>2. FlashOk(page) => FlashOk(page)'
    BY <1>1, <1>4 DEF FlashOk, PageBytes
  <2> QED  BY <1>1, <1>5, <1>8, <2>1, <2>2 DEF Inv, AskedInv
<1>11. UnaskedInv'
  <2> SUFFICES ASSUME host \in {"request", "programmed"}, ~Contains(toHost', REQUEST)
               PROVE  UnaskedInv'
    BY <1>1 DEF UnaskedInv
  <2>1. CASE Contains(toHost, REQUEST)
    <3>1. Fresh \/ (boot = "writing" /\ toBoot = <<>>)
      BY <2>1 DEF Inv, AskedInv
    <3>2. CASE Fresh
      BY <1>1, <3>2 DEF UnaskedInv, Fresh
    <3>3. CASE boot = "writing" /\ toBoot = <<>>
      <4>1. Len(toBoot') <= PageSize /\ Ended(toBoot')
        BY <1>1, <3>3, SizeAssumption DEF Ended
      <4> QED  BY <1>1, <3>3, <4>1 DEF UnaskedInv
    <3> QED  BY <3>1, <3>2, <3>3
  <2>2. CASE ~Contains(toHost, REQUEST)
    <3>1. FlashOk(page - 1) => FlashOk(page - 1)'
      BY <1>1, <1>4 DEF FlashOk, PageBytes
    <3>2. PageBytes(page - 1)' = PageBytes(page - 1)
      BY <1>1, <1>4 DEF PageBytes
    <3> QED  BY <1>1, <2>2, <3>1, <3>2 DEF Inv, UnaskedInv
  <2> QED  BY <2>1, <2>2
<1>12. ConfirmInv'
  <2> SUFFICES ASSUME host = "confirm" PROVE ConfirmInv'
    BY <1>1 DEF ConfirmInv
  <2>1. toHost' = <<>>
    <3>1. toHost = <<CONFIRM>>
      BY <1>3 DEF Inv, ConfirmInv
    <3> QED  BY <1>6, <3>1
  <2>2. FlashOk(page) => FlashOk(page)'
    BY <1>1, <1>4 DEF FlashOk, PageBytes
  <2> QED  BY <1>1, <2>1, <2>2 DEF Inv, ConfirmInv
<1>13. DoneInv'
  <2>1. FlashOk(Pages) => FlashOk(Pages)'
    BY <1>1, <1>4 DEF FlashOk, PageBytes
  <2> QED  BY <1>1, <2>1 DEF Inv, DoneInv
<1> QED  BY <1>7, <1>9, <1>10, <1>11, <1>12, <1>13 DEF Inv

\* CPU1 is reset.
LEMMA ResetInv ==
  ASSUME SizedStep, TypeInv, TypeInv', Inv, Reset
  PROVE  Inv'
<1>1. /\ boot' = "listening" /\ received' = <<>> /\ toBoot' = <<>> /\ flash' = flash
      /\ toHost' = toHost /\ host' = host /\ page' = page /\ result' = result /\ image' = image
  BY DEF Reset, hostVars
<1>2. page_size' = page_size /\ Pages' = Pages
  BY <1>1, SamePages
<1>3. Fresh'
  BY <1>1 DEF Fresh
<1>4. ListenInv'
  <2>1. received' \o toBoot' = <<>>
    BY <1>1
  <2> QED  BY <2>1 DEF ListenInv, Calm
<1>5. InfoInv' /\ AskedInv' /\ UnaskedInv'
  BY <1>1, <1>3 DEF Inv, InfoInv, AskedInv, UnaskedInv
<1>6. ConfirmInv'
  <2>1. FlashOk(page) => FlashOk(page)'
    BY <1>1, <1>2 DEF FlashOk, PageBytes
  <2> QED  BY <1>1, <2>1 DEF Inv, ConfirmInv
<1>7. DoneInv'
  <2>1. FlashOk(Pages) => FlashOk(Pages)'
    BY <1>1, <1>2 DEF FlashOk, PageBytes
  <2> QED  BY <1>1, <2>1 DEF Inv, DoneInv
<1> QED  BY <1>4, <1>5, <1>6, <1>7 DEF Inv

-----------------------------------------------------------------------------
(* The steps of the bootloader *)

\* The bootloader takes a byte.
LEMMA Taken ==
  ASSUME SizedStep, TypeInv, TypeInv', NEW s, NEW b, Receive(s, b)
  PROVE  /\ boot = s /\ toBoot # <<>> /\ ~Fresh
         /\ b = toBoot[1] /\ b = Head(toBoot) /\ b \in Byte /\ Len(toBoot) \in Nat \ {0}
         /\ toBoot' = Tail(toBoot) /\ toBoot' \in Seq(Byte) /\ Len(toBoot') = Len(toBoot) - 1
         /\ DOMAIN toBoot' = 1..(Len(toBoot) - 1)
         /\ \A i \in 1..(Len(toBoot) - 1) : toBoot'[i] = toBoot[i + 1]
         /\ Len(toBoot) = 1 => toBoot' = <<>>
         /\ Sub(toBoot', toBoot)
         /\ host' = host /\ page' = page /\ result' = result /\ image' = image
         /\ page_size' = page_size /\ Pages' = Pages
<1>1. toBoot \in Seq(Byte) /\ toBoot # <<>> /\ toBoot' = Tail(toBoot) /\ b = Head(toBoot)
      /\ boot = s
  BY Facts DEF Receive
<1>2. /\ b = toBoot[1] /\ b \in Byte
      /\ toBoot' \in Seq(Byte) /\ Len(toBoot') = Len(toBoot) - 1
      /\ \A i \in 1..(Len(toBoot) - 1) : toBoot'[i] = toBoot[i + 1]
  BY <1>1, TailFacts
<1>3. Len(toBoot) \in Nat \ {0} /\ (Len(toBoot) = 1 => toBoot' = <<>>)
  BY <1>1, EmptySeq, AtMostOne
<1>4. Sub(toBoot', toBoot)
  BY <1>1, SubTail
<1>5. /\ host' = host /\ page' = page /\ result' = result /\ image' = image
  BY DEF Receive, hostVars
<1>6. page_size' = page_size /\ Pages' = Pages
  BY <1>5, SamePages
<1>7. ~Fresh
  BY <1>1 DEF Fresh
<1>8. DOMAIN toBoot' = 1..(Len(toBoot) - 1)
  BY <1>2
<1> QED  BY <1>1, <1>2, <1>3, <1>4, <1>5, <1>6, <1>7, <1>8

\* A bootloader that listens wakes up to the firmware that waits, and to no page.
LEMMA ListenStepInv ==
  ASSUME SizedStep, TypeInv, TypeInv', Inv, NEW b, Listen(b)
  PROVE  Inv'
<1>0. Receive("listening", b) /\ address' = address /\ flash' = flash
  BY DEF Listen
<1>1. /\ boot = "listening" /\ toBoot # <<>> /\ ~Fresh
      /\ b = toBoot[1] /\ b = Head(toBoot) /\ b \in Byte
      /\ toBoot' = Tail(toBoot) /\ toBoot' \in Seq(Byte)
      /\ Len(toBoot) = 1 => toBoot' = <<>>
      /\ Sub(toBoot', toBoot)
      /\ host' = host /\ page' = page /\ result' = result /\ image' = image
      /\ page_size' = page_size /\ Pages' = Pages
  BY <1>0, Taken
<1>2. /\ toBoot \in Seq(Byte) /\ received \in Seq(Byte) /\ toHost \in Seq(InfoByte)
      /\ received \o toBoot \in Seq(Byte)
  BY Facts, Glued
<1>3. Calm(received \o toBoot) /\ Calm(toBoot')
  <2>1. Calm(received \o toBoot)
    BY <1>1 DEF Inv, ListenInv
  <2>2. Calm(toBoot)
    BY <1>2, <2>1, SubSuffix, SubKeeps
  <2> QED  BY <1>1, <1>2, <2>1, <2>2, SubKeeps
<1>4. \* What the firmware may have done before the bootloader is woken.
      /\ host = "info" => toHost = <<>>
      /\ host \in {"request", "programmed"} => ~Contains(toHost, REQUEST)
      /\ host = "confirm" => /\ received = <<>> /\ toBoot = <<REQUEST>> /\ b = REQUEST
                             /\ toBoot' = <<>> /\ toHost = <<>>
      /\ result # 0 => received = <<>> /\ toBoot = <<RUN>> /\ b = RUN /\ toBoot' = <<>> /\ FlashOk(Pages)
  BY <1>1 DEF Inv, InfoInv, AskedInv, ConfirmInv, DoneInv
<1>5. CASE Append(received, b) = Wake
  <2>1. boot' = "command" /\ received' = <<>> /\ toHost' = toHost \o DeviceInfo
    BY <1>5 DEF Listen, Reply
  <2>2. Len(received) = 2 /\ b = Wake[1] /\ \A i \in 1..2 : received[i] = Wake[1]
    <3>1. /\ Len(Append(received, b)) = Len(received) + 1
          /\ \A i \in 1..Len(received) : Append(received, b)[i] = received[i]
          /\ Append(received, b)[Len(received) + 1] = b
      BY <1>1, <1>2, Appended
    <3>2. Len(Wake) = 3 /\ Wake[1] = Wake[2] /\ Wake[2] = Wake[3]
      BY DEF Wake
    <3>3. Len(received) = 2
      <4>1. Len(received) + 1 = 3
        BY <1>5, <3>1, <3>2
      <4>2. Len(received) \in Nat
        BY Facts
      <4>3. \A n \in Nat : n + 1 = 3 => n = 2
        OBVIOUS
      <4> QED  BY <4>1, <4>2, <4>3
    <3> QED  BY <1>5, <3>1, <3>2, <3>3
  <2>3. ~Contains(toBoot', WRITE_FLASH)
    <3> SUFFICES ASSUME NEW i \in 1..Len(toBoot'), toBoot'[i] = WRITE_FLASH PROVE FALSE
      BY DEF Contains
    <3> DEFINE s == received \o toBoot
    <3>1. /\ toBoot[i + 1] = WRITE_FLASH /\ toBoot[1] = Wake[1]
          /\ i + 1 \in 1..Len(toBoot) /\ 1 \in 1..Len(toBoot)
      BY <1>1, <1>2, <2>2, TailFacts
    <3>2. Len(received) = 2
      BY <2>2
    <3>3. /\ \A j \in 1..2 : s[j] = received[j]
          /\ \A j \in 3..(2 + Len(toBoot)) : s[j] = toBoot[j - 2]
          /\ DOMAIN s = 1..(2 + Len(toBoot))
      <4>1. /\ s \in Seq(Byte) /\ Len(s) = Len(received) + Len(toBoot)
            /\ \A j \in 1..Len(received) : s[j] = received[j]
            /\ \A j \in (Len(received) + 1)..(Len(received) + Len(toBoot)) :
                 s[j] = toBoot[j - Len(received)]
        BY <1>2, Glued
      <4> HIDE DEF s
      <4> QED  BY <3>2, <4>1
    <3> HIDE DEF s
    <3>4. s[1] = Wake[1] /\ s[2] = Wake[1] /\ s[3] = Wake[1]
      <4>1. s[3] = toBoot[3 - 2] /\ 3 - 2 = 1
        BY <1>2, <3>1, <3>3
      <4> QED  BY <2>2, <3>1, <3>3, <4>1
    <3>5. i + 3 \in DOMAIN s /\ s[i + 3] = WRITE_FLASH
      <4>1. i + 3 \in 3..(2 + Len(toBoot)) /\ (i + 3) - 2 = i + 1
        BY <1>2, <3>1
      <4>2. s[i + 3] = toBoot[(i + 3) - 2]
        BY <3>3, <4>1
      <4> QED  BY <3>1, <3>3, <4>1, <4>2
    <3>6. 1 \in 1..((i + 3) - 1) /\ 2 \in 1..((i + 3) - 1) /\ 3 \in 1..((i + 3) - 1)
      BY <1>2, <3>1
    <3>7. Calm(s)
      BY <1>3 DEF s
    <3> QED  BY <3>4, <3>5, <3>6, <3>7 DEF Calm
  <2>4. ListenInv'
    BY <2>1 DEF ListenInv
  <2>5. InfoInv'
    <3> SUFFICES ASSUME host = "info" PROVE InfoInv'
      BY <1>1 DEF InfoInv
    <3>1. toHost' = DeviceInfo
      BY <1>4, <2>1, SentTypes, ConcatEmptySeq
    <3>2. ~Contains(DeviceInfo, REQUEST)
      BY Distinct, SentTypes DEF Contains
    <3> QED  BY <2>1, <2>3, <3>1, <3>2 DEF InfoInv
  <2>6. AskedInv' /\ UnaskedInv'
    <3> SUFFICES ASSUME host \in {"request", "programmed"} PROVE AskedInv' /\ UnaskedInv'
      BY <1>1 DEF AskedInv, UnaskedInv
    <3>1. ~Contains(DeviceInfo, REQUEST)
      BY Distinct, SentTypes DEF Contains
    <3>2. ~Contains(toHost', REQUEST)
      BY <1>2, <1>4, <2>1, <3>1, SentTypes, ContainsGlue
    <3>3. \A i \in DOMAIN toBoot' : toBoot'[i] # WRITE_FLASH
      BY <1>1, <2>3 DEF Contains
    <3> QED  BY <2>1, <3>2, <3>3 DEF AskedInv, UnaskedInv
  <2>7. host # "confirm" /\ result = 0
    BY <1>4, <2>2, Distinct
  <2>8. ConfirmInv' /\ DoneInv'
    BY <1>1, <2>7 DEF ConfirmInv, DoneInv
  <2> QED  BY <2>4, <2>5, <2>6, <2>8 DEF Inv
<1>6. CASE Append(received, b) # Wake
  <2>1. /\ received' = IF b = Wake[1] THEN Append(received, b) ELSE <<>>
        /\ boot' = boot /\ toHost' = toHost
    BY <1>6 DEF Listen
  <2>2. ListenInv'
    <3>1. CASE b = Wake[1]
      <4>1. received' \o toBoot' = received \o toBoot
        BY <1>1, <1>2, <2>1, <3>1, Moved
      <4> QED  BY <1>3, <4>1 DEF ListenInv
    <3>2. CASE b # Wake[1]
      <4>1. received' \o toBoot' = toBoot'
        BY <1>1, <2>1, <3>2, ConcatEmptySeq
      <4> QED  BY <1>3, <4>1 DEF ListenInv
    <3> QED  BY <3>1, <3>2
  <2>3. InfoInv'
    BY <1>1, <1>4, <2>1, NothingIn DEF InfoInv
  <2>4. AskedInv' /\ UnaskedInv'
    BY <1>1, <1>4, <2>1 DEF AskedInv, UnaskedInv
  <2>5. ConfirmInv'
    <3> SUFFICES ASSUME host = "confirm" PROVE ConfirmInv'
      BY <1>1 DEF ConfirmInv
    <3>1. received' = <<>> /\ toBoot' = <<>> /\ toHost' = <<>> /\ boot' = "listening"
      BY <1>1, <1>4, <2>1, Distinct
    <3> QED  BY <3>1 DEF ConfirmInv
  <2>6. DoneInv'
    <3> SUFFICES ASSUME result # 0 PROVE DoneInv'
      BY <1>1 DEF DoneInv
    <3>1. received' = <<>> /\ toBoot' = <<>> /\ boot' = "listening"
      BY <1>1, <1>4, <2>1, Distinct
    <3>2. FlashOk(Pages)'
      BY <1>0, <1>1, <1>4 DEF FlashOk, PageBytes
    <3> QED  BY <3>1, <3>2 DEF DoneInv
  <2> QED  BY <2>2, <2>3, <2>4, <2>5, <2>6 DEF Inv
<1> QED  BY <1>5, <1>6

\* A command is the one that the firmware of this boot sent.
LEMMA ObeyInv ==
  ASSUME SizedStep, TypeInv, TypeInv', Inv, NEW b, ObeyCommand(b)
  PROVE  Inv'
<1>0. Receive("command", b) /\ received' = received /\ flash' = flash
  BY DEF ObeyCommand
<1>1. /\ boot = "command" /\ toBoot # <<>> /\ ~Fresh /\ received = <<>>
      /\ b = toBoot[1] /\ Len(toBoot) \in Nat \ {0} /\ DOMAIN toBoot = 1..Len(toBoot)
      /\ toBoot' \in Seq(Byte) /\ Len(toBoot') = Len(toBoot) - 1
      /\ DOMAIN toBoot' = 1..(Len(toBoot) - 1)
      /\ \A i \in 1..(Len(toBoot) - 1) : toBoot'[i] = toBoot[i + 1]
      /\ Len(toBoot) = 1 => toBoot' = <<>>
      /\ Sub(toBoot', toBoot)
      /\ host' = host /\ page' = page /\ result' = result /\ image' = image
      /\ page_size' = page_size /\ Pages' = Pages
  BY <1>0, Taken, Facts DEF TypeInv
<1>2. toBoot \in Seq(Byte) /\ toHost \in Seq(InfoByte)
  BY Facts
<1>3. /\ host = "info" /\ Contains(toHost, DeviceInfo[1]) =>
           ~Contains(toBoot, WRITE_FLASH) /\ ~Contains(toHost, REQUEST)
      /\ host \in {"request", "programmed"} => ~Contains(toHost, REQUEST)
      /\ host # "confirm"
      /\ result # 0 => toBoot = <<RUN>> /\ b = RUN /\ toBoot' = <<>> /\ FlashOk(Pages)
  BY <1>1 DEF Inv, InfoInv, AskedInv, ConfirmInv, DoneInv
<1>4. \* A command to write is the last byte of this boot's installation.
      host \in {"request", "programmed"} =>
        \A i \in DOMAIN toBoot : toBoot[i] = WRITE_FLASH => page = 0 /\ i = Len(toBoot)
  BY <1>1, <1>3 DEF Inv, UnaskedInv
<1>5. ConfirmInv'
  BY <1>1, <1>3 DEF ConfirmInv
<1>6. CASE b = WRITE_FLASH
  <2>1. boot' = "writing" /\ address' = 0 /\ toHost' = toHost \o <<REQUEST>>
    BY <1>6 DEF ObeyCommand, Reply
  <2>2. ListenInv'
    BY <2>1 DEF ListenInv
  <2>3. InfoInv'
    <3> SUFFICES ASSUME host = "info" PROVE InfoInv'
      BY <1>1 DEF InfoInv
    <3>1. Contains(toBoot, WRITE_FLASH)
      <4>1. 1 \in 1..Len(toBoot) /\ toBoot[1] = WRITE_FLASH
        BY <1>1, <1>6
      <4> QED  BY <4>1 DEF Contains
    <3>2. ~Contains(toHost, DeviceInfo[1])
      BY <1>3, <3>1
    <3>3. ~Contains(<<REQUEST>>, DeviceInfo[1])
      BY Distinct DEF Contains
    <3>4. ~Contains(toHost', DeviceInfo[1])
      BY <1>2, <2>1, <3>2, <3>3, SentTypes, ContainsGlue
    <3> QED  BY <2>1, <3>4 DEF InfoInv
  <2>4. AskedInv' /\ UnaskedInv'
    <3> SUFFICES ASSUME host \in {"request", "programmed"} PROVE AskedInv' /\ UnaskedInv'
      BY ZenonT(30), <1>1 DEF AskedInv, UnaskedInv
    <3>1. page = 0 /\ toBoot' = <<>>
      <4>1. 1 \in DOMAIN toBoot /\ toBoot[1] = WRITE_FLASH
        BY <1>1, <1>6
      <4>2. page = 0 /\ 1 = Len(toBoot)
        BY <1>4, <4>1
      <4> QED  BY <1>1, <4>2
    <3>2. /\ Len(toHost') = Len(toHost) + 1 /\ Len(toHost) \in Nat
          /\ DOMAIN toHost' = 1..(Len(toHost) + 1)
          /\ toHost'[Len(toHost) + 1] = REQUEST
          /\ \A i \in 1..Len(toHost) : toHost'[i] = toHost[i]
      <4>1. toHost' = Append(toHost, REQUEST) /\ REQUEST \in InfoByte
        BY <1>2, <2>1, AppendIsConcat DEF InfoByte
      <4> QED  BY <1>2, <4>1, Appended
    <3>3. Contains(toHost', REQUEST)
      BY <3>2 DEF Contains
    <3>4. \A i \in DOMAIN toHost' : toHost'[i] = REQUEST => i = Len(toHost')
      BY <1>3, <3>2 DEF Contains
    <3>5. FlashOk(page)'
      BY <1>1, <3>1, SizeAssumption DEF FlashOk, TypeInv
    <3> QED  BY <1>1, <2>1, <3>1, <3>3, <3>4, <3>5 DEF AskedInv, UnaskedInv
  <2>5. DoneInv'
    BY <1>1, <1>3, <1>6, Distinct DEF DoneInv
  <2> QED  BY <1>5, <2>2, <2>3, <2>4, <2>5 DEF Inv
<1>7. CASE b # WRITE_FLASH
  <2>1. boot' \in {"app", "command"} /\ toHost' = toHost
    BY <1>7 DEF ObeyCommand
  <2>2. ListenInv'
    BY <2>1 DEF ListenInv
  <2>3. InfoInv'
    <3>1. Contains(toBoot', WRITE_FLASH) => Contains(toBoot, WRITE_FLASH)
      BY SMTT(30), <1>1, <1>2, SubKeeps
    <3> QED  BY <1>1, <1>3, <2>1, <3>1 DEF InfoInv
  <2>4. AskedInv' /\ UnaskedInv'
    <3> SUFFICES ASSUME host \in {"request", "programmed"} PROVE AskedInv' /\ UnaskedInv'
      BY <1>1 DEF AskedInv, UnaskedInv
    <3>1. ASSUME NEW i \in DOMAIN toBoot', toBoot'[i] = WRITE_FLASH
          PROVE  page = 0 /\ i = Len(toBoot')
      <4>1. i + 1 \in DOMAIN toBoot /\ toBoot[i + 1] = WRITE_FLASH
        BY <1>1, <3>1
      <4>2. page = 0 /\ i + 1 = Len(toBoot)
        BY <1>4, <4>1
      <4> QED  BY <1>1, <3>1, <4>2
    <3> QED  BY ZenonT(30), <1>1, <1>3, <2>1, <3>1 DEF AskedInv, UnaskedInv
  <2>5. DoneInv'
    <3> SUFFICES ASSUME result # 0 PROVE DoneInv'
      BY <1>1 DEF DoneInv
    <3>1. FlashOk(Pages)'
      BY <1>0, <1>1, <1>3 DEF FlashOk, PageBytes
    <3> QED  BY <1>0, <1>1, <1>3, <2>1, <3>1 DEF DoneInv
  <2> QED  BY <1>5, <2>2, <2>3, <2>4, <2>5 DEF Inv
<1> QED  BY <1>6, <1>7

\* The bootloader learns whether another page comes.
LEMMA AwaitInv ==
  ASSUME SizedStep, TypeInv, TypeInv', Inv, NEW b, AwaitPage(b)
  PROVE  Inv'
<1>0. Receive("writing", b) /\ received' = received /\ address' = address /\ flash' = flash
  BY DEF AwaitPage
<1>1. /\ boot = "writing" /\ toBoot # <<>> /\ ~Fresh /\ received = <<>>
      /\ b = toBoot[1] /\ Len(toBoot) \in Nat \ {0} /\ DOMAIN toBoot = 1..Len(toBoot)
      /\ toBoot' = Tail(toBoot) /\ toBoot' \in Seq(Byte) /\ Len(toBoot') = Len(toBoot) - 1
      /\ DOMAIN toBoot' = 1..(Len(toBoot) - 1)
      /\ \A i \in 1..(Len(toBoot) - 1) : toBoot'[i] = toBoot[i + 1]
      /\ Len(toBoot) = 1 => toBoot' = <<>>
      /\ Sub(toBoot', toBoot)
      /\ host' = host /\ page' = page /\ result' = result /\ image' = image
      /\ page_size' = page_size /\ Pages' = Pages
  BY SMTT(30), <1>0, Taken, Facts DEF TypeInv
<1>2. toBoot \in Seq(Byte) /\ toHost \in Seq(InfoByte) /\ PageSize \in Nat \ {0}
  BY Facts
<1>3. /\ host = "info" => ~Contains(toHost, DeviceInfo[1])
      /\ host \in {"request", "programmed"} => ~Contains(toHost, REQUEST)
      /\ host = "confirm" => toBoot = <<REQUEST>> /\ FlashOk(page) /\ toHost = <<>>
      /\ result = 0
  BY <1>1 DEF Inv, InfoInv, AskedInv, ConfirmInv, DoneInv
<1>4. boot' # "listening" /\ ListenInv'
  BY <1>1 DEF AwaitPage, ListenInv
<1>5. DoneInv'
  BY <1>1, <1>3 DEF DoneInv
<1>6. InfoInv'
  <2> SUFFICES ASSUME host = "info" PROVE InfoInv'
    BY <1>1 DEF InfoInv
  <2>1. ~Contains(<<CONFIRM>>, DeviceInfo[1])
    BY Distinct DEF Contains
  <2>2. toHost' = toHost \/ Reply(<<CONFIRM>>)
    BY DEF AwaitPage
  <2>3. ~Contains(toHost', DeviceInfo[1])
    BY <1>2, <1>3, <2>1, <2>2, SentTypes, NotAnswered
  <2> QED  BY <1>4, <2>3 DEF InfoInv
<1>7. host \in {"request", "programmed"} => ~Contains(toHost', REQUEST)
  <2>1. ~Contains(<<CONFIRM>>, REQUEST)
    BY Distinct DEF Contains
  <2>2. toHost' = toHost \/ Reply(<<CONFIRM>>)
    BY DEF AwaitPage
  <2> QED  BY <1>2, <1>3, <2>1, <2>2, SentTypes, NotAnswered
<1>8. AskedInv'
  BY <1>1, <1>7 DEF AskedInv
<1>9. UnaskedInv'
  <2> SUFFICES ASSUME host \in {"request", "programmed"} PROVE UnaskedInv'
    BY ZenonT(30), <1>1 DEF UnaskedInv
  <2> DEFINE Underway == /\ page > 0 /\ address = page - 1 /\ FlashOk(page - 1)
                         /\ toBoot = <<CONFIRM>> \o PageBytes(page - 1)
             Short == Len(toBoot) <= PageSize /\ Ended(toBoot)
  <2>1. Underway \/ Short
    BY ZenonT(30), <1>1, <1>3 DEF Inv, UnaskedInv
  <2>2. CASE Underway
    <3>1. page - 1 \in 0..(Pages - 1)
      BY <2>2, Facts
    <3>2. PageBytes(page - 1) \in Seq(Byte)
      BY <3>1, PageFacts
    <3>3. b = CONFIRM /\ toBoot' = PageBytes(page - 1)
      BY <1>1, <2>2, <3>2
    <3>4. boot' = "page"
      BY <3>3, Distinct DEF AwaitPage
    <3>5. received' \o toBoot' = PageBytes(page - 1)'
      <4>1. received' \o toBoot' = PageBytes(page - 1)
        BY <1>0, <1>1, <3>2, <3>3, ConcatEmptySeq
      <4> QED  BY <1>1, <4>1 DEF PageBytes
    <3>6. FlashOk(page - 1)'
      BY <1>0, <1>1, <2>2 DEF FlashOk, PageBytes
    <3> QED  BY <1>0, <1>1, <2>2, <3>4, <3>5, <3>6 DEF UnaskedInv
  <2>3. CASE Short /\ b = REQUEST
    <3>1. boot' = "command"
      BY <2>3 DEF AwaitPage
    <3>2. ASSUME NEW i \in DOMAIN toBoot', toBoot'[i] = WRITE_FLASH PROVE FALSE
      <4>1. i + 1 \in DOMAIN toBoot /\ toBoot[i + 1] = WRITE_FLASH /\ 1 \in 1..((i + 1) - 1)
        BY <1>1, <3>2
      <4>2. toBoot[1] = REQUEST
        BY <1>1, <2>3
      <4> QED  BY <2>3, <4>1, <4>2 DEF Ended
    <3> QED  BY <3>1, <3>2 DEF UnaskedInv
  <2>4. CASE Short /\ b # REQUEST
    <3>1. boot' = IF b = CONFIRM THEN "page" ELSE "writing"
      BY <2>4 DEF AwaitPage
    <3>2. Len(toBoot') < PageSize /\ Len(toBoot') \in Nat
      BY <1>1, <1>2, <2>4
    <3>3. Ended(toBoot')
      BY <1>1, <1>2, <2>4, SubKeeps
    <3>4. Len(received') = 0
      BY <1>0, <1>1
    <3>5. Len(toBoot') <= PageSize /\ Len(received') + Len(toBoot') < PageSize
      BY <1>2, <3>2, <3>4
    <3> QED  BY <3>1, <3>3, <3>5 DEF UnaskedInv
  <2> QED  BY SMTT(30), <2>1, <2>2, <2>3, <2>4
<1>10. ConfirmInv'
  <2> SUFFICES ASSUME host = "confirm" PROVE ConfirmInv'
    BY <1>1 DEF ConfirmInv
  <2>1. b = REQUEST /\ toBoot' = <<>>
    BY <1>1, <1>3
  <2>2. boot' = "command" /\ toHost' = <<CONFIRM>>
    BY <1>3, <2>1 DEF AwaitPage, Reply
  <2>3. FlashOk(page)'
    BY <1>0, <1>1, <1>3 DEF FlashOk, PageBytes
  <2> QED  BY <1>0, <1>1, <2>1, <2>2, <2>3 DEF ConfirmInv
<1> QED  BY <1>4, <1>5, <1>6, <1>8, <1>9, <1>10 DEF Inv

\* A page that is programmed is the one the firmware sent for its address.
LEMMA ReceiveInv ==
  ASSUME SizedStep, TypeInv, TypeInv', Inv, NEW b, ReceivePage(b)
  PROVE  Inv'
<1>0. Receive("page", b)
  BY DEF ReceivePage
<1>1. /\ boot = "page" /\ toBoot # <<>> /\ ~Fresh /\ Len(received) < PageSize
      /\ b = toBoot[1] /\ b = Head(toBoot) /\ b \in Byte /\ Len(toBoot) \in Nat \ {0}
      /\ toBoot' = Tail(toBoot) /\ toBoot' \in Seq(Byte) /\ Len(toBoot') = Len(toBoot) - 1
      /\ Len(toBoot) = 1 => toBoot' = <<>>
      /\ host' = host /\ page' = page /\ result' = result /\ image' = image
      /\ page_size' = page_size /\ Pages' = Pages
  BY <1>0, Taken DEF TypeInv
<1>2. /\ toBoot \in Seq(Byte) /\ toHost \in Seq(InfoByte) /\ received \in Seq(Byte)
      /\ PageSize \in Nat \ {0} /\ Len(received) \in Nat /\ Len(toHost) \in Nat
  BY Facts
<1>3. /\ host = "info" => ~Contains(toHost, DeviceInfo[1])
      /\ host \in {"request", "programmed"} => ~Contains(toHost, REQUEST)
      /\ host # "confirm"
      /\ result = 0
  BY <1>1 DEF Inv, InfoInv, AskedInv, ConfirmInv, DoneInv
<1>4. ConfirmInv' /\ DoneInv'
  BY <1>1, <1>3 DEF ConfirmInv, DoneInv
<1>5. boot' # "listening" /\ ListenInv'
  BY <1>1 DEF ReceivePage, ListenInv
<1>6. InfoInv'
  <2> SUFFICES ASSUME host = "info" PROVE InfoInv'
    BY <1>1 DEF InfoInv
  <2>1. ~Contains(<<REQUEST>>, DeviceInfo[1])
    BY Distinct DEF Contains
  <2>2. toHost' = toHost \/ Reply(<<REQUEST>>)
    BY DEF ReceivePage
  <2>3. ~Contains(toHost', DeviceInfo[1])
    BY <1>2, <1>3, <2>1, <2>2, SentTypes, NotAnswered
  <2> QED  BY <1>5, <2>3 DEF InfoInv
<1>7. ASSUME host \in {"request", "programmed"} PROVE AskedInv' /\ UnaskedInv'
  <2> DEFINE Underway == /\ page > 0 /\ address = page - 1 /\ FlashOk(page - 1)
                         /\ received \o toBoot = PageBytes(page - 1)
             Short == Len(received) + Len(toBoot) < PageSize
  <2>1. Underway \/ Short
    BY <1>1, <1>3, <1>7 DEF Inv, UnaskedInv
  <2>2. CASE Len(received) + 1 < PageSize
    <3>1. /\ received' = Append(received, b) /\ boot' = boot
          /\ address' = address /\ flash' = flash /\ toHost' = toHost
      BY <2>2 DEF ReceivePage
    <3>2. AskedInv'
      BY <1>1, <1>3, <1>7, <3>1 DEF AskedInv
    <3>3. ASSUME Underway PROVE UnaskedInv'
      <4>1. received' \o toBoot' = received \o toBoot
        BY <1>1, <1>2, <3>1, Moved
      <4>2. received' \o toBoot' = PageBytes(page - 1)'
        BY <1>1, <3>3, <4>1 DEF PageBytes
      <4>3. FlashOk(page - 1)'
        BY <1>1, <3>1, <3>3 DEF FlashOk, PageBytes
      <4> QED  BY <1>1, <3>1, <3>3, <4>2, <4>3 DEF UnaskedInv
    <3>4. ASSUME Short PROVE UnaskedInv'
      <4>1. Len(received') = Len(received) + 1
        BY <1>1, <1>2, <3>1, Appended
      <4>2. Len(received') + Len(toBoot') < PageSize
        BY <1>1, <1>2, <3>4, <4>1
      <4> QED  BY <1>1, <3>1, <4>2 DEF UnaskedInv
    <3> QED  BY <2>1, <3>2, <3>3, <3>4
  <2>3. CASE ~(Len(received) + 1 < PageSize)
    <3>1. /\ flash' = [p \in DOMAIN flash |->
                         IF p = address THEN Append(received, b) ELSE flash[p]]
          /\ received' = <<>> /\ address' = address + 1 /\ boot' = "writing"
          /\ toHost' = toHost \o <<REQUEST>>
      BY <2>3 DEF ReceivePage, Reply
    <3>2. Underway
      BY <1>1, <1>2, <2>1, <2>3
    <3>3. page - 1 \in 0..(Pages - 1) /\ page \in Nat
      BY <3>2, Facts
    <3>4. Len(toBoot) = 1 /\ toBoot' = <<>>
      <4>1. Len(received \o toBoot) = PageSize
        BY <3>2, <3>3, PageFacts
      <4>2. Len(received) + Len(toBoot) = PageSize
        BY <1>2, <4>1, Glued
      <4> QED  BY <1>1, <1>2, <2>3, <4>2
    <3>5. Append(received, b) = PageBytes(page - 1)
      <4>1. Append(received, b) \o toBoot' = received \o toBoot
        BY <1>1, <1>2, Moved
      <4>2. Append(received, b) \in Seq(Byte)
        BY <1>1, <1>2
      <4> QED  BY <3>2, <3>4, <4>1, <4>2, ConcatEmptySeq
    <3>6. FlashOk(page)'
      <4>1. ASSUME NEW p \in DOMAIN flash, p < page PROVE flash'[p] = PageBytes(p)
        <5>1. p \in Nat
          BY SizeAssumption DEF TypeInv
        <5>2. CASE p = page - 1
          BY <3>1, <3>2, <3>5, <5>2
        <5>3. CASE p # page - 1
          <6>1. p < page - 1 /\ p # address
            BY <3>2, <3>3, <4>1, <5>1, <5>3
          <6> QED  BY <3>1, <3>2, <6>1 DEF FlashOk
        <5> QED  BY <5>2, <5>3
      <4>2. DOMAIN flash' = DOMAIN flash
        BY <3>1
      <4> QED  BY <1>1, <4>1, <4>2 DEF FlashOk, PageBytes
    <3>7. address' = page'
      BY <1>1, <3>1, <3>2, <3>3
    <3>8. /\ Len(toHost') = Len(toHost) + 1
          /\ DOMAIN toHost' = 1..(Len(toHost) + 1)
          /\ toHost'[Len(toHost) + 1] = REQUEST
          /\ \A i \in 1..Len(toHost) : toHost'[i] = toHost[i]
      <4>1. toHost' = Append(toHost, REQUEST) /\ REQUEST \in InfoByte
        BY <1>2, <3>1, AppendIsConcat DEF InfoByte
      <4> QED  BY <1>2, <4>1, Appended
    <3>9. Contains(toHost', REQUEST)
      BY <1>2, <3>8 DEF Contains
    <3>10. \A i \in DOMAIN toHost' : toHost'[i] = REQUEST => i = Len(toHost')
      BY SMTT(30), <1>2, <1>3, <1>7, <3>8 DEF Contains
    <3> QED  BY <3>1, <3>4, <3>6, <3>7, <3>9, <3>10 DEF AskedInv, UnaskedInv
  <2> QED  BY <2>2, <2>3
<1>8. AskedInv' /\ UnaskedInv'
  BY ZenonT(30), <1>1, <1>7 DEF AskedInv, UnaskedInv
<1> QED  BY <1>4, <1>5, <1>6, <1>8 DEF Inv

\* The application of CPU1 only reads the line.
LEMMA RunAppInv ==
  ASSUME SizedStep, TypeInv, TypeInv', Inv, NEW b, RunApp(b)
  PROVE  Inv'
<1>1. Receive("app", b) /\ boot' = boot /\ received' = received /\ flash' = flash
      /\ toHost' = toHost
  BY SMTT(30) DEF RunApp, bootVars
<1>2. /\ boot = "app" /\ toBoot # <<>>
      /\ toBoot \in Seq(Byte) /\ toBoot' \in Seq(Byte) /\ Sub(toBoot', toBoot)
      /\ Len(toBoot) = 1 => toBoot' = <<>>
      /\ host' = host /\ page' = page /\ result' = result /\ image' = image
      /\ page_size' = page_size /\ Pages' = Pages
  BY ZenonT(30), <1>1, Taken, Facts
<1>3. ListenInv' /\ UnaskedInv'
  BY <1>1, <1>2 DEF Inv, ListenInv, UnaskedInv, AskedInv, Fresh
<1>4. InfoInv'
  <2>1. Contains(toBoot', WRITE_FLASH) => Contains(toBoot, WRITE_FLASH)
    BY <1>2, SubKeeps
  <2> QED  BY <1>1, <1>2, <2>1 DEF Inv, InfoInv, Fresh
<1>5. AskedInv' /\ ConfirmInv'
  BY <1>1, <1>2 DEF Inv, AskedInv, ConfirmInv, Fresh
<1>6. DoneInv'
  <2> SUFFICES ASSUME result # 0 PROVE DoneInv'
    BY <1>2 DEF DoneInv
  <2>1. toBoot' = <<>>
    BY <1>2 DEF Inv, DoneInv
  <2>2. FlashOk(Pages)'
    BY <1>1, <1>2 DEF Inv, DoneInv, FlashOk, PageBytes
  <2> QED  BY <1>1, <1>2, <2>1, <2>2 DEF Inv, DoneInv
<1> QED  BY <1>3, <1>4, <1>5, <1>6 DEF Inv

-----------------------------------------------------------------------------
(* A wrong page size *)

\* What is left of bytes in the order of an image is in that order.
LEMMA PlacedSub ==
  ASSUME NEW S, NEW s \in Seq(S), NEW t \in Seq(S), Sub(s, t),
         NEW n, NEW whole, Placed(t, n, whole)
  PROVE  Placed(s, n, whole)
<1>1. PICK g \in [DOMAIN s -> DOMAIN t] :
             /\ \A i, j \in DOMAIN s : i < j => g[i] < g[j]
             /\ \A i \in DOMAIN s : s[i] = t[g[i]]
  BY DEF Sub
<1>2. PICK f \in [DOMAIN t -> Nat] :
             /\ \A i \in DOMAIN t : Steers(t[i]) =>
                  \/ f[i] \in 1..n /\ t[i] = whole[f[i]]
                  \/ f[i] = 0 /\ t[i] = WRITE_FLASH
             /\ \A i, j \in DOMAIN t : i < j /\ Steers(t[i]) /\ Steers(t[j]) => f[i] < f[j]
  BY DEF Placed
<1> DEFINE h == [i \in DOMAIN s |-> f[g[i]]]
<1>3. h \in [DOMAIN s -> Nat]
  OBVIOUS
<1>4. ASSUME NEW i \in DOMAIN s, Steers(s[i])
      PROVE  \/ h[i] \in 1..n /\ s[i] = whole[h[i]]
             \/ h[i] = 0 /\ s[i] = WRITE_FLASH
  <2>1. g[i] \in DOMAIN t /\ s[i] = t[g[i]] /\ h[i] = f[g[i]]
    BY <1>1
  <2> QED  BY <1>2, <1>4, <2>1
<1>5. ASSUME NEW i \in DOMAIN s, NEW j \in DOMAIN s, i < j, Steers(s[i]), Steers(s[j])
      PROVE  h[i] < h[j]
  <2>1. /\ g[i] \in DOMAIN t /\ g[j] \in DOMAIN t /\ g[i] < g[j]
        /\ s[i] = t[g[i]] /\ s[j] = t[g[j]]
    BY <1>1, <1>5
  <2>2. f[g[i]] < f[g[j]]
    BY <1>2, <1>5, <2>1
  <2> QED  BY <2>2
<1> HIDE DEF h
<1> QED  BY <1>3, <1>4, <1>5 DEF Placed

\* Bytes in the order of a calm image are calm.
LEMMA PlacedCalm ==
  ASSUME NEW s \in Seq(Byte), NEW whole \in Seq(Byte), NEW n \in Nat, n <= Len(whole),
         Calm(whole), Placed(s, n, whole)
  PROVE  Calm(s)
<1>1. PICK f \in [DOMAIN s -> Nat] :
             /\ \A i \in DOMAIN s : Steers(s[i]) =>
                  \/ f[i] \in 1..n /\ s[i] = whole[f[i]]
                  \/ f[i] = 0 /\ s[i] = WRITE_FLASH
             /\ \A i, j \in DOMAIN s : i < j /\ Steers(s[i]) /\ Steers(s[j]) => f[i] < f[j]
  BY DEF Placed
<1>2. /\ DOMAIN s = 1..Len(s) /\ DOMAIN whole = 1..Len(whole)
      /\ Len(s) \in Nat /\ Len(whole) \in Nat
  OBVIOUS
<1> SUFFICES ASSUME NEW d \in DOMAIN s, s[d] = WRITE_FLASH,
                    NEW a \in 1..(d - 1), NEW b \in 1..(d - 1), NEW c \in 1..(d - 1),
                    a < b, b < c, s[a] = Wake[1], s[b] = Wake[1], s[c] = Wake[1]
             PROVE  FALSE
  BY DEF Calm
<1>3. a \in DOMAIN s /\ b \in DOMAIN s /\ c \in DOMAIN s /\ c < d
  BY <1>2
<1>4. Steers(s[a]) /\ Steers(s[b]) /\ Steers(s[c]) /\ Steers(s[d])
  BY DEF Steers
<1>5. f[a] < f[b] /\ f[b] < f[c] /\ f[c] < f[d]
  BY <1>1, <1>3, <1>4
<1>6. /\ f[a] \in 1..n /\ s[a] = whole[f[a]] /\ f[b] \in 1..n /\ s[b] = whole[f[b]]
      /\ f[c] \in 1..n /\ s[c] = whole[f[c]]
  BY <1>1, <1>3, <1>4, Distinct
<1>7. f[d] \in 1..n /\ s[d] = whole[f[d]]
  <2>1. f[d] # 0
    BY <1>5, <1>6
  <2> QED  BY <1>1, <1>4, <2>1
<1>8. /\ f[d] \in DOMAIN whole
      /\ f[a] \in 1..(f[d] - 1) /\ f[b] \in 1..(f[d] - 1) /\ f[c] \in 1..(f[d] - 1)
  BY <1>2, <1>5, <1>6, <1>7
<1> QED  BY <1>5, <1>6, <1>7, <1>8 DEF Calm

\* A page ends before the next one begins.
LEMMA Times ==
  ASSUME NEW p \in Nat, NEW q \in Nat, NEW z \in Nat, p < q
  PROVE  /\ p * z \in Nat /\ q * z \in Nat
         /\ (p + 1) * z = p * z + z /\ p * z + z <= q * z
<1>1. PICK d \in Nat : q = p + 1 + d
  <2>1. q - p - 1 \in Nat /\ q = p + 1 + (q - p - 1)
    OBVIOUS
  <2> QED  BY <2>1
<1>2. p * z \in Nat /\ d * z \in Nat /\ q * z \in Nat
  OBVIOUS
<1>3. (p + 1) * z = p * z + z
  OBVIOUS
<1>4. q * z = p * z + z + d * z
  BY <1>1
<1> QED  BY <1>2, <1>3, <1>4

\* The pages of an image, one after the other, are the image.
LEMMA WholeFacts ==
  ASSUME TypeInv
  PROVE  /\ Whole(image, page_size) \in Seq(Byte)
         /\ Len(Whole(image, page_size)) = page_size * Pages
         /\ \A p \in 0..(Pages - 1) :
              /\ p * page_size \in Nat
              /\ (p + 1) * page_size = p * page_size + page_size
              /\ (p + 1) * page_size <= Len(Whole(image, page_size))
              /\ \A k \in 1..page_size :
                   PageBytes(p)[k] = Whole(image, page_size)[p * page_size + k]
<1>1. image \in Seq(Byte) /\ page_size \in Nat /\ Pages \in Nat
  BY AnyFacts
<1> DEFINE l == page_size * Pages
<1>2. l \in Nat /\ l = Pages * page_size
  BY <1>1
<1>3. Whole(image, page_size) = Page(image, l, 0)
  BY DEF Whole, Pages
<1> HIDE DEF l
<1>4. Whole(image, page_size) \in Seq(Byte) /\ Len(Whole(image, page_size)) = l
  <2>1. Page(image, l, 0) \in Seq(Byte) /\ Len(Page(image, l, 0)) = l
    BY <1>1, <1>2, PageType
  <2> QED  BY <1>3, <2>1
<1>5. ASSUME NEW p \in 0..(Pages - 1)
      PROVE  /\ p * page_size \in Nat
             /\ (p + 1) * page_size = p * page_size + page_size
             /\ (p + 1) * page_size <= l
  <2>1. p \in Nat /\ p < Pages
    BY <1>1
  <2> QED  BY <1>1, <1>2, <2>1, Times
<1>6. ASSUME NEW p \in 0..(Pages - 1), NEW k \in 1..page_size
      PROVE  PageBytes(p)[k] = Whole(image, page_size)[p * page_size + k]
  <2> DEFINE m == p * page_size
  <2>0. m \in Nat /\ m + page_size <= l
    BY <1>5
  <2>2. PageBytes(p)[k] = IF m + k <= Len(image) THEN image[m + k] ELSE Pad
    BY DEF PageBytes, Page
  <2> HIDE DEF m
  <2>1. m + k \in 1..l
    BY <1>1, <1>2, <2>0
  <2>3. Page(image, l, 0)[m + k] = IF m + k <= Len(image) THEN image[m + k] ELSE Pad
    <3>1. 0 * l + (m + k) = m + k
      BY <1>1, <1>2, <2>0
    <3> QED  BY <2>1, <3>1 DEF Page
  <2> QED  BY <1>3, <2>2, <2>3 DEF m
<1> QED  BY <1>4, <1>5, <1>6 DEF l

\* The next page goes on with the image.
LEMMA PlacedPage ==
  ASSUME TypeInv, page < Pages, NEW s \in Seq(Byte),
         Placed(s, page * page_size, Whole(image, page_size))
  PROVE  Placed(s \o (<<CONFIRM>> \o PageBytes(page)), (page + 1) * page_size,
                Whole(image, page_size))
<1> DEFINE bytes == PageBytes(page)
           t == s \o (<<CONFIRM>> \o bytes)
           m == page * page_size
           whole == Whole(image, page_size)
<1>1. page \in 0..(Pages - 1) /\ page_size \in Nat /\ page \in Nat /\ image \in Seq(Byte)
  BY AnyFacts
<1>2. bytes \in Seq(Byte) /\ Len(bytes) = page_size /\ CONFIRM \in Byte
  BY <1>1, PageType, ByteFacts DEF PageBytes
<1>3. m \in Nat /\ (page + 1) * page_size = m + page_size
      /\ \A k \in 1..page_size : bytes[k] = whole[m + k]
  BY <1>1, WholeFacts
<1>4. PICK f \in [DOMAIN s -> Nat] :
             /\ \A i \in DOMAIN s : Steers(s[i]) =>
                  \/ f[i] \in 1..m /\ s[i] = whole[f[i]]
                  \/ f[i] = 0 /\ s[i] = WRITE_FLASH
             /\ \A i, j \in DOMAIN s : i < j /\ Steers(s[i]) /\ Steers(s[j]) => f[i] < f[j]
  BY DEF Placed
<1> HIDE DEF bytes
<1>5. /\ t \in Seq(Byte) /\ Len(t) = Len(s) + 1 + Len(bytes)
      /\ \A i \in 1..Len(s) : t[i] = s[i]
      /\ t[Len(s) + 1] = CONFIRM
      /\ \A j \in 1..Len(bytes) : t[Len(s) + 1 + j] = bytes[j]
  <2>1. bytes \in Seq(Byte) /\ CONFIRM \in Byte
    BY <1>2
  <2> QED  BY <2>1, Followed
<1> HIDE DEF t, m, whole
<1>6. Len(s) \in Nat /\ DOMAIN s = 1..Len(s) /\ DOMAIN t = 1..(Len(s) + 1 + page_size)
  BY <1>2, <1>5
<1> DEFINE h == [i \in DOMAIN t |-> IF i <= Len(s) THEN f[i] ELSE m + (i - Len(s) - 1)]
<1>7. h \in [DOMAIN t -> Nat]
  <2> SUFFICES ASSUME NEW i \in DOMAIN t
               PROVE  (IF i <= Len(s) THEN f[i] ELSE m + (i - Len(s) - 1)) \in Nat
    OBVIOUS
  <2> QED  BY <1>1, <1>3, <1>6
<1>8. ~Steers(CONFIRM)
  BY Distinct DEF Steers
<1>9. ASSUME NEW i \in DOMAIN t, Steers(t[i]), i > Len(s)
      PROVE  h[i] \in (m + 1)..(m + page_size) /\ t[i] = whole[h[i]]
  <2> DEFINE k == i - Len(s) - 1
  <2>1. i # Len(s) + 1
    BY <1>5, <1>8, <1>9
  <2>2. k \in 1..page_size /\ i = Len(s) + 1 + k
    <3>1. ASSUME NEW l \in Nat, NEW z \in Nat, NEW n \in 1..(l + 1 + z), n > l, n # l + 1
          PROVE  n - l - 1 \in 1..z /\ n = l + 1 + (n - l - 1)
      BY <3>1
    <3> QED  BY <1>1, <1>6, <1>9, <2>1, <3>1
  <2>3. h[i] = m + k
    BY <1>6, <1>9
  <2> HIDE DEF k, h
  <2>4. t[i] = bytes[k]
    BY <1>2, <1>5, <2>2
  <2> QED  BY <1>1, <1>3, <2>2, <2>3, <2>4
<1>10. ASSUME NEW i \in DOMAIN t, i <= Len(s)
       PROVE  i \in DOMAIN s /\ h[i] = f[i] /\ t[i] = s[i]
  BY <1>5, <1>6, <1>10
<1> HIDE DEF h
<1>11. ASSUME NEW i \in DOMAIN t, Steers(t[i])
       PROVE  \/ h[i] \in 1..(m + page_size) /\ t[i] = whole[h[i]]
              \/ h[i] = 0 /\ t[i] = WRITE_FLASH
  <2>1. CASE i > Len(s)
    BY <1>1, <1>3, <1>9, <1>11, <2>1
  <2>2. CASE i <= Len(s)
    BY <1>1, <1>3, <1>4, <1>10, <1>11, <2>2
  <2> QED  BY <1>6, <2>1, <2>2
<1>12. ASSUME NEW i \in DOMAIN t, NEW j \in DOMAIN t, i < j, Steers(t[i]), Steers(t[j])
       PROVE  h[i] < h[j]
  <2>1. CASE j <= Len(s)
    <3>1. i <= Len(s)
      BY <1>6, <1>12, <2>1
    <3> QED  BY <1>4, <1>10, <1>12, <2>1, <3>1
  <2>2. CASE i <= Len(s) /\ j > Len(s)
    <3>1. h[j] >= m + 1 /\ h[j] \in Nat
      BY <1>1, <1>3, <1>7, <1>9, <1>12, <2>2
    <3>2. h[i] <= m /\ h[i] \in Nat
      BY <1>3, <1>4, <1>7, <1>10, <1>12, <2>2
    <3> QED  BY <1>3, <3>1, <3>2
  <2>3. CASE i > Len(s)
    <3>1. j > Len(s)
      BY <1>6, <1>12, <2>3
    <3>2. h[i] = m + (i - Len(s) - 1) /\ h[j] = m + (j - Len(s) - 1)
      BY <1>6, <2>3, <3>1 DEF h
    <3> QED  BY <1>3, <1>6, <1>12, <3>2
  <2> QED  BY <1>6, <2>1, <2>2, <2>3
<1> QED  BY <1>3, <1>7, <1>11, <1>12 DEF Placed, t, bytes, whole

\* A boot that reads a wrong page size has sent nothing but the command to write to a
\* CPU1 that listens.
LEMMA MisreadInv ==
  ASSUME TypeInv, InfoInv, NEW n \in 1..Len(DeviceInfo), ReadDeviceInfo(n)
  PROVE  AnyInv'
<1>1. /\ host = "info" /\ n <= Len(toHost) /\ toHost[1] = DeviceInfo[1]
      /\ toBoot' = Append(toBoot, WRITE_FLASH)
      /\ host' = "request" /\ boot' = boot /\ received' = received /\ page' = page
      /\ image' = image
  BY DEF ReadDeviceInfo, InfoBytes, bootVars
<1>2. toHost \in Seq(InfoByte) /\ n \in Nat \ {0} /\ Len(toHost) \in Nat
  BY AnyFacts, SentTypes
<1>3. toHost # <<>> /\ Contains(toHost, DeviceInfo[1])
  BY <1>1, <1>2 DEF Contains
<1>4. boot = "listening" => Fresh
  BY <1>1, <1>3 DEF InfoInv
<1>5. boot = "listening" => received' \o toBoot' = <<WRITE_FLASH>>
  BY <1>1, <1>4 DEF Fresh
<1>6. ListenInv'
  BY <1>1, <1>5 DEF ListenInv, Calm
<1>7. SentInv'
  <2> SUFFICES ASSUME boot = "listening"
               PROVE  Placed(<<WRITE_FLASH>>, page' * page_size', Whole(image', page_size'))
    BY <1>1, <1>5 DEF SentInv
  <2> DEFINE f == [i \in 1..1 |-> 0]
  <2>1. f \in [DOMAIN <<WRITE_FLASH>> -> Nat] /\ f[1] = 0
    OBVIOUS
  <2>2. \A i \in DOMAIN <<WRITE_FLASH>> : i = 1 /\ <<WRITE_FLASH>>[i] = WRITE_FLASH
    OBVIOUS
  <2> HIDE DEF f
  <2> QED  BY <2>1, <2>2 DEF Placed
<1>8. InfoInv'
  BY <1>1 DEF InfoInv
<1> QED  BY <1>6, <1>7, <1>8 DEF AnyInv

\* What a listening CPU1 is sent, or loses, with a wrong page size is still in the order of
\* the image.
LEMMA UnsizedInv ==
  ASSUME PlainImages, TypeInv, TypeInv', WakeInv, AnyInv, ~Sized, [Next]_vars
  PROVE  AnyInv' /\ SizedInv'
<1> DEFINE s == received \o toBoot
           whole == Whole(image, page_size)
<1>1. /\ host # "info" /\ ListenInv /\ SentInv
      /\ received \in Seq(Byte) /\ toBoot \in Seq(Byte) /\ s \in Seq(Byte)
      /\ toBoot' \in Seq(Byte)
  <2>1. received \in Seq(Byte) /\ toBoot \in Seq(Byte) /\ toBoot' \in Seq(Byte)
    BY DEF TypeInv, TypeOK
  <2> QED  BY <2>1, Glued DEF TypeInv, AnyInv
<1>2. CASE Connect
  <2>1. Inv' /\ host' = "info"
    BY <1>1, <1>2, ConnectInv DEF Connect
  <2> QED  BY <2>1 DEF AnyInv, SizedInv, Inv, SentInv
<1>3. ASSUME page_size' = page_size, host' # "info", ListenInv', SentInv'
      PROVE  AnyInv' /\ SizedInv'
  BY <1>3 DEF AnyInv, SizedInv, InfoInv, Sized
<1>4. ASSUME UNCHANGED <<page_size, toBoot, bootVars>>, host' \in {"off", "done"}
      PROVE  AnyInv' /\ SizedInv'
  <2>1. boot' = boot /\ received' = received /\ toBoot' = toBoot
    BY <1>4 DEF bootVars
  <2>2. ListenInv' /\ SentInv'
    BY <1>1, <1>4, <2>1 DEF ListenInv, SentInv
  <2> QED  BY <1>3, <1>4, <2>2
<1>5. CASE WrongAnswer \/ Timeout \/ PowerOff
  BY <1>4, <1>5 DEF WrongAnswer, Timeout, PowerOff, Fail
<1>6. CASE SendPage
  <2>1. /\ host = "request" /\ toBoot' = toBoot \o (<<CONFIRM>> \o PageBytes(page))
        /\ host' \in {"request", "programmed"} /\ page' = page + 1
        /\ page_size' = page_size /\ image' = image
        /\ boot' = boot /\ received' = received
    BY <1>6 DEF SendPage, bootVars
  <2> SUFFICES ASSUME boot = "listening"
               PROVE  /\ Calm(received' \o toBoot')
                      /\ Placed(received' \o toBoot', (page + 1) * page_size, whole)
    BY <1>3, <2>1 DEF ListenInv, SentInv
  <2>2. page < Pages /\ page \in 0..(Pages - 1) /\ page \in Nat /\ page_size \in Nat
    BY <2>1, AnyFacts DEF TypeInv
  <2>3. PageBytes(page) \in Seq(Byte)
    BY <2>2, AnyFacts, PageType DEF PageBytes
  <2>4. received' \o toBoot' = s \o (<<CONFIRM>> \o PageBytes(page))
    <3>1. <<CONFIRM>> \o PageBytes(page) \in Seq(Byte)
      BY <2>3, SentTypes
    <3> QED  BY SMTT(30), <1>1, <2>1, <3>1, ConcatAssociative
  <2>5. s \o (<<CONFIRM>> \o PageBytes(page)) \in Seq(Byte)
    <3>1. <<CONFIRM>> \o PageBytes(page) \in Seq(Byte)
      BY <2>3, SentTypes
    <3> QED  BY <1>1, <3>1, Glued
  <2>6. Placed(s, page * page_size, whole)
    BY <1>1, <2>1 DEF SentInv
  <2> HIDE DEF s
  <2>7. Placed(s \o (<<CONFIRM>> \o PageBytes(page)), (page + 1) * page_size, whole)
    BY <1>1, <2>2, <2>6, PlacedPage
  <2>8. /\ whole \in Seq(Byte) /\ (page + 1) * page_size \in Nat
        /\ (page + 1) * page_size <= Len(whole)
    BY <2>2, WholeFacts
  <2>9. Calm(whole)
    <3>1. Restarts
      BY <2>1 DEF WakeInv
    <3>2. page_size \in Uninitialised \ {PageSize} /\ image \in Images
      BY DEF Sized, TypeInv, TypeOK
    <3> QED  BY <3>1, <3>2 DEF PlainImages, PlainImage
  <2> HIDE DEF whole
  <2> QED  BY <2>4, <2>5, <2>7, <2>8, <2>9, PlacedCalm
<1>7. CASE SendEnd \/ Written
  <2>1. PICK b \in {REQUEST, RUN} : toBoot' = Append(toBoot, b)
    BY <1>7 DEF SendEnd, Written
  <2>2. /\ page_size' = page_size /\ boot' = boot /\ received' = received
        /\ host' \in {"confirm", "done"}
    BY <1>7 DEF SendEnd, Written, bootVars
  <2>3. b \in Byte /\ <<b>> \in Seq(Byte) /\ ~Contains(<<b>>, WRITE_FLASH)
    BY <2>1, ByteFacts, Distinct DEF Contains
  <2>4. received \o Append(toBoot, b) = s \o <<b>>
    <3>1. Append(toBoot, b) = toBoot \o <<b>>
      BY <1>1, <2>3, AppendProperties
    <3> QED  BY SMTT(30), <1>1, <2>3, <3>1, ConcatAssociative
  <2>5. boot = "listening" => Calm(s \o <<b>>)
    BY <1>1, <2>3, CalmGlue DEF ListenInv
  <2>6. ListenInv' /\ SentInv'
    BY <2>1, <2>2, <2>4, <2>5 DEF ListenInv, SentInv
  <2> QED  BY <1>3, <2>2, <2>6
<1>8. ASSUME page_size' = page_size, image' = image, page' = page, host' = host,
             boot = "listening", boot' = "listening", received' \o toBoot' \in Seq(Byte),
             Sub(received' \o toBoot', s)
      PROVE  AnyInv' /\ SizedInv'
  <2> DEFINE t == received' \o toBoot'
  <2>1. Calm(t)
    BY <1>1, <1>8, SubKeeps DEF ListenInv
  <2>2. host = "request" => Placed(t, page * page_size, whole)
    BY <1>1, <1>8, PlacedSub DEF SentInv
  <2>3. ListenInv' /\ SentInv'
    BY <1>8, <2>1, <2>2 DEF ListenInv, SentInv
  <2> QED  BY <1>1, <1>3, <1>8, <2>3
<1>9. ASSUME page_size' = page_size, host' = host, boot' # "listening"
      PROVE  AnyInv' /\ SizedInv'
  BY <1>1, <1>3, <1>9 DEF ListenInv, SentInv
<1>10. CASE Reset
  <2>1. /\ received' \o toBoot' = <<>> /\ page_size' = page_size /\ host' = host
    BY <1>10 DEF Reset, hostVars
  <2>2. Calm(<<>>) /\ \A n, w : Placed(<<>>, n, w)
    <3>1. ASSUME NEW n, NEW w PROVE Placed(<<>>, n, w)
      <4> DEFINE f == [i \in {} |-> 0]
      <4>1. DOMAIN <<>> = {} /\ f \in [{} -> Nat]
        OBVIOUS
      <4> QED  BY <4>1 DEF Placed
    <3> QED  BY <3>1 DEF Calm
  <2>3. ListenInv' /\ SentInv'
    BY <2>1, <2>2 DEF ListenInv, SentInv
  <2> QED  BY <1>1, <1>3, <2>1, <2>3
<1>11. ASSUME NEW k \in 1..Len(toBoot), LoseToBoot(k) PROVE AnyInv' /\ SizedInv'
  <2>1. /\ toBoot' = RemoveAt(toBoot, k) /\ received' = received /\ boot' = boot
        /\ page_size' = page_size /\ image' = image /\ page' = page /\ host' = host
    BY <1>11 DEF LoseToBoot, hostVars, bootVars
  <2>2. k \in DOMAIN toBoot
    BY <1>1
  <2>3. Sub(toBoot', toBoot)
    BY <1>1, <2>1, <2>2, SubRemove
  <2>4. Sub(received \o toBoot', s) /\ received \o toBoot' \in Seq(Byte)
    BY <1>1, <2>3, SubBehind, Glued
  <2> QED  BY <1>8, <1>9, <2>1, <2>4
<1>12. ASSUME UNCHANGED <<page_size, image, page, host, toBoot, boot, received>>
       PROVE  AnyInv' /\ SizedInv'
  <2>1. ListenInv' /\ SentInv'
    BY <1>1, <1>12 DEF ListenInv, SentInv
  <2> QED  BY <1>1, <1>3, <1>12, <2>1
<1>13. CASE (\E k \in 1..Len(toHost) : LoseToHost(k)) \/ UNCHANGED vars
  BY <1>12, <1>13 DEF LoseToHost, vars, hostVars, bootVars
<1>14. ASSUME NEW b \in Byte, Listen(b) PROVE AnyInv' /\ SizedInv'
  <2>1. /\ boot = "listening" /\ toBoot # <<>> /\ b = Head(toBoot) /\ toBoot' = Tail(toBoot)
        /\ page_size' = page_size /\ image' = image /\ page' = page /\ host' = host
    BY <1>14 DEF Listen, Receive, hostVars
  <2>2. CASE Append(received, b) = Wake
    BY <1>9, <1>14, <2>1, <2>2 DEF Listen
  <2>3. CASE Append(received, b) # Wake /\ b = Wake[1]
    <3>1. received' = Append(received, b) /\ boot' = boot
      BY <1>14, <2>3 DEF Listen
    <3>2. received' \o toBoot' = s
      BY <1>1, <2>1, <3>1, Moved
    <3>3. UNCHANGED <<page_size, page, host, boot>>
      BY <2>1, <3>1
    <3>4. ListenInv' /\ SentInv'
      BY <1>1, <2>1, <3>2, <3>3 DEF ListenInv, SentInv
    <3> QED  BY <1>1, <1>3, <2>1, <3>4
  <2>4. CASE Append(received, b) # Wake /\ b # Wake[1]
    <3>1. received' = <<>> /\ boot' = boot
      BY <1>14, <2>4 DEF Listen
    <3>2. received' \o toBoot' = toBoot'
      BY <1>1, <3>1, ConcatEmptySeq
    <3>3. Sub(toBoot', toBoot) /\ Sub(toBoot, s)
      BY <1>1, <2>1, SubTail, SubSuffix
    <3> HIDE DEF s
    <3>4. /\ boot' = "listening" => Calm(toBoot')
          /\ boot' = "listening" /\ host = "request" => Placed(toBoot', page * page_size, whole)
      <4>1. Calm(s) /\ (host = "request" => Placed(s, page * page_size, whole))
        BY <1>1, <2>1 DEF ListenInv, SentInv, s
      <4>2. Calm(toBoot) /\ (host = "request" => Placed(toBoot, page * page_size, whole))
        BY <1>1, <3>3, <4>1, SubKeeps, PlacedSub
      <4> QED  BY <1>1, <3>3, <4>2, SubKeeps, PlacedSub
    <3>5. ListenInv' /\ SentInv'
      BY <2>1, <3>2, <3>4 DEF ListenInv, SentInv
    <3> QED  BY <1>1, <1>3, <2>1, <3>5
  <2> QED  BY <2>2, <2>3, <2>4
<1>15. ASSUME NEW b \in Byte, ObeyCommand(b) \/ AwaitPage(b) \/ ReceivePage(b) \/ RunApp(b)
       PROVE  AnyInv' /\ SizedInv'
  <2>1. page_size' = page_size /\ host' = host /\ boot' # "listening"
    BY <1>15 DEF ObeyCommand, AwaitPage, ReceivePage, RunApp, Receive, hostVars, bootVars
  <2> QED  BY <1>9, <2>1
<1>16. ASSUME NEW n \in 1..Len(DeviceInfo), ReadDeviceInfo(n) \/ WrongDeviceInfo(n)
       PROVE  FALSE
  BY <1>1, <1>16 DEF ReadDeviceInfo, WrongDeviceInfo
<1> QED
  BY <1>2, <1>5, <1>6, <1>7, <1>10, <1>11, <1>13, <1>14, <1>15, <1>16
  DEF Next, Host, Boot, Lose

-----------------------------------------------------------------------------
(* What the firmware reports *)

\* With the right page size no step of the firmware, the bootloader or the line breaks the
\* invariant.
LEMMA SizedStepInv ==
  ASSUME SizedStep, PlainImages, TypeInv, TypeInv', WakeInv, Inv, [Next]_vars
  PROVE  Inv'
<1>1. CASE Connect
  BY <1>1, ConnectInv DEF Inv
<1>2. ASSUME NEW n \in 1..Len(DeviceInfo), ReadDeviceInfo(n) PROVE Inv'
  BY <1>2, ReadInv
<1>3. ASSUME NEW n \in 1..Len(DeviceInfo), WrongDeviceInfo(n) PROVE Inv'
  BY <1>3, StoppedInv DEF WrongDeviceInfo, Fail, TypeInv
<1>4. CASE SendPage
  BY <1>4, SendPageInv
<1>5. CASE SendEnd
  BY <1>5, SendEndInv
<1>6. CASE Written
  BY <1>6, WrittenInv
<1>7. CASE WrongAnswer
  BY <1>7, StoppedInv DEF WrongAnswer, Fail, TypeInv
<1>8. CASE Timeout
  BY <1>8, StoppedInv DEF Timeout, TimedReads, Waiting, Fail, TypeInv
<1>9. CASE PowerOff
  BY <1>9, StoppedInv DEF PowerOff
<1>10. CASE Reset
  BY <1>10, ResetInv
<1>11. ASSUME NEW k \in 1..Len(toBoot), LoseToBoot(k) PROVE Inv'
  BY <1>11, Facts, LostToBootInv
<1>12. ASSUME NEW k \in 1..Len(toHost), LoseToHost(k) PROVE Inv'
  BY <1>12, Facts, LostToHostInv
<1>13. ASSUME NEW b \in Byte, Listen(b) PROVE Inv'
  BY <1>13, ListenStepInv
<1>14. ASSUME NEW b \in Byte, ObeyCommand(b) PROVE Inv'
  BY <1>14, ObeyInv
<1>15. ASSUME NEW b \in Byte, AwaitPage(b) PROVE Inv'
  BY <1>15, AwaitInv
<1>16. ASSUME NEW b \in Byte, ReceivePage(b) PROVE Inv'
  BY <1>16, ReceiveInv
<1>17. ASSUME NEW b \in Byte, RunApp(b) PROVE Inv'
  BY <1>17, RunAppInv
<1>18. CASE UNCHANGED vars
  BY <1>18 DEF vars, hostVars, bootVars, Inv, ListenInv, Fresh, FlashOk, PageBytes, Pages,
               InfoInv, AskedInv, UnaskedInv, ConfirmInv, DoneInv
<1> QED
  BY <1>1, <1>2, <1>3, <1>4, <1>5, <1>6, <1>7, <1>8, <1>9, <1>10, <1>11, <1>12, <1>13,
     <1>14, <1>15, <1>16, <1>17, <1>18
  DEF Next, Host, Boot, Lose

\* Nor with any other, as far as it holds with any.
LEMMA InvStep ==
  ASSUME PlainImages, TypeInv, TypeInv', WakeInv, AnyInv, SizedInv, [Next]_vars
  PROVE  AnyInv' /\ SizedInv'
<1>1. CASE ~Sized
  BY <1>1, UnsizedInv
<1>2. CASE Sized /\ Sized'
  <2>1. Inv'
    BY <1>2, SizedStepInv DEF SizedStep, SizedInv
  <2> QED  BY <1>2, <2>1 DEF SizedInv, AnyInv, Inv, SentInv
<1>3. CASE Sized /\ ~Sized'
  <2>1. PICK n \in 1..Len(DeviceInfo) : ReadDeviceInfo(n)
    <3>1. page_size' # page_size /\ page_size' # PageSize
      BY <1>3 DEF Sized
    <3> QED
      BY <3>1 DEF Next, Host, Boot, Lose, Connect, SendPage, SendEnd, Written, WrongAnswer,
                  Timeout, Fail, WrongDeviceInfo, PowerOff, Reset, LoseToBoot, LoseToHost, Listen,
                  ObeyCommand, AwaitPage, ReceivePage, RunApp, Receive, vars, hostVars
  <2>2. AnyInv'
    BY <2>1, MisreadInv DEF AnyInv
  <2> QED  BY <1>3, <2>2 DEF SizedInv
<1> QED  BY <1>1, <1>2, <1>3

\* A CPU1 that was woken listens no more until it is reset.
LEMMA WakeInvStep ==
  ASSUME TypeInv, WakeInv, [Next]_vars
  PROVE  WakeInv'
<1> SUFFICES ASSUME boot' = "listening", ~Restarts PROVE WakeInv'
  BY DEF WakeInv
<1>1. toHost \in Seq(InfoByte)
  BY DEF TypeInv, TypeOK, InfoByte
<1>2. CASE Connect
  BY <1>2 DEF WakeInv, Connect
<1>3. CASE \/ SendPage \/ SendEnd \/ Written \/ WrongAnswer
           \/ \E n \in 1..Len(DeviceInfo) : ReadDeviceInfo(n) \/ WrongDeviceInfo(n)
  <2>1. boot = "listening" /\ toHost # <<>>
    BY <1>3, SentTypes DEF SendPage, SendEnd, Written, Answer, WrongAnswer, ReadDeviceInfo,
                           WrongDeviceInfo, InfoBytes, Fail, bootVars
  <2> QED  BY <2>1 DEF WakeInv
<1>4. CASE Timeout \/ PowerOff
  BY <1>4 DEF WakeInv, Timeout, PowerOff, Fail, bootVars
<1>5. CASE Reset
  BY <1>5 DEF Reset
<1>6. CASE Lose
  <2>1. CASE \E k \in 1..Len(toBoot) : LoseToBoot(k)
    BY <2>1 DEF WakeInv, LoseToBoot, hostVars, bootVars
  <2>2. CASE \E k \in 1..Len(toHost) : LoseToHost(k)
    <3>1. boot = "listening" /\ toHost # <<>>
      BY <1>1, <2>2 DEF LoseToHost, bootVars
    <3> QED  BY <3>1 DEF WakeInv
  <2> QED  BY <1>6, <2>1, <2>2 DEF Lose
<1>7. CASE Boot
  BY <1>7 DEF WakeInv, Boot, Listen, ObeyCommand, AwaitPage, ReceivePage, RunApp, Receive,
              hostVars, bootVars
<1>8. CASE UNCHANGED vars
  BY <1>8 DEF WakeInv, vars, hostVars, bootVars
<1> QED  BY <1>2, <1>3, <1>4, <1>5, <1>6, <1>7, <1>8 DEF Next, Host

\* Nothing is on the line at first.
LEMMA InitInv == Init => TypeInv /\ WakeInv /\ AnyInv /\ SizedInv
<1> SUFFICES ASSUME Init PROVE TypeInv /\ WakeInv /\ AnyInv /\ SizedInv
  OBVIOUS
<1>1. TypeInv
  BY InitType
<1>2. received \o toBoot = <<>>
  BY DEF Init
<1>3. Calm(<<>>)
  BY DEF Calm
<1>4. Inv /\ SentInv
  BY <1>2, <1>3 DEF Init, Inv, ListenInv, InfoInv, AskedInv, UnaskedInv, ConfirmInv, DoneInv, SentInv
<1>5. WakeInv
  BY DEF Init, WakeInv
<1> QED  BY <1>1, <1>4, <1>5 DEF AnyInv, SizedInv, Inv

\* The invariant of every reachable state.
LEMMA AlwaysInv ==
  ASSUME PlainImages
  PROVE  Spec => [](TypeInv /\ WakeInv /\ AnyInv /\ SizedInv)
<1>1. TypeInv /\ WakeInv /\ AnyInv /\ SizedInv /\ [Next]_vars
        => (TypeInv /\ WakeInv /\ AnyInv /\ SizedInv)'
  BY TypeStep, WakeInvStep, InvStep
<1> QED  BY <1>1, InitInv, PTL DEF Spec

\* The pages that writeFlash has sent, and CPU1 keeps, are the image.
LEMMA DoneInstalled ==
  ASSUME TypeInv, Sized, FlashOk(Pages)
  PROVE  Installed
<1>1. Pages = (Len(image) \div PageSize) + 1 /\ Len(image) \div PageSize \in Nat
  BY AnyFacts, Quotient DEF Pages, Sized
<1>2. ASSUME NEW p \in DOMAIN flash, p <= Len(image) \div PageSize
      PROVE  flash[p] = Page(image, PageSize, p)
  <2>1. p \in Nat
    BY SizeAssumption DEF TypeInv
  <2>2. p < Pages
    BY <1>1, <1>2, <2>1
  <2> QED  BY <2>2 DEF FlashOk, PageBytes, Sized
<1> QED  BY <1>2 DEF Installed

\* When writeFlash returns the length of the image and had the page size of CPU1, CPU1's
\* flash holds the image: nothing that is lost, late, reset or switched off makes the
\* firmware take an answer for another, although the answers do not say what they answer.
\* A page size that a device info cut short left wrong (tsb.cpp:232) is the exception, at
\* its own boot and at no later one.
THEOREM WrittenCorrect ==
  ASSUME PlainImages
  PROVE  Spec => []WrittenIsFlashed
<1>1. TypeInv /\ SizedInv => WrittenIsFlashed
  BY DoneInstalled DEF SizedInv, Inv, DoneInv, WrittenIsFlashed
<1> QED  BY <1>1, AlwaysInv, PTL

-----------------------------------------------------------------------------
(* Refinement *)

\* A program of one page is written in one step: there is no half-written one.
TwoPages == Capacity >= 2 /\ \A i \in Images : Len(i) >= PageSize

OldFlash == \A p \in DOMAIN flash : \A k \in DOMAIN flash[p] : flash[p][k] = Old

\* CPU1 is not touched before there is an image.
Untouched == attempts = 0 => /\ host = "off" /\ result = 0
                             /\ boot = "listening" /\ toBoot = <<>>
                             /\ OldFlash

\* Before the first attempt to install nothing programs CPU1.
LEMMA UntouchedStep ==
  ASSUME TypeInv, TypeInv', Untouched, [Next]_vars
  PROVE  Untouched'
<1>1. CASE Connect
  <2>1. attempts' # 0
    BY <1>1, SizeAssumption DEF Connect, TypeInv, TypeOK
  <2> QED  BY <2>1 DEF Untouched
<1>2. ASSUME attempts' = attempts, attempts # 0 PROVE Untouched'
  BY <1>2 DEF Untouched
<1>3. ASSUME attempts' = attempts, attempts = 0, UNCHANGED <<host, result, boot, toBoot, flash>>
      PROVE  Untouched'
  BY <1>3 DEF Untouched, OldFlash
<1>4. CASE \/ SendPage \/ SendEnd \/ Written \/ WrongAnswer \/ Timeout \/ PowerOff
           \/ \E n \in 1..Len(DeviceInfo) : ReadDeviceInfo(n) \/ WrongDeviceInfo(n)
  <2>1. attempts' = attempts /\ host # "off"
    BY <1>4 DEF SendPage, SendEnd, Written, WrongAnswer, Timeout, PowerOff, Fail, Waiting,
                TimedReads, ReadDeviceInfo, WrongDeviceInfo
  <2> QED  BY <1>2, <2>1 DEF Untouched
<1>5. CASE Reset
  BY <1>2, <1>5 DEF Reset, hostVars, Untouched, OldFlash
<1>6. CASE \E k \in 1..Len(toBoot) : LoseToBoot(k)
  <2>1. attempts' = attempts /\ toBoot # <<>>
    BY <1>6, AnyFacts DEF LoseToBoot, hostVars
  <2> QED  BY <1>2, <2>1 DEF Untouched
<1>7. CASE \E k \in 1..Len(toHost) : LoseToHost(k)
  BY <1>2, <1>3, <1>7 DEF LoseToHost, hostVars, bootVars
<1>8. CASE Boot
  <2>1. attempts' = attempts /\ toBoot # <<>>
    BY <1>8 DEF Boot, Listen, ObeyCommand, AwaitPage, ReceivePage, RunApp, Receive, hostVars
  <2> QED  BY <1>2, <2>1 DEF Untouched
<1>9. CASE UNCHANGED vars
  BY <1>2, <1>3, <1>9 DEF vars, hostVars, bootVars
<1> QED
  BY <1>1, <1>4, <1>5, <1>6, <1>7, <1>8, <1>9 DEF Next, Host, Lose

\* The flash cannot be the image and be untouched.
LEMMA NotBoth ==
  ASSUME TwoPages, TypeInv, Installed
  PROVE  ~OldFlash
<1>1. /\ PageSize \in Nat \ {0} /\ image \in Seq(Byte)
      /\ Len(image) \div PageSize \in Nat
  BY AnyFacts, Quotient
<1>2. 0 \in DOMAIN flash
  BY SizeAssumption DEF TwoPages, TypeInv
<1>3. flash[0] = Page(image, PageSize, 0)
  BY <1>1, <1>2 DEF Installed
<1>4. Page(image, PageSize, 0) \in Seq(Byte) /\ Len(Page(image, PageSize, 0)) = PageSize
  BY <1>1, PageType
<1>5. 1 \in DOMAIN flash[0] /\ flash[0][1] \in Byte
  BY <1>1, <1>3, <1>4
<1> QED  BY <1>2, <1>5, MarkerAssumption DEF OldFlash

\* What runs on CPU1 is told by its flash.
LEMMA ProgramIs ==
  ASSUME TwoPages, TypeInv
  PROVE  /\ Installed => Program = image
         /\ OldFlash => Program = Before
         /\ ~Installed /\ ~OldFlash => Program = Partial
<1>1. ~(Installed /\ OldFlash)
  BY NotBoth
<1>2. Program = CASE Installed -> image [] OldFlash -> Before [] OTHER -> Partial
  BY DEF Program, OldFlash
<1> QED  BY <1>1, <1>2

\* The same of the state after a step.
LEMMA NextProgramIs ==
  TwoPages /\ TypeInv' =>
    (/\ Installed => Program = image
     /\ ~Installed /\ ~OldFlash => Program = Partial)'
<1>1. TwoPages /\ TypeInv =>
        /\ Installed => Program = image
        /\ ~Installed /\ ~OldFlash => Program = Partial
  BY ProgramIs
<1>2. (TwoPages /\ TypeInv =>
         /\ Installed => Program = image
         /\ ~Installed /\ ~OldFlash => Program = Partial)'
  BY <1>1, PTL
<1>3. TwoPages' <=> TwoPages
  BY DEF TwoPages
<1> QED  BY <1>2, <1>3

\* Only a page that is complete changes the program.
LEMMA SameProgram ==
  ASSUME image' = image, flash' = flash
  PROVE  Program' = Program
BY DEF Program, Installed, Before

\* An image that fills a page has another.
LEMMA SecondPage ==
  ASSUME NEW length \in Nat, NEW size \in Nat \ {0}, length >= size
  PROVE  length \div size >= 1
OBVIOUS

\* A page that is complete begins the program, or goes on with it, or finishes it.
LEMMA DeliverPage ==
  ASSUME TwoPages, TypeInv, TypeInv', SizedInv, ~Misreported, Untouched,
         NEW b, ReceivePage(b)
  PROVE  [Delivery!DeliveryNext]_(Delivery!deliveryVars)
<1>0. Receive("page", b)
  BY DEF ReceivePage
<1>1. /\ boot = "page" /\ b \in Byte
      /\ result' = result /\ image' = image /\ attempts' = attempts
  <2>1. toBoot \in Seq(Byte)
    BY AnyFacts
  <2> QED  BY <1>0, <2>1, TailFacts DEF Receive, hostVars
<1>2. attempts # 0 /\ result = 0
  BY <1>1 DEF Untouched, Misreported, SizedInv, Inv, DoneInv
<1>3. image # None
  BY AnyFacts, MarkerAssumption
<1>4. CASE Program' = Program
  BY <1>1, <1>4 DEF Delivery!deliveryVars
<1>5. CASE Program' = Partial
  BY <1>1, <1>2, <1>3, <1>5 DEF Delivery!DeliveryNext, Delivery!Begin
<1>6. CASE Program = Partial /\ Program' = image
  BY <1>1, <1>2, <1>3, <1>6 DEF Delivery!DeliveryNext, Delivery!Finish
<1>7. CASE flash' = flash
  BY <1>1, <1>4, <1>7, SameProgram
<1>8. CASE flash' # flash
  <2> DEFINE bytes == Append(received, b)
  <2>1. /\ received \in Seq(Byte) /\ PageSize \in Nat \ {0} /\ image \in Seq(Byte)
        /\ image \in Images /\ Len(image) \in Nat /\ Len(received) \in Nat
    BY AnyFacts
  <2>2. bytes \in Seq(Byte) /\ bytes[1] \in Byte /\ 1 \in DOMAIN bytes
    <3>1. bytes \in Seq(Byte) /\ Len(bytes) = Len(received) + 1
      BY <1>1, <2>1, Appended
    <3> HIDE DEF bytes
    <3>2. 1 \in 1..Len(bytes)
      BY <2>1, <3>1
    <3> QED  BY <3>1, <3>2
  <2>3. flash' = [p \in DOMAIN flash |-> IF p = address THEN bytes ELSE flash[p]]
    BY <1>8 DEF ReceivePage
  <2> HIDE DEF bytes
  <2>4. address \in DOMAIN flash
    <3>1. SUFFICES ASSUME address \notin DOMAIN flash PROVE flash' = flash
      BY <1>8
    <3>2. flash = [p \in DOMAIN flash |-> flash[p]]
      BY DEF TypeInv
    <3>3. flash' = [p \in DOMAIN flash |-> flash[p]]
      BY <2>3, <3>1
    <3> QED  BY <3>2, <3>3
  <2>5. ~OldFlash'
    BY <2>2, <2>3, <2>4, MarkerAssumption DEF OldFlash
  <2>6. CASE ~Installed'
    BY <1>5, <2>5, <2>6, NextProgramIs
  <2>7. CASE Installed'
    <3>1. Program' = image
      BY <1>1, <2>7, NextProgramIs
    <3>2. ~OldFlash
      <4>1. Len(image) \div PageSize \in Nat /\ Len(image) \div PageSize >= 1
        <5>1. Len(image) >= PageSize
          BY <2>1 DEF TwoPages
        <5> QED  BY <2>1, <5>1, Quotient, SecondPage
      <4>2. PICK p \in {0, 1} : p # address
        OBVIOUS
      <4>3. p \in DOMAIN flash /\ p \in Nat /\ p <= Len(image) \div PageSize
        BY <4>1, SizeAssumption DEF TwoPages, TypeInv
      <4>4. flash[p] = Page(image, PageSize, p)
        <5>1. flash'[p] = Page(image, PageSize, p)
          BY <1>1, <2>3, <2>7, <4>3 DEF Installed
        <5> QED  BY <2>3, <4>2, <4>3, <5>1
      <4>5. Page(image, PageSize, p) \in Seq(Byte) /\ Len(Page(image, PageSize, p)) = PageSize
        BY <2>1, <4>3, PageType
      <4>6. 1 \in DOMAIN flash[p] /\ flash[p][1] \in Byte
        BY <2>1, <4>4, <4>5
      <4> QED  BY <4>3, <4>6, MarkerAssumption DEF OldFlash
    <3>3. Program \in {image, Partial}
      BY <3>2, ProgramIs
    <3> QED  BY <1>4, <1>6, <3>1, <3>3
  <2> QED  BY <2>6, <2>7
<1> QED  BY <1>7, <1>8

\* Each step of the installation is a step of the delivery, or leaves it alone.
LEMMA DeliveryStep ==
  ASSUME TwoPages, TypeInv, TypeInv', SizedInv, ~Misreported, ~Misreported', Untouched,
         [Next]_vars
  PROVE  [Delivery!DeliveryNext]_(Delivery!deliveryVars)
<1>1. ASSUME UNCHANGED <<attempts, result, image, flash>>
      PROVE  [Delivery!DeliveryNext]_(Delivery!deliveryVars)
  BY <1>1, SameProgram DEF Delivery!deliveryVars
<1>2. \* An image becomes pending: CPU1 has one whole.
      ASSUME UNCHANGED <<image, flash>>, attempts' # 0, result' = 0,
             attempts = 0 \/ result # 0
      PROVE  [Delivery!DeliveryNext]_(Delivery!deliveryVars)
  <2>1. Program' = Program /\ image \in Images
    BY <1>2, SameProgram, AnyFacts
  <2>2. Program \in {image, Before}
    <3>1. CASE attempts = 0
      BY <3>1, ProgramIs DEF Untouched
    <3>2. CASE result # 0
      BY <3>2, ProgramIs, DoneInstalled DEF Misreported, SizedInv, Inv, DoneInv
    <3> QED  BY <1>2, <3>1, <3>2
  <2> QED  BY <1>2, <2>1, <2>2 DEF Delivery!DeliveryNext, Delivery!Store
<1>3. CASE Connect
  <2>1. attempts' # 0 /\ result' = 0 /\ UNCHANGED <<image, flash>>
    BY <1>3, SizeAssumption DEF Connect, TypeInv, TypeOK, bootVars
  <2>2. CASE attempts = 0 \/ result # 0
    BY <1>2, <2>1, <2>2
  <2>3. CASE attempts # 0 /\ result = 0
    BY <2>1, <2>3, SameProgram DEF Delivery!deliveryVars
  <2> QED  BY <2>2, <2>3
<1>4. CASE PowerOff
  <2>1. attempts' = attempts /\ result' = 0 /\ UNCHANGED <<image, flash>>
    BY <1>4 DEF PowerOff, bootVars
  <2>2. CASE attempts # 0 /\ result # 0
    BY <1>2, <2>1, <2>2
  <2>3. CASE attempts = 0 \/ result = 0
    BY <2>1, <2>3, SameProgram DEF Delivery!deliveryVars
  <2> QED  BY <2>2, <2>3
<1>5. CASE Written
  <2>1. /\ attempts' = attempts /\ result' = Len(image) /\ UNCHANGED <<image, flash>>
        /\ host = "confirm" /\ toHost # <<>>
    BY <1>5 DEF Written, Answer, bootVars
  <2>2. attempts # 0 /\ result = 0
    BY <2>1 DEF Untouched, TypeInv
  <2>3. Program' = Program
    BY <2>1, SameProgram
  <2>4. CASE Len(image) = 0
    BY <2>1, <2>2, <2>3, <2>4 DEF Delivery!deliveryVars
  <2>5. CASE Len(image) # 0
    <3>1. Sized
      BY <1>5, <2>1, <2>5 DEF Misreported, Sized, Written
    <3>2. Program = image
      BY <2>1, <3>1, ProgramIs, DoneInstalled DEF SizedInv, Inv, ConfirmInv, TypeInv
    <3> QED  BY <2>1, <2>2, <2>3, <2>5, <3>2 DEF Delivery!DeliveryNext, Delivery!Clear
  <2> QED  BY <2>4, <2>5
<1>6. CASE \/ SendPage \/ SendEnd \/ WrongAnswer \/ Timeout
           \/ \E n \in 1..Len(DeviceInfo) : ReadDeviceInfo(n) \/ WrongDeviceInfo(n)
  <2>1. UNCHANGED <<attempts, result, image, flash>>
    BY <1>6 DEF SendPage, SendEnd, WrongAnswer, Timeout, Fail, ReadDeviceInfo,
                WrongDeviceInfo, bootVars
  <2> QED  BY <1>1, <2>1
<1>7. CASE Reset \/ Lose
  <2>1. UNCHANGED <<attempts, result, image, flash>>
    BY <1>7 DEF Reset, Lose, LoseToBoot, LoseToHost, hostVars, bootVars
  <2> QED  BY <1>1, <2>1
<1>8. ASSUME NEW b \in Byte, Listen(b) \/ ObeyCommand(b) \/ AwaitPage(b) \/ RunApp(b)
      PROVE  [Delivery!DeliveryNext]_(Delivery!deliveryVars)
  <2>1. UNCHANGED <<attempts, result, image, flash>>
    BY <1>8 DEF Listen, ObeyCommand, AwaitPage, RunApp, Receive, hostVars, bootVars
  <2> QED  BY <1>1, <2>1
<1>9. ASSUME NEW b \in Byte, ReceivePage(b)
      PROVE  [Delivery!DeliveryNext]_(Delivery!deliveryVars)
  BY <1>9, DeliverPage
<1>10. CASE UNCHANGED vars
  BY <1>1, <1>10 DEF vars, hostVars, bootVars
<1> QED
  BY <1>3, <1>4, <1>5, <1>6, <1>7, <1>8, <1>9, <1>10 DEF Next, Host, Boot

\* Byte by byte the installation is the delivery of the abstract specification: CPU1's
\* program is only touched while the image is pending, and the image is given up only
\* with CPU1 running it.  A success that is reported with a wrong page size (tsb.cpp:232),
\* and what follows it until the next boot, is the exception.
THEOREM DeliversByBytes ==
  ASSUME PlainImages, TwoPages
  PROVE  Spec => DeliversUnlessMisread
<1>1. Init => Untouched
  BY DEF Init, Untouched, OldFlash
<1>2. TypeInv /\ TypeInv' /\ Untouched /\ [Next]_vars => Untouched'
  BY UntouchedStep
<1>3. Init => Delivery!DeliveryInit
  <2> SUFFICES ASSUME Init PROVE Delivery!DeliveryInit
    OBVIOUS
  <2>1. Program = Before
    BY <1>1, InitType, ProgramIs DEF Init, Untouched
  <2> QED  BY <2>1 DEF Init, Delivery!DeliveryInit
<1>4. TypeInv /\ TypeInv' /\ SizedInv /\ Untouched /\ [Next]_vars
        => [Misreported \/ Misreported' \/ Delivery!DeliveryNext]_(Delivery!deliveryVars)
  BY DeliveryStep
<1> QED  BY <1>1, <1>2, <1>3, <1>4, AlwaysInv, PTL DEF Spec, DeliversUnlessMisread
=============================================================================
