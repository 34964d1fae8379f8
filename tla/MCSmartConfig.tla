--------------------------- MODULE MCSmartConfig ---------------------------
(* A small instance of SmartConfig: bytes of three bits, values of one or   *)
(* two bytes, and messages that combine the elements.                       *)
EXTENDS SmartConfig, Bitwise

MCBitXor(a, b) == a ^^ b
MCKey == <<5, 3>>
MCOwner == {<<2>>}
MCDefault == <<>>
MCErased == <<7, 7>>
MCX == 6

Element(t, v) == [type |-> t, value |-> v]
Password(v) == Element(TYPE_PASSWORD, v)
NewOwner == Element(TYPE_OWNER, <<2>>)
Mode(v) == Element(TYPE_MODE, v)
Ota == Element(TYPE_OTA, <<>>)

MCMessages == {
  <<>>,
  <<Mode(<<4>>), NewOwner, Mode(<<6>>)>>,
  <<Password(<<1>>)>>,
  <<NewOwner, Password(<<3, 1>>), Mode(<<4>>)>>,
  <<Ota, Password(<<1>>)>>,
  <<Password(<<1>>), Mode(<<6>>), Ota>>}
=============================================================================
