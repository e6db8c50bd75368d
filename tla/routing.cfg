SPECIFICATION Spec
CONSTANTS
  Account = {a1, a2}
  p1 = p1
  Phone = {p1}
  AdminPhone = {p1}
  Target = {t1, t2}
  PhoneOf <- MCPhoneOf
  NoAccount = NoAccount
  NoTarget = NoTarget
  NoChat = NoChat
  MaxDoses = 2
  MaxReplies = 1
  MaxFaults = 1
SYMMETRY Symmetry
CHECK_DEADLOCK FALSE
INVARIANTS
  TypeOK
  ChatsOwned
  NotifiedByObserver
  AdminChatOwned
  AnswersRoutable
