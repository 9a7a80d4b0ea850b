SPECIFICATION OperationsSpec
CONSTANTS
  m1 = m1  u1 = u1  u2 = u2  u3 = u3  o1 = o1  o2 = o2  o3 = o3
  p1 = p1  p2 = p2  p3 = p3  p4 = p4  p5 = p5
  Codes = {c1}
  Redeemers = {u1, u2}
  Attempts = {w1, w2, w3}
  MaxUses = 2
  NoCode = NoCode  NoAttempt = NoAttempt
  Invitees = {i1, i2}
  Members = {m1}
  InvitedBy <- MCInvitedBy
  Mints = {w1, w2}
  Repaired = {m1}
  NoTrial = NoTrial  NoMint = NoMint
  Users = {u1, u3}
  Orders = {o1, o3}
  Payments = {p1, p3, p4, p5}
  Transactions = {w1, w2}
  NoUser = NoUser  NoOrder = NoOrder  NoPayment = NoPayment
  TopUp = TopUp  Unsettled = Unsettled
  OrderOf <- MCOrderOf
  Payer <- MCPayer
  ByWallet = {p3}
  Amount <- MCAmount
  Referrer <- MCReferrer
  Opening = 10
  CommissionPercent = 50
  MaxBonus = 8
  Updates = {n1}
  Offered = {"", "price", "label", "callback", "rewardTrafficGb"}
  Handlers = {w1, w2}
  Tickets = {k1}
  Deposits = {d1}
  MaxOrders = 1
  MaxPayments = 2
  Visits <- MCVisits
  None = None
  Exchanges = {w1, w2}
  Logins = {l1, l2, l3}
  MaxRestarts = 1
  NoLogin = NoLogin
  MaxRegistered = 1
  Addresses = {b1}
  HostOf <- MCHostOf
  Syncers = {w1, w2}
  ProcessOf <- MCProcessOf
  MaxEdition = 2
  Usable = {1}
  NoPanel = NoPanel  NoServer = NoServer  NoSyncer = NoSyncer
SYMMETRY MCCallers
INVARIANTS
  OperationsTypeOK
  RedemptionsAreCounted
  RewardedOnce
  RewardedIsDelivered
  StatementsKeepLedger
  WizardsStoreWhatWasAsked
  ReceiptsNameTheirPayment
  DialoguesDoNotMix
  GuardedInvitationIsKept
  ReadsSurviveARestart
PROPERTIES
  DisabledForGood
  StatementsRefinePaidFulfilment
  StatementsRefineAtomicSettlement
  ListingsDoNotGoBack
CHECK_DEADLOCK FALSE
