SPECIFICATION StatementsSpec
CONSTANTS
  u1 = u1  u2 = u2  u3 = u3  o1 = o1  o2 = o2  o3 = o3
  p1 = p1  p2 = p2  p3 = p3  p4 = p4  p5 = p5
  Users = {u1, u2, u3}
  Orders = {o1, o2, o3}
  Payments = {p1, p2, p3, p4, p5}
  Transactions = {t1, t2}
  NoUser = NoUser  NoOrder = NoOrder  NoPayment = NoPayment
  TopUp = TopUp  Unsettled = Unsettled
  OrderOf <- MCOrderOf
  Payer <- MCPayer
  ByWallet = {p3}
  Amount <- MCAmount
  Referrer <- MCReferrer
  Opening = 10
  CommissionPercent = 50
  MaxBonus = 8
INVARIANT RewardsWithinMaxBonus
CHECK_DEADLOCK FALSE
