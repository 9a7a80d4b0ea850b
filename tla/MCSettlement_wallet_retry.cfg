SPECIFICATION RetrySpec
CONSTANTS
  u1 = u1  u2 = u2  o1 = o1  o2 = o2  p1 = p1  p2 = p2
  NoUser = NoUser
  NoOrder = NoOrder
  Users = {u1}
  Orders = {o1}
  Payments = {p1, p2}
  Buyer <- MCBuyer
  Target <- MCTarget
  Price <- MCPrice
  TopUps = {10}
  Referrer <- MCReferrer
  CommissionPercent = 20
  MaxBonus = 3
PROPERTY
  WalletOrderIsDelivered
